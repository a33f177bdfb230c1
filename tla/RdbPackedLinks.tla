---------------------------- MODULE RdbPackedLinks ----------------------------
(***************************************************************************)
(* From the last entry of a list the links lead back over every entry to   *)
(* the first, however many there are.                                      *)
(***************************************************************************)
EXTENDS RdbPackedReads

-----------------------------------------------------------------------------
(* A link that was written is read. *)

(* The length of the entry before is read back. *)
LEMMA ZipLinkReads ==
  ASSUME NEW n \in Nat, n <= Beyond, NEW a \in Int,
         HeldAt(mem, a, encode_prev(zprev_code(n), n))
  PROVE  ZipLink(a) = n
  <1>1. zlink_prev(At(mem, a)) = zprev_code(n)
    BY PrevReads
  <1>2. ZipLink(a) = zlink_length(zprev_code(n), mem, a)
    BY <1>1, Zenon DEF ZipLink
  <1>3. CASE n < 254
    <2>1. zprev_code(n) = "LEN_8" /\ encode_prev("LEN_8", n) = <<n>>
      BY <1>3 DEF zprev_code, encode_prev
    <2>2. HeldAt(mem, a, <<n>>)
      BY <2>1, Zenon
    <2>3. At(mem, a) = n
      BY <2>2, HeldOne
    <2>4. zlink_length("LEN_8", mem, a) = At(mem, a)
      BY DEF zlink_length
    <2> QED  BY <1>2, <2>1, <2>3, <2>4, Zenon
  <1>4. CASE ~ n < 254
    <2> DEFINE b == Bytes32(n)
    <2>1. zprev_code(n) = "LEN_32" /\ encode_prev("LEN_32", n) = <<254>> \o Reversed(b)
      BY <1>4 DEF zprev_code, encode_prev
    <2>2. b \in Seq(Byte) /\ Len(b) = 4 /\ Reversed(b) \in Seq(Byte)
      BY Bytes32Seq
    <2> HIDE DEF b
    <2>3. HeldAt(mem, a, <<254>> \o Reversed(b))
      BY <2>1, Zenon
    <2>4. HeldAt(mem, a + 1, Reversed(b))
      <3> DEFINE t == Reversed(b)
      <3>1. t \in Seq(Byte) /\ 254 \in Nat
        BY <2>2
      <3> HIDE DEF t
      <3>2. HeldAt(mem, a, <<254>> \o t) => HeldAt(mem, a + 1, t)
        BY <3>1, HeldTail, Zenon
      <3> QED  BY <2>3, <3>2 DEF t
    <2>5. Little(mem, a + 1, Len(b)) = b
      BY <2>2, <2>4, a + 1 \in Int, LittleReadsBack, Zenon
    <2>6. Length32(Little(mem, a + 1, 4)) = n
      <3>1. Told(n) = n
        BY ToldAll
      <3> QED  BY <2>2, <2>5, <3>1, LengthReadsBack, Zenon DEF b
    <2>7. zlink_length("LEN_32", mem, a) = Length32(Little(mem, a + 1, 4))
      BY DEF zlink_length
    <2> QED  BY <1>2, <2>1, <2>6, <2>7, Zenon
  <1> QED  BY <1>3, <1>4

(* The groups of seven bits, the least significant first, that a number of *)
(* s groups is made of.                                                    *)
Group(x, i) == x \div Power128[i]

(* Numbers of up to four groups. *)
FourGroups == 268435456

LEMMA Groups ==
  ASSUME NEW x \in Nat, x < FourGroups
  PROVE  LET s == lpback_size(x)
             part(i) == IF i <= s THEN (Group(x, i) % 128) * Power128[i] ELSE 0
         IN  /\ s \in 1 .. 4 /\ Group(x, s) \in 0 .. 127
             /\ part(1) + part(2) + part(3) + part(4) + part(5) = x
  <1>1. CASE x < 128
    BY <1>1 DEF lpback_size, Group, Power128, FourGroups
  <1>2. CASE 128 <= x /\ x < 16384
    BY <1>2 DEF lpback_size, Group, Power128, FourGroups
  <1>3. CASE 16384 <= x /\ x < 2097152
    BY <1>3 DEF lpback_size, Group, Power128, FourGroups
  <1>4. CASE 2097152 <= x
    BY <1>4 DEF lpback_size, Group, Power128, FourGroups
  <1> QED  BY <1>1, <1>2, <1>3, <1>4

(* Its bytes: the groups below the last one are marked. *)
LEMMA BackIs ==
  ASSUME NEW x \in Nat, NEW i \in 1 .. lpback_size(x)
  PROVE  encode_back(x)[lpback_size(x) + 1 - i] =
           IF i = lpback_size(x) THEN Group(x, i) % 256 ELSE 128 + (Group(x, i) % 128)
  <1> DEFINE s == lpback_size(x)
             k == s + 1 - i
  <1>1. s \in 1 .. 5
    BY BackSize
  <1>2. encode_back(x) = [j \in 1 .. s |-> LET v == x \div Power128[s + 1 - j]
                                          IN  IF j = 1 THEN v % 256 ELSE 128 + (v % 128)]
    BY Zenon DEF encode_back
  <1> HIDE DEF s
  <1>3. k \in 1 .. s /\ s + 1 - k = i /\ (k = 1 <=> i = s)
    BY <1>1 DEF s
  <1> HIDE DEF k
  <1>4. encode_back(x)[k] = LET v == x \div Power128[s + 1 - k]
                           IN  IF k = 1 THEN v % 256 ELSE 128 + (v % 128)
    BY <1>2, <1>3, Zenon
  <1>5. encode_back(x)[k] = IF i = s THEN Group(x, i) % 256 ELSE 128 + (Group(x, i) % 128)
    BY <1>3, <1>4, Zenon DEF Group
  <1> QED  BY <1>5 DEF s, k

(* Read from its last byte backwards, the link behind an entry gives its   *)
(* own size and that of the entry.                                         *)
LEMMA LpLinkReads ==
  ASSUME NEW x \in Nat, x < FourGroups, NEW a \in Int, HeldAt(mem, a, encode_back(x))
  PROVE  LET l == LpLink(a + lpback_size(x) - 1)
         IN  l.size = lpback_size(x) /\ l.len = x
  <1> DEFINE n == lpback_size(x)
             z == a + n - 1
             byte(i) == At(mem, z - i + 1)
             Marks(s) == (byte(s) < 128 \/ s = 5) /\ \A i \in 1 .. s - 1 : byte(i) >= 128
  <1>1. n \in 1 .. 4 /\ Len(encode_back(x)) = n
    BY Groups, BackSize
  <1>2. ASSUME NEW i \in 1 .. n
        PROVE  byte(i) = IF i = n THEN Group(x, i) % 256 ELSE 128 + (Group(x, i) % 128)
    <2> DEFINE k == n + 1 - i
    <2>1. encode_back(x)[k] =
            IF i = n THEN Group(x, i) % 256 ELSE 128 + (Group(x, i) % 128)
      BY BackIs
    <2> HIDE DEF n
    <2>2. k \in 1 .. n /\ a + k - 1 = z - i + 1
      BY <1>1
    <2>3. At(mem, a + k - 1) = encode_back(x)[k]
      BY <1>1, <2>2 DEF HeldAt
    <2> QED  BY <2>1, <2>2, <2>3, Zenon
  <1>3. Group(x, n) \in 0 .. 127
    BY Groups
  <1> DEFINE part(i) == IF i <= n THEN (Group(x, i) % 128) * Power128[i] ELSE 0
  <1>4. part(1) + part(2) + part(3) + part(4) + part(5) = x
    BY Groups
  <1>5. \A i \in 1 .. 4 : Group(x, i) \in Nat
    BY Shifted DEF Group
  <1> HIDE DEF n, byte
  <1>6. /\ byte(n) < 128 /\ byte(n) % 128 = Group(x, n) % 128
        /\ \A i \in 1 .. n - 1 : byte(i) >= 128 /\ byte(i) % 128 = Group(x, i) % 128
    <2>1. byte(n) = Group(x, n)
      <3> DEFINE g == Group(x, n)
      <3>1. byte(n) = g % 256
        BY <1>1, <1>2
      <3>2. g \in 0 .. 127
        BY <1>3
      <3> HIDE DEF g
      <3>3. g % 256 = g
        BY <3>2
      <3> QED  BY <3>1, <3>3 DEF g
    <2>2. ASSUME NEW i \in 1 .. n - 1
          PROVE  byte(i) >= 128 /\ byte(i) % 128 = Group(x, i) % 128
      <3> DEFINE g == Group(x, i)
      <3>1. i \in 1 .. n /\ i # n /\ i \in 1 .. 4
        BY <1>1
      <3>2. byte(i) = 128 + (g % 128)
        BY <1>2, <3>1
      <3>3. g \in Nat
        BY <1>5, <3>1
      <3> HIDE DEF g
      <3>4. 128 + (g % 128) >= 128 /\ (128 + (g % 128)) % 128 = g % 128
        BY <3>3
      <3> QED  BY <3>2, <3>4 DEF g
    <2>3. byte(n) < 128
      BY <1>3, <2>1
    <2>4. byte(n) % 128 = Group(x, n) % 128
      BY <2>1, Zenon
    <2> QED  BY <2>2, <2>3, <2>4
  <1>7. ASSUME NEW s \in 1 .. 5
        PROVE  Marks(s) <=> s = n
    <2>1. CASE s = n
      BY <1>6, <2>1
    <2>2. CASE s < n
      <3>1. s \in 1 .. n - 1
        BY <1>1, <2>2
      <3>2. byte(s) >= 128
        BY <1>6, <3>1
      <3>3. ~ byte(s) < 128
        <4>1. byte(s) \in Int
          <5>1. byte(s) = 128 + (Group(x, s) % 128)
            BY <1>1, <1>2, <3>1
          <5>2. Group(x, s) \in Nat
            BY <1>1, <1>5, <3>1
          <5> QED  BY <5>1, <5>2
        <4> QED  BY <3>2, <4>1
      <3> QED  BY <1>1, <2>2, <3>1, <3>3
    <2>3. CASE s > n
      <3>1. n \in 1 .. s - 1
        BY <1>1, <2>3
      <3>2. ~ byte(n) >= 128
        <4>1. byte(n) \in Int
          <5>1. byte(n) = Group(x, n) % 256
            BY <1>1, <1>2
          <5> QED  BY <1>3, <5>1
        <4> QED  BY <1>6, <4>1
      <3> QED  BY <1>1, <2>3, <3>1, <3>2
    <2> QED  BY <1>1, <2>1, <2>2, <2>3
  <1>8. (CHOOSE s \in 1 .. 5 : Marks(s)) = n
    BY <1>1, <1>7
  <1> DEFINE of(s, i) == IF i <= s THEN (byte(i) % 128) * Power128[i] ELSE 0
  <1>9. \A i \in 1 .. 5 : of(n, i) = part(i)
    BY <1>1, <1>6
  <1>10. LpLink(z) = [size |-> n,
                       len |-> of(n, 1) + of(n, 2) + of(n, 3) + of(n, 4) + of(n, 5)]
    <2> DEFINE c == CHOOSE s \in 1 .. 5 : /\ byte(s) < 128 \/ s = 5
                                          /\ \A i \in 1 .. s - 1 : byte(i) >= 128
    <2>1. c = n
      BY <1>8, Zenon DEF Marks
    <2>2. LpLink(z) = [size |-> c, len |-> of(c, 1) + of(c, 2) + of(c, 3) + of(c, 4) + of(c, 5)]
      BY Zenon DEF LpLink, byte
    <2> HIDE DEF c, of
    <2> QED  BY <2>1, <2>2, Zenon
  <1> HIDE DEF of, part
  <1>11. LpLink(z) = [size |-> n, len |-> x]
    BY <1>4, <1>9, <1>10
  <1> QED  BY <1>11 DEF n

-----------------------------------------------------------------------------
(* The links of a list. *)

(* How many bytes the entry before the i-th one has, or none. *)
SizeBefore(i) == IF i = 1 THEN 0 ELSE StartOf(i) - StartOf(i - 1)

(* The entry from a to b, behind one of p bytes, has its link. *)
Linked(k, m, p, a, b) ==
  IF k = "zip"
  THEN /\ p \in Nat /\ HeldAt(m, a, encode_prev(zprev_code(p), p))
       /\ b >= a + Len(encode_prev(zprev_code(p), p))
  ELSE \E x \in Nat : /\ x < FourGroups /\ b = a + x + lpback_size(x)
                      /\ HeldAt(m, a + x, encode_back(x))

(* So have all; and the encoder of a ziplist knows the last entry. *)
Chain ==
  /\ \A i \in 1 .. Len(starts) : Linked(kind, mem, SizeBefore(i), starts[i], StartOf(i + 1))
  /\ kind = "zip" => /\ enc.link_sz + zlink_size(enc.prev) = SizeBefore(Len(starts) + 1)
                     /\ starts # <<>> => enc.prev_off = starts[Len(starts)]
                     /\ medium = "whole" => zltail = Told(enc.prev_off)

LinkInv == ReadInv /\ (medium # "bad" => Chain)

(* A store elsewhere keeps a link. *)
LEMMA LinkedKept ==
  ASSUME NEW k \in Kinds, NEW m, NEW p, NEW a \in Nat, NEW b \in Nat, Linked(k, m, p, a, b),
         NEW c \in Int, NEW s \in Seq(Byte), c >= b \/ c + Len(s) <= a
  PROVE  Linked(k, Store(m, c, s), p, a, b)
  <1>0. Len(s) \in Nat
    BY LenProperties
  <1>1. CASE k = "zip"
    <2> DEFINE h == encode_prev(zprev_code(p), p)
    <2>1. p \in Nat /\ HeldAt(m, a, h) /\ b >= a + Len(h)
      BY <1>1 DEF Linked
    <2>2. h \in Seq(Byte)
      BY <2>1, PrevSize
    <2> HIDE DEF h
    <2>3. Len(h) \in Nat
      BY <2>2, LenProperties
    <2>4. c >= a + Len(h) \/ c + Len(s) <= a
      BY <1>0, <2>1, <2>3
    <2>5. HeldAt(Store(m, c, s), a, h)
      BY <2>1, <2>2, <2>4, StoreKeeps
    <2> QED  BY <1>1, <2>1, <2>5 DEF Linked, h
  <1>2. CASE k = "pack"
    <2>1. PICK x \in Nat : /\ x < FourGroups /\ b = a + x + lpback_size(x)
                           /\ HeldAt(m, a + x, encode_back(x))
      BY <1>2 DEF Linked
    <2> DEFINE h == encode_back(x)
               o == a + x
    <2>2. h \in Seq(Byte) /\ Len(h) = lpback_size(x) /\ lpback_size(x) \in Nat /\ o \in Nat
      <3>1. h \in Seq(Byte) /\ Len(h) = lpback_size(x)
        BY BackBytes, BackSize
      <3> QED  BY <3>1, LpBackSize
    <2>3. HeldAt(m, o, h)
      BY <2>1
    <2>4. c >= o + Len(h) \/ c + Len(s) <= o
      <3> HIDE DEF h
      <3> QED  BY <1>0, <2>1, <2>2
    <2> HIDE DEF h, o
    <2>5. HeldAt(Store(m, c, s), o, h)
      BY <2>2, <2>3, <2>4, StoreKeeps
    <2> QED  BY <1>2, <2>1, <2>5 DEF Linked, h, o
  <1> QED  BY <1>1, <1>2 DEF Kinds

(* At first there are no links. *)
LEMMA LinkInit == Init => LinkInv
  <1> SUFFICES ASSUME Init PROVE LinkInv
    OBVIOUS
  <1>1. ReadInv
    BY ReadInit
  <1>2. starts = <<>> /\ medium = "open" /\ enc.link_sz = 0 /\ enc.prev = "ZIP_END"
    BY DEF Init, NewEncode
  <1>3. zlink_size("ZIP_END") = 0
    BY DEF zlink_size
  <1>4. SizeBefore(Len(starts) + 1) = 0
    BY <1>2 DEF SizeBefore
  <1>5. enc.link_sz + zlink_size(enc.prev) = SizeBefore(Len(starts) + 1)
    BY <1>2, <1>3, <1>4
  <1> QED  BY <1>1, <1>2, <1>5 DEF LinkInv, Chain

(* The header of an entry of a listpack has nine bytes at most. *)
LEMMA PackEntrySize ==
  ASSUME NEW wr \in Writers, NEW e \in Elements["pack"][wr], Readable("pack", wr, e)
  PROVE  SizeOf("pack", e) + DataLen(e) \in Nat /\ SizeOf("pack", e) + DataLen(e) < FourGroups
  <1>1. SizeOf("pack", e) \in Nat /\ DataLen(e) \in Nat
    BY SizesAgree DEF Kinds
  <1>2. CodeOf("pack", e) \in {"6BIT_STR", "12BIT_STR", "32BIT_STR", "7BIT_UINT", "13BIT_INT",
                              "16BIT_INT", "24BIT_INT", "32BIT_INT", "64BIT_INT"}
    <2>1. e[1] \in {"str", "int"}
      BY ElementForms DEF Kinds
    <2>2. CASE e[1] = "str"
      BY <2>2 DEF CodeOf, lpnext_str_code
    <2>3. CASE e[1] = "int"
      BY <2>3 DEF CodeOf, lpnext_imm_code
    <2> QED  BY <2>1, <2>2, <2>3
  <1>3. SizeOf("pack", e) <= 9
    <2> DEFINE c == CodeOf("pack", e)
    <2>1. SizeOf("pack", e) = lp_size(c)
      BY DEF SizeOf
    <2> HIDE DEF c
    <2>2. lp_size(c) <= 9
      BY <1>2 DEF lp_size, c
    <2> QED  BY <2>1, <2>2
  <1>4. DataLen(e) < Beyond
    <2>1. CASE e[1] = "str"
      BY <2>1 DEF Readable, DataLen
    <2>2. CASE e[1] # "str"
      BY <2>2 DEF DataLen, Beyond
    <2> QED  BY <2>1, <2>2
  <1> QED  BY <1>1, <1>3, <1>4, SMT DEF Beyond, FourGroups

(* What append() writes is in memory, with the data in between. *)
LEMMA AppendHeld ==
  ASSUME RoomInv, NEW e \in Elements[kind][writer], append(e)
  PROVE  /\ HeldAt(mem', enc.off, Before(e))
         /\ HeldAt(mem', enc.off + Len(Before(e)) + DataLen(e), After(e))
  <1> DEFINE h == Before(e)
             s == After(e)
             tail == enc.off + Len(h) + DataLen(e)
  <1>1. /\ h \in Seq(Byte) /\ s \in Seq(Byte) /\ DataLen(e) \in Nat /\ Len(h) \in Nat
        /\ enc.off \in Nat
    BY AppendWrites, LenProperties DEF RoomInv, Encoder
  <1>2. mem' = Store(Store(mem, enc.off, h), tail, s)
    BY DEF append
  <1>3. tail \in Int /\ tail >= enc.off + Len(h)
    BY <1>1
  <1> HIDE DEF h, s, tail
  <1>4. HeldAt(Store(mem, enc.off, h), enc.off, h)
    BY <1>1, StoreHeld
  <1> DEFINE m == Store(mem, enc.off, h)
  <1> HIDE DEF m
  <1>5. HeldAt(Store(m, tail, s), enc.off, h)
    BY <1>1, <1>3, <1>4, StoreKeeps DEF m
  <1>6. HeldAt(Store(m, tail, s), tail, s)
    BY <1>1, <1>3, StoreHeld
  <1>7. HeldAt(mem', enc.off, h) /\ HeldAt(mem', tail, s)
    BY <1>2, <1>5, <1>6, Zenon DEF m
  <1> QED  BY <1>7, Zenon DEF h, s, tail

(* The bytes that append() writes in front of the data. *)
LEMMA BeforeIs ==
  ASSUME RoomInv, NEW e \in Elements[kind][writer]
  PROVE  /\ kind = "zip" =>
              LET n == enc.link_sz + zlink_size(enc.prev)
                  h == encode_prev(zprev_code(n), n)
              IN  /\ n \in Nat /\ h \in Seq(Byte) /\ Len(h) = zlink_size(zprev_code(n))
                  /\ Before(e) = h \o HeadOf("zip", writer, e)
                  /\ Len(Before(e)) = Len(h) + SizeOf("zip", e)
         /\ kind = "pack" => Len(Before(e)) = SizeOf("pack", e)
  <1>1. /\ SizeOf(kind, e) \in Nat /\ HeadOf(kind, writer, e) \in Seq(Byte)
        /\ Len(HeadOf(kind, writer, e)) = SizeOf(kind, e)
    BY SizesAgree DEF RoomInv
  <1>2. CASE kind = "zip"
    <2> DEFINE n == enc.link_sz + zlink_size(enc.prev)
               h == encode_prev(zprev_code(n), n)
    <2>1. n \in Nat
      <3>1. \A c \in {"ZIP_END", "LEN_8", "LEN_32"} : zlink_size(c) \in Nat
        BY DEF zlink_size
      <3> QED  BY <3>1 DEF RoomInv, Encoder
    <2> HIDE DEF n
    <2>2. h \in Seq(Byte) /\ Len(h) = zlink_size(zprev_code(n))
      BY <2>1, PrevSize
    <2>3. Before(e) = h \o HeadOf("zip", writer, e)
      BY <1>2, Zenon DEF Before, zip_prev, n
    <2> HIDE DEF h
    <2>4. Len(Before(e)) = Len(h) + SizeOf("zip", e)
      <3>1. HeadOf("zip", writer, e) \in Seq(Byte) /\ Len(HeadOf("zip", writer, e)) = SizeOf("zip", e)
        BY <1>1, <1>2
      <3>2. Len(h \o HeadOf("zip", writer, e)) = Len(h) + Len(HeadOf("zip", writer, e))
        BY <2>2, <3>1, ConcatProperties, Zenon
      <3> QED  BY <2>3, <3>1, <3>2, Zenon
    <2> QED  BY <1>2, <2>1, <2>2, <2>3, <2>4, Zenon DEF n, h
  <1>3. CASE kind = "pack"
    <2>1. Before(e) = <<>> \o HeadOf("pack", writer, e)
      BY <1>3 DEF Before
    <2>2. HeadOf("pack", writer, e) \in Seq(Byte) /\ Len(HeadOf("pack", writer, e)) = SizeOf("pack", e)
      BY <1>1, <1>3
    <2> DEFINE t == HeadOf("pack", writer, e)
    <2> HIDE DEF t
    <2>3. <<>> \o t = t
      BY <2>2, ConcatEmptySeq DEF t
    <2> QED  BY <1>3, <2>1, <2>2, <2>3 DEF t
  <1> QED  BY <1>2, <1>3 DEF RoomInv, Kinds

(* An append links its entry to the last one. *)
LEMMA LinkAppend ==
  ASSUME AllReadable, LinkInv, NEW e \in Elements[kind][writer], append(e)
  PROVE  LinkInv'
  <1> DEFINE h == Before(e)
             t == After(e)
             tail == enc.off + Len(h) + DataLen(e)
             size == Len(h) + DataLen(e) + Len(t)
             m == Store(mem, enc.off, h)
  <1>1. /\ ReadInv' /\ ReadInv /\ WalkInv /\ RoomInv /\ kind \in Kinds /\ writer \in Writers
        /\ medium = "open" /\ medium' = "open" /\ UNCHANGED <<kind, writer>> /\ Chain /\ Laid
    BY ReadAppend DEF LinkInv, ReadInv, WalkInv, RoomInv, append
  <1>2. PICK N \in Nat : N = Len(starts)
    <2>1. Len(starts) \in Nat
      BY <1>1, LenProperties DEF ReadInv
    <2> QED  BY <2>1
  <1>3. /\ h \in Seq(Byte) /\ t \in Seq(Byte) /\ DataLen(e) \in Nat
        /\ Len(h) \in Nat /\ Len(t) \in Nat /\ enc.off \in Nat
    BY <1>1, AppendWrites, LenProperties DEF RoomInv, Encoder
  <1>4. /\ starts \in Seq(Nat) /\ starts' \in Seq(Nat) /\ Len(starts') = N + 1
        /\ \A i \in 1 .. N : starts'[i] = starts[i]
        /\ starts'[N + 1] = enc.off
    <2>1. starts \in Seq(Nat) /\ starts' = Append(starts, enc.off)
      BY <1>1 DEF ReadInv, append
    <2> QED  BY <1>2, <1>3, <2>1, AppendProperties
  <1>5. mem' = Store(m, tail, t)
    BY DEF append
  <1>6. enc' = IF kind = "zip" THEN zip_append(enc, e, size) ELSE lp_append(enc, e, size)
    BY DEF append
  <1>7. tail \in Int /\ size \in Nat /\ tail >= enc.off
    BY <1>3
  <1>8. HeldAt(mem', enc.off, h) /\ HeldAt(mem', tail, t)
    BY <1>1, AppendHeld
  <1>9. /\ kind = "pack" => t = encode_back(SizeOf("pack", e) + DataLen(e))
        /\ kind = "zip" => t = <<>>
    BY DEF After, Kinds
  <1> HIDE DEF h, t, tail, size
  <1>10. ListEnd = enc.off /\ ListEnd' = enc.off + size
    <2>1. enc'.off = enc.off + size
      BY <1>1, <1>6 DEF zip_append, lp_append, RoomInv, Encoder
    <2> QED  BY <1>1, <2>1 DEF ListEnd
  <1>11. \A i \in 1 .. N + 1 : StartOf(i)' = StartOf(i) /\ StartOf(i) \in Nat
    <2> TAKE i \in 1 .. N + 1
    <2>1. StartOf(i)' = starts'[i]
      BY <1>4 DEF StartOf
    <2>2. CASE i \in 1 .. N
      BY <1>2, <1>4, <2>1, <2>2, ElementOfSeq DEF StartOf
    <2>3. CASE i = N + 1
      BY <1>2, <1>3, <1>4, <1>10, <2>1, <2>3 DEF StartOf
    <2> QED  BY <2>2, <2>3
  <1>12. StartOf(N + 1) = enc.off /\ StartOf(N + 2)' = enc.off + size
    <2>1. N + 2 \notin 1 .. Len(starts') /\ N + 1 \notin 1 .. Len(starts)
      BY <1>2, <1>4
    <2> QED  BY <1>10, <2>1 DEF StartOf
  <1>13. \A i \in 1 .. N + 1 : SizeBefore(i)' = SizeBefore(i)
    <2> TAKE i \in 1 .. N + 1
    <2>1. CASE i = 1
      BY <2>1 DEF SizeBefore
    <2>2. CASE i # 1
      <3>1. i - 1 \in 1 .. N + 1
        BY <2>2
      <3>2. StartOf(i)' = StartOf(i) /\ StartOf(i - 1)' = StartOf(i - 1)
        BY <1>11, <3>1
      <3> QED  BY <2>2, <3>2 DEF SizeBefore
    <2> QED  BY <2>1, <2>2
  <1>14. SizeBefore(N + 2)' = size
    <2>1. SizeBefore(N + 2)' = StartOf(N + 2)' - StartOf(N + 1)'
      <3>1. N + 2 # 1 /\ (N + 2) - 1 = N + 1
        OBVIOUS
      <3> QED  BY <3>1 DEF SizeBefore
    <2>2. StartOf(N + 1)' = enc.off
      BY <1>11, <1>12
    <2> QED  BY <1>3, <1>7, <1>12, <2>1, <2>2
  <1>15. ASSUME NEW i \in 1 .. N
         PROVE  Linked(kind, mem', SizeBefore(i)', starts'[i], StartOf(i + 1)')
    <2> DEFINE a == starts[i]
               b == StartOf(i + 1)
               p == SizeBefore(i)
    <2>1. Linked(kind, mem, p, a, b)
      BY <1>1, <1>2 DEF Chain
    <2>2. starts'[i] = a /\ a \in Nat /\ StartOf(i + 1)' = b /\ b \in Nat /\ SizeBefore(i)' = p
      BY <1>2, <1>4, <1>11, <1>13, ElementOfSeq
    <2>3. b <= enc.off
      BY <1>1, <1>2, <1>10 DEF Laid, ReadInv
    <2> HIDE DEF a, b, p, m
    <2>4. enc.off >= b /\ tail >= b /\ enc.off \in Int
      BY <1>3, <1>7, <2>2, <2>3
    <2>5. Linked(kind, m, p, a, b)
      BY <1>1, <1>3, <2>1, <2>2, <2>4, LinkedKept DEF m
    <2>6. Linked(kind, Store(m, tail, t), p, a, b)
      BY <1>1, <1>3, <1>7, <2>2, <2>4, <2>5, LinkedKept
    <2> QED  BY <1>5, <2>2, <2>6, Zenon
  <1>16. Linked(kind, mem', SizeBefore(N + 1)', starts'[N + 1], StartOf(N + 2)')
    <2>1. Linked(kind, mem', SizeBefore(N + 1), enc.off, enc.off + size)
      <3>1. CASE kind = "zip"
        <4> DEFINE n == SizeBefore(N + 1)
                   c == encode_prev(zprev_code(n), n)
        <4>1. enc.link_sz + zlink_size(enc.prev) = n
          BY <1>1, <1>2, <3>1 DEF Chain
        <4>2. /\ n \in Nat /\ c \in Seq(Byte) /\ h = c \o HeadOf("zip", writer, e)
              /\ Len(h) = Len(c) + SizeOf("zip", e)
          BY <1>1, <3>1, <4>1, BeforeIs DEF h
        <4>3. HeadOf("zip", writer, e) \in Seq(Byte) /\ SizeOf("zip", e) \in Nat
          BY <1>1, <3>1, SizesAgree
        <4> HIDE DEF n, c
        <4>4. HeldAt(mem', enc.off, c)
          <5>1. HeldAt(mem', enc.off, c \o HeadOf("zip", writer, e))
            BY <1>8, <4>2, Zenon
          <5> QED  BY <1>3, <4>2, <4>3, <5>1, HeldConcat
        <4>5. enc.off + size >= enc.off + Len(c)
          <5>1. Len(c) \in Nat
            BY <4>2, LenProperties
          <5> QED  BY <1>3, <4>2, <4>3, <5>1 DEF size
        <4> QED  BY <3>1, <4>2, <4>4, <4>5 DEF Linked, n, c
      <3>2. CASE kind = "pack"
        <4> DEFINE x == SizeOf("pack", e) + DataLen(e)
        <4>1. x \in Nat /\ x < FourGroups
          BY <1>1, <3>2, PackEntrySize DEF AllReadable
        <4>2. Len(h) = SizeOf("pack", e) /\ SizeOf("pack", e) \in Nat
          BY <1>1, <3>2, BeforeIs, SizesAgree DEF h
        <4>3. t = encode_back(x)
          BY <1>9, <3>2
        <4>4. tail = enc.off + x
          BY <1>3, <4>2 DEF tail
        <4>5. enc.off + size = enc.off + x + Len(t)
          BY <1>3, <4>2 DEF size
        <4> HIDE DEF x
        <4>6. Len(t) = lpback_size(x)
          BY <4>1, <4>3, BackSize
        <4>7. HeldAt(mem', enc.off + x, encode_back(x))
          BY <1>8, <4>3, <4>4, Zenon
        <4>8. enc.off + size = enc.off + x + lpback_size(x)
          BY <4>5, <4>6, Zenon
        <4> QED  BY <3>2, <4>1, <4>7, <4>8 DEF Linked
      <3> QED  BY <1>1, <3>1, <3>2 DEF Kinds
    <2>2. SizeBefore(N + 1)' = SizeBefore(N + 1)
      BY <1>13
    <2> QED  BY <1>4, <1>12, <2>1, <2>2, Zenon
  <1>17. ASSUME kind = "zip"
         PROVE  enc'.link_sz + zlink_size(enc'.prev) = SizeBefore(N + 2)' /\ enc'.prev_off = enc.off
    <2> DEFINE n == enc.link_sz + zlink_size(enc.prev)
    <2>1. enc' = zip_append(enc, e, size)
      BY <1>6, <1>17
    <2>2. /\ enc'.prev_off = enc.off /\ enc'.prev = zprev_code(n)
          /\ enc'.link_sz = SizeOf("zip", e) + DataLen(e)
      BY <1>1, <2>1 DEF zip_append, RoomInv, Encoder
    <2>3. /\ n \in Nat /\ Len(h) = zlink_size(zprev_code(n)) + SizeOf("zip", e)
      BY <1>1, <1>17, BeforeIs DEF h
    <2>4. SizeOf("zip", e) \in Nat /\ zlink_size(zprev_code(n)) \in Nat
      <3>1. zlink_size("LEN_8") = 1 /\ zlink_size("LEN_32") = 5
        BY DEF zlink_size
      <3>2. zlink_size(zprev_code(n)) \in Nat
        BY <3>1 DEF zprev_code
      <3> QED  BY <1>1, <1>17, <3>2, SizesAgree
    <2>5. Len(t) = 0
      BY <1>9, <1>17
    <2> HIDE DEF n
    <2>6. (SizeOf("zip", e) + DataLen(e)) + zlink_size(zprev_code(n)) = size
      BY <1>3, <2>3, <2>4, <2>5 DEF size
    <2> QED  BY <1>14, <2>2, <2>6, Zenon
  <1>18. ASSUME NEW i \in 1 .. N + 1
         PROVE  Linked(kind, mem', SizeBefore(i)', starts'[i], StartOf(i + 1)')
    <2>1. CASE i \in 1 .. N
      BY <1>15, <2>1
    <2>2. CASE i = N + 1
      <3>1. i + 1 = N + 2
        BY <2>2
      <3> QED  BY <1>16, <2>2, <3>1, Zenon
    <2> QED  BY <2>1, <2>2
  <1>19. Chain'
    <2>1. Len(starts') + 1 = N + 2
      BY <1>4
    <2>2. kind = "zip" => /\ enc'.link_sz + zlink_size(enc'.prev) = SizeBefore(Len(starts) + 1)'
                          /\ enc'.prev_off = starts'[Len(starts')]
      <3>1. SizeBefore(Len(starts) + 1)' = SizeBefore(N + 2)'
        BY <2>1
      <3> QED  BY <1>4, <1>17, <3>1, Zenon
    <2> QED  BY <1>1, <1>4, <1>18, <2>2 DEF Chain
  <1> QED  BY <1>1, <1>19 DEF LinkInv

(* The header of a ziplist gives the start of its last entry. *)
LEMMA TailReadsOff ==
  ASSUME NEW m, NEW n \in Nat, NEW b \in Seq(Byte), Len(b) = 4, NEW r \in Seq(Byte),
         HeldAt(m, 0, b \o (Reversed(Bytes32(n)) \o r))
  PROVE  Length32(Little(m, 4, 4)) = Told(n)
  <1> DEFINE c == Bytes32(n)
             t == Reversed(c)
  <1>1. c \in Seq(Byte) /\ Len(c) = 4 /\ t \in Seq(Byte)
    BY Bytes32Seq
  <1> HIDE DEF c, t
  <1>2. t \o r \in Seq(Byte)
    BY <1>1, ConcatProperties, Zenon
  <1>3. HeldAt(m, 0 + Len(b), t \o r)
    BY <1>2, 0 \in Int, HeldConcat, Zenon DEF c, t
  <1>4. HeldAt(m, 4, t \o r)
    <2>1. 0 + Len(b) = 4
      OBVIOUS
    <2> QED  BY <1>3, <2>1
  <1>5. HeldAt(m, 4, t)
    BY <1>1, <1>4, 4 \in Int, HeldConcat, Zenon
  <1>6. Little(m, 4, Len(c)) = c
    BY <1>1, <1>5, 4 \in Int, LittleReadsBack, Zenon DEF t
  <1>7. Little(m, 4, 4) = c
    BY <1>1, <1>6
  <1> QED  BY <1>7, LengthReadsBack, Zenon DEF c

(* append_end() moves no entry and writes where the last one starts. *)
LEMMA LinkEnd ==
  ASSUME LinkInv, End
  PROVE  LinkInv'
  <1> DEFINE h == Header(enc')
             t == <<255>>
             m == Store(mem, enc.off, t)
  <1>1. /\ ReadInv /\ ReadInv' /\ WalkInv /\ RoomInv /\ Chain /\ Laid
        /\ medium = "open" /\ medium' = "whole" /\ UNCHANGED <<kind, writer, written, starts>>
        /\ kind \in Kinds
    BY ReadEnd DEF LinkInv, ReadInv, WalkInv, RoomInv, End
  <1>2. /\ enc.off \in Nat /\ enc.prev_off \in Nat /\ enc.items \in Nat
        /\ enc'.off = enc.off + 1 /\ enc'.prev_off = enc.prev_off /\ enc'.items = enc.items
        /\ enc'.link_sz = enc.link_sz /\ enc'.prev = enc.prev
    BY <1>1 DEF End, RoomInv, Encoder
  <1>3. starts \in Seq(Nat) /\ Len(starts) \in Nat /\ Len(starts) = Len(written)
    BY <1>1, LenProperties DEF ReadInv
  <1>4. h \in Seq(Byte) /\ Len(h) = HeaderLen(kind)
    BY <1>2, <1>3, HeaderShape DEF EndsIn
  <1>5. mem' = Store(m, 0, h) /\ t \in Seq(Byte)
    BY ByteSeqs, CodeBytes DEF End
  <1>6. ListEnd' = ListEnd /\ ListEnd = enc.off
    BY <1>1, <1>2 DEF ListEnd
  <1>7. \A i : StartOf(i)' = StartOf(i)
    BY <1>1, <1>6 DEF StartOf
  <1>8. \A i : SizeBefore(i)' = SizeBefore(i)
    BY <1>7 DEF SizeBefore
  <1> HIDE DEF h, t
  <1>9. ASSUME NEW i \in 1 .. Len(starts)
        PROVE  Linked(kind, mem', SizeBefore(i)', starts[i], StartOf(i + 1)')
    <2> DEFINE a == starts[i]
               b == StartOf(i + 1)
               p == SizeBefore(i)
    <2>1. Linked(kind, mem, p, a, b)
      BY <1>1 DEF Chain
    <2>2. a \in Nat /\ b \in Nat
      BY <1>2, <1>3, <1>6, ElementOfSeq DEF StartOf
    <2>3. b <= enc.off /\ a >= HeaderLen(kind)
      BY <1>1, <1>3, <1>6 DEF Laid
    <2> HIDE DEF a, b, p, m
    <2>4. Linked(kind, m, p, a, b)
      BY <1>1, <1>2, <1>5, <2>1, <2>2, <2>3, LinkedKept DEF m
    <2>5. 0 + Len(h) <= a
      BY <1>4, <2>2, <2>3, HeaderLens
    <2>6. Linked(kind, Store(m, 0, h), p, a, b)
      BY <1>1, <1>4, <2>2, <2>4, <2>5, 0 \in Int, LinkedKept
    <2> QED  BY <1>5, <1>7, <1>8, <2>6, Zenon DEF a, b, p
  <1>10. ASSUME kind = "zip"
         PROVE  zltail' = Told(enc'.prev_off)
    <2> DEFINE b == Reversed(Bytes32(enc'.off))
               r == Count16(Len(written'))
               n == enc'.prev_off
    <2>1. b \in Seq(Byte) /\ Len(b) = 4 /\ r \in Seq(Byte) /\ n \in Nat
      <3>1. enc'.off \in Nat /\ n \in Nat /\ Len(written') \in Nat
        BY <1>1, <1>2, <1>3
      <3> QED  BY <3>1, Bytes32Seq, Count16Seq
    <2>2. h = b \o (Reversed(Bytes32(n)) \o r)
      BY <1>1, <1>10, Zenon DEF h, Header
    <2> HIDE DEF m
    <2>3. HeldAt(mem', 0, h)
      BY <1>4, <1>5, 0 \in Int, StoreHeld
    <2> HIDE DEF b, r, n
    <2>4. Length32(Little(mem', 4, 4)) = Told(n)
      <3>1. HeldAt(mem', 0, b \o (Reversed(Bytes32(n)) \o r))
        BY <2>2, <2>3, Zenon
      <3> QED  BY <2>1, <3>1, TailReadsOff
    <2> QED  BY <2>4, Zenon DEF zltail, n
  <1>11. kind = "zip" => /\ enc'.link_sz + zlink_size(enc'.prev) = SizeBefore(Len(starts) + 1)'
                         /\ starts # <<>> => enc'.prev_off = starts[Len(starts)]
    BY <1>1, <1>2, <1>8 DEF Chain
  <1>12. Chain'
    BY <1>1, <1>9, <1>10, <1>11 DEF Chain
  <1> QED  BY <1>1, <1>12 DEF LinkInv

(* No step breaks a link of a list that is not damaged. *)
LEMMA LinkStep == AllReadable /\ LinkInv /\ [Next]_vars => LinkInv'
  <1> SUFFICES ASSUME AllReadable, LinkInv, [Next]_vars PROVE LinkInv'
    OBVIOUS
  <1>1. ReadInv'
    BY ReadStep DEF LinkInv
  <1>2. ASSUME NEW e \in Elements[kind][writer], append(e) PROVE LinkInv'
    BY <1>2, LinkAppend
  <1>3. CASE End
    BY <1>3, LinkEnd
  <1>4. ASSUME NEW a \in DOMAIN mem, NEW b \in Damages, Damage(a, b) PROVE LinkInv'
    <2>1. medium' = "bad"
      BY <1>4 DEF Damage
    <2> QED  BY <1>1, <2>1 DEF LinkInv
  <1>5. CASE Walk \/ UNCHANGED vars
    <2>1. UNCHANGED <<kind, starts, enc, mem, medium>>
      BY <1>5 DEF Walk, vars
    <2>2. ListEnd' = ListEnd
      BY <2>1 DEF ListEnd
    <2>3. \A i : StartOf(i)' = StartOf(i)
      BY <2>1, <2>2 DEF StartOf
    <2>4. \A i : SizeBefore(i)' = SizeBefore(i)
      BY <2>3 DEF SizeBefore
    <2>5. zltail' = zltail
      BY <2>1 DEF zltail
    <2>6. Chain => Chain'
      BY <2>1, <2>3, <2>4, <2>5 DEF Chain
    <2> QED  BY <1>1, <2>1, <2>6 DEF LinkInv
  <1> QED  BY <1>2, <1>3, <1>4, <1>5 DEF Next

(* In a list of any number of elements that RdbZipEncode,                  *)
(* RdbListPackEncode or Redis built, and whose length is told, the tail in *)
(* the header of a ziplist is its last entry, and from every entry the     *)
(* link leads to the start of the one before, past all changes of the size *)
(* of a link.                                                              *)
THEOREM PackedLinks == AllReadable => (Spec => [](Short => LinksBack))
  <1> SUFFICES ASSUME AllReadable PROVE Spec => [](Short => LinksBack)
    OBVIOUS
  <1>1. LinkInv => (Short => LinksBack)
    <2> SUFFICES ASSUME LinkInv, Short, medium = "whole", written # <<>> PROVE LinksBack
      BY DEF LinksBack
    <2>1. /\ ReadInv /\ WalkInv /\ RoomInv /\ kind \in Kinds /\ Chain
          /\ starts \in Seq(Nat) /\ Len(starts) = Len(written)
      BY DEF LinkInv, ReadInv, WalkInv, RoomInv
    <2>2. PICK N \in Nat : N = Len(starts) /\ N > 0
      <3>1. Len(written) > 0
        <4>1. PICK S : written \in Seq(S)
          BY <2>1 DEF WalkInv
        <4> QED  BY <4>1, EmptySeq, LenProperties
      <3> QED  BY <2>1, <3>1, LenProperties
    <2> DEFINE stop(i) == IF i < N THEN starts[i + 1] ELSE zlbytes - 1
    <2>3. \A i \in 1 .. N : starts[i] \in Nat /\ StartOf(i) = starts[i]
      BY <2>1, <2>2, ElementOfSeq DEF StartOf
    <2>4. ASSUME NEW i \in 1 .. N PROVE stop(i) = StartOf(i + 1)
      <3>1. zlbytes = enc.off
        BY <2>1, ToldAll DEF WalkInv, RoomInv, Encoder, Short
      <3> QED  BY <2>2, <3>1 DEF StartOf, ListEnd
    <2>5. ASSUME NEW i \in 1 .. N PROVE starts[i] <= Beyond
      <3>1. /\ enc.off \in Nat /\ Beyond \in Nat /\ HeaderLen(kind) <= Beyond
            /\ ListEnd = enc.off - 1 /\ enc.off <= Beyond
        BY <2>1 DEF WalkInv, RoomInv, Encoder, Beyond, HeaderLen, ListEnd, Short
      <3>2. /\ StartOf(1) = HeaderLen(kind)
            /\ \A j \in 1 .. N : StartOf(j + 1) <= ListEnd
        BY <2>1, <2>2 DEF ReadInv, Laid
      <3>3. CASE i = 1
        BY <2>3, <3>1, <3>2, <3>3
      <3>4. CASE i # 1
        <4>1. i - 1 \in 1 .. N /\ (i - 1) + 1 = i
          BY <3>4
        <4>2. starts[i] <= ListEnd
          BY <2>3, <3>2, <4>1
        <4> QED  BY <2>3, <3>1, <4>2
      <3> QED  BY <3>3, <3>4
    <2>6. CASE kind = "zip"
      <3>1. zltail = starts[N]
        <4>1. starts # <<>>
          BY <2>2
        <4>2. zltail = Told(starts[N])
          BY <2>1, <2>2, <2>6, <4>1 DEF Chain
        <4> QED  BY <2>2, <2>3, <2>5, <4>2, ToldAll
      <3>2. ASSUME NEW i \in 1 .. N PROVE ZipLink(starts[i]) = SizeBefore(i)
        <4> DEFINE p == SizeBefore(i)
        <4>1. p \in Nat /\ HeldAt(mem, starts[i], encode_prev(zprev_code(p), p))
          BY <2>1, <2>2, <2>6 DEF Chain, Linked
        <4>2. p <= Beyond
          <5>1. CASE i = 1
            BY <5>1 DEF SizeBefore, Beyond
          <5>2. CASE i # 1
            <6>1. i - 1 \in 1 .. N
              BY <5>2
            <6>2. p = starts[i] - starts[i - 1]
              BY <2>3, <5>2, <6>1 DEF SizeBefore
            <6> QED  BY <2>3, <2>5, <6>1, <6>2, Beyond \in Nat DEF Beyond
          <5> QED  BY <5>1, <5>2
        <4> HIDE DEF p
        <4> QED  BY <2>3, <4>1, <4>2, ZipLinkReads DEF p
      <3>3. ZipLink(starts[1]) = 0
        BY <2>2, <3>2 DEF SizeBefore
      <3>4. ASSUME NEW i \in 2 .. N PROVE starts[i] - ZipLink(starts[i]) = starts[i - 1]
        <4>1. i \in 1 .. N /\ i - 1 \in 1 .. N /\ i # 1
          OBVIOUS
        <4>2. SizeBefore(i) = starts[i] - starts[i - 1]
          BY <2>3, <4>1 DEF SizeBefore
        <4> QED  BY <2>3, <3>2, <4>1, <4>2
      <3> QED  BY <2>2, <2>6, <3>1, <3>3, <3>4 DEF LinksBack
    <2>7. CASE kind = "pack"
      <3>1. ASSUME NEW i \in 1 .. N
            PROVE  LET l == LpLink(stop(i) - 1) IN stop(i) - l.size - l.len = starts[i]
        <4> DEFINE a == starts[i]
                   b == stop(i)
        <4>1. PICK x \in Nat : /\ x < FourGroups /\ b = a + x + lpback_size(x)
                               /\ HeldAt(mem, a + x, encode_back(x))
          BY <2>1, <2>2, <2>4, <2>7 DEF Chain, Linked
        <4> DEFINE n == lpback_size(x)
        <4>2. a \in Nat /\ n \in Nat
          BY <2>3, LpBackSize
        <4> HIDE DEF a, b
        <4>3. a + x \in Int
          BY <4>2
        <4>4. LpLink(a + x + n - 1).size = n /\ LpLink(a + x + n - 1).len = x
          BY <4>1, <4>3, LpLinkReads
        <4> HIDE DEF n
        <4>5. b = a + x + n
          BY <4>1 DEF n
        <4> DEFINE z == a + x + n - 1
        <4>6. LpLink(b - 1).size = n /\ LpLink(b - 1).len = x
          <5>1. LpLink(z).size = n /\ LpLink(z).len = x
            BY <4>4
          <5>2. b - 1 = z
            BY <4>2, <4>5
          <5> HIDE DEF z
          <5> QED  BY <5>1, <5>2
        <4>7. b - n - x = a
          BY <4>2, <4>5
        <4>8. b - LpLink(b - 1).size - LpLink(b - 1).len = a
          BY <4>6, <4>7, Zenon
        <4> QED  BY <4>8 DEF a, b
      <3> QED  BY <2>2, <2>7, <3>1 DEF LinksBack
    <2> QED  BY <2>1, <2>6, <2>7 DEF Kinds
  <1>2. LinkInv /\ [Next]_vars => LinkInv'
    BY LinkStep
  <1> QED  BY <1>1, <1>2, LinkInit, PTL DEF Spec

=============================================================================
