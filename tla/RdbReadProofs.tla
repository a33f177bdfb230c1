---------------------------- MODULE RdbReadProofs ----------------------------
(***************************************************************************)
(* What every read of RdbDecode keeps, whatever the cells hold: the cursor *)
(* stays inside the data it points into, nothing is parked but the main    *)
(* buffer, and no block is entered but the last.                           *)
(***************************************************************************)
EXTENDS RdbMain, SequenceTheorems, TLAPS

Bufptr == [buf : Int, avail : Nat, offset : Nat, sav : {Null, Main},
           sav_avail : Nat, sav_offset : Nat, alloced : Nat]

(* The cursor p among the blocks h.  e is where the main buffer ends for   *)
(* the decoder: of a dump the version and the checksum are cut off.        *)
GoodCursor(p, h, e) ==
  /\ p \in Bufptr
  /\ p.alloced = Len(h)
  /\ p.buf \in {Null, Main, Len(h)}
  /\ p.buf = Null => p.avail = 0 /\ p.offset = 0 /\ p.sav = Null
  /\ p.sav = Main <=> p.sav_avail > 0
  /\ p.sav = Null => p.sav_offset = 0
  /\ p.buf = Main => p.sav = Null /\ p.offset + p.avail = e
  /\ p.sav = Main => p.sav_offset + p.sav_avail = e
  /\ p.buf > 0 => p.offset + p.avail = Len(h[p.buf])

GoodHeap(h) == /\ h \in Seq({h[i] : i \in DOMAIN h})
               /\ \A k \in 1 .. Len(h) : BlockOK(h[k])

(* No more than n cells of a block are left to read. *)
Within(p, n) == p.buf = Main \/ p.avail <= n

-----------------------------------------------------------------------------
(* The cursor. *)

(* Moving on inside the data keeps the cursor good.                        *)
LEMMA IncrGood ==
  ASSUME NEW p, NEW h, NEW e \in Nat, NEW k \in Nat,
         GoodCursor(p, h, e), CanIncr(p, k), p.buf # Null
  PROVE  /\ GoodCursor(Incr(p, k), h, e)
         /\ Incr(p, k).buf = p.buf
         /\ Incr(p, k).avail = p.avail - k
         /\ Incr(p, k).offset = p.offset + k
  <1> DEFINE q == Incr(p, k)
  <1>1. p \in Bufptr /\ k <= p.avail
    BY DEF GoodCursor, CanIncr
  <1>2. /\ q.avail = p.avail - k /\ q.offset = p.offset + k
        /\ q.buf = p.buf /\ q.sav = p.sav /\ q.sav_avail = p.sav_avail
        /\ q.sav_offset = p.sav_offset /\ q.alloced = p.alloced
    BY <1>1 DEF Incr, Bufptr
  <1>3. q \in Bufptr
    <2>1. p.avail - k \in Nat /\ p.offset + k \in Nat
      BY <1>1 DEF Bufptr
    <2> QED  BY <1>1, <2>1 DEF Incr, Bufptr
  <1>4. (p.offset + k) + (p.avail - k) = p.offset + p.avail
    BY <1>1 DEF Bufptr
  <1> HIDE DEF q
  <1>5. GoodCursor(q, h, e)
    BY <1>2, <1>3, <1>4 DEF GoodCursor
  <1> QED  BY <1>2, <1>5 DEF q

(* The end of a block brings the main buffer back, if any of it is left.   *)
LEMMA LookGood ==
  ASSUME NEW p, NEW h, NEW e \in Nat, GoodCursor(p, h, e), p.buf # Null
  PROVE  /\ GoodCursor(Look(p), h, e)
         /\ Look(p) = p \/ Look(p).buf = Main
         /\ Look(p).buf # Null
  <1>1. CASE p.avail = 0 /\ p.sav_avail > 0
    <2> DEFINE q == Popped(p)
    <2>1. p \in Bufptr /\ p.sav = Main /\ p.sav_offset + p.sav_avail = e
      BY <1>1 DEF GoodCursor
    <2>2. /\ q \in Bufptr
          /\ q.buf = Main /\ q.avail = p.sav_avail /\ q.offset = p.sav_offset
          /\ q.sav = Null /\ q.sav_avail = 0 /\ q.sav_offset = 0
          /\ q.alloced = p.alloced
      BY <2>1 DEF Popped, Bufptr, Null, Main
    <2> HIDE DEF q
    <2>3. GoodCursor(q, h, e)
      BY <2>1, <2>2 DEF GoodCursor, Null, Main
    <2>4. Look(p) = q
      BY <1>1 DEF Look, q
    <2> QED  BY <2>2, <2>3, <2>4 DEF Null, Main
  <1>2. CASE ~ (p.avail = 0 /\ p.sav_avail > 0)
    BY <1>2 DEF Look
  <1> QED  BY <1>1, <1>2

(* A string that was expanded is the last block, and the cursor is at its  *)
(* beginning, with the main buffer parked behind it.                       *)
LEMMA DecompressGood ==
  ASSUME NEW p, NEW h, NEW e \in Nat, NEW z \in Nat, NEW n \in Nat, NEW g,
         GoodCursor(p, h, e), CanIncr(p, z), p.buf = Main,
         Len(h) \in Nat, Len(g) = Len(h) + 1, Len(g[Len(g)]) = n
  PROVE  /\ GoodCursor(Decompress(p, z, n), g, e)
         /\ Decompress(p, z, n).buf = Len(g)
         /\ Decompress(p, z, n).avail = n
         /\ Decompress(p, z, n).offset = 0
  <1> DEFINE i == Incr(p, z)
             q == Parked(i)
             d == Decompress(p, z, n)
  <1>1. GoodCursor(i, h, e) /\ i.buf = Main
    BY IncrGood DEF Null, Main
  <1>2. i \in Bufptr /\ i.sav = Null /\ i.sav_avail = 0 /\ i.sav_offset = 0
        /\ i.offset + i.avail = e /\ i.alloced = Len(h)
    BY <1>1 DEF GoodCursor, Bufptr, Null, Main
  <1> HIDE DEF i
  <1>3. /\ q \in Bufptr /\ q.alloced = Len(h)
        /\ q.sav = Main <=> q.sav_avail > 0
        /\ q.sav = Null => q.sav_offset = 0
        /\ q.sav = Main => q.sav_offset + q.sav_avail = e
    <2>1. CASE i.avail > 0
      <3>1. q = [i EXCEPT !.sav = i.buf, !.sav_avail = i.avail,
                          !.sav_offset = i.offset]
        BY <2>1 DEF Parked
      <3>2. /\ q \in Bufptr /\ q.alloced = i.alloced
            /\ q.sav = Main /\ q.sav_avail = i.avail /\ q.sav_offset = i.offset
        BY <1>1, <1>2, <3>1 DEF Bufptr
      <3> HIDE DEF q
      <3> QED  BY <1>2, <2>1, <3>2 DEF Null, Main
    <2>2. CASE ~ (i.avail > 0)
      BY <1>1, <1>2, <2>2 DEF Parked, Bufptr, Null, Main
    <2> QED  BY <2>1, <2>2
  <1> HIDE DEF q
  <1>4. d = [buf |-> q.alloced + 1, avail |-> n, offset |-> 0,
             sav |-> q.sav, sav_avail |-> q.sav_avail, sav_offset |-> q.sav_offset,
             alloced |-> q.alloced + 1]
    BY DEF Decompress, i, q
  <1>5. /\ d \in Bufptr /\ d.buf = Len(g) /\ d.avail = n /\ d.offset = 0
        /\ d.sav = q.sav /\ d.sav_avail = q.sav_avail
        /\ d.sav_offset = q.sav_offset /\ d.alloced = Len(g)
    BY <1>3, <1>4 DEF Bufptr
  <1> HIDE DEF d
  <1>6. GoodCursor(d, g, e)
    BY <1>3, <1>5 DEF GoodCursor, Null, Main
  <1> QED  BY <1>5, <1>6 DEF d

(* The blocks of a key whose data was consumed are freed. *)
LEMMA FreeGood ==
  ASSUME NEW p, NEW h, NEW e \in Nat, GoodCursor(p, h, e), Within(p, 0),
         Len(h) \in Nat
  PROVE  /\ GoodCursor(FreeAlloced(p), <<>>, e)
         /\ FreeAlloced(p).buf \in {Null, Main}
  <1> DEFINE f == Freed(p)
  <1>1. p \in Bufptr
    BY DEF GoodCursor
  <1>2. CASE p.alloced = 0
    <2>1. FreeAlloced(p) = p
      BY <1>2 DEF FreeAlloced
    <2> QED  BY <1>2, <2>1 DEF GoodCursor, Null, Main
  <1>3. CASE p.alloced # 0
    <2>1. /\ f \in Bufptr /\ f.alloced = 0 /\ f.buf = p.buf /\ f.avail = p.avail
          /\ f.offset = p.offset /\ f.sav = p.sav /\ f.sav_avail = p.sav_avail
          /\ f.sav_offset = p.sav_offset
      BY <1>1 DEF Freed, Bufptr
    <2> HIDE DEF f
    <2>2. CASE p.avail = 0
      <3> DEFINE q == Popped(f)
      <3>1. FreeAlloced(p) = q
        BY <1>3, <2>2 DEF FreeAlloced, f
      <3>2. /\ q \in Bufptr /\ q.buf = p.sav /\ q.avail = p.sav_avail
            /\ q.offset = p.sav_offset /\ q.sav = Null /\ q.sav_avail = 0
            /\ q.sav_offset = 0 /\ q.alloced = 0
        BY <1>1, <2>1 DEF Popped, Bufptr, Null, Main
      <3> HIDE DEF q
      <3>3. GoodCursor(q, <<>>, e)
        BY <1>1, <3>2 DEF GoodCursor, Bufptr, Null, Main
      <3> QED  BY <1>1, <3>1, <3>2, <3>3 DEF Bufptr
    <2>3. CASE p.avail # 0
      <3>1. FreeAlloced(p) = f
        BY <1>3, <2>3 DEF FreeAlloced, f
      <3>2. p.buf = Main
        BY <1>1, <2>3 DEF Within, Bufptr
      <3>3. GoodCursor(f, <<>>, e)
        BY <2>1, <3>2 DEF GoodCursor, Null, Main
      <3> QED  BY <2>1, <3>1, <3>2, <3>3
    <2> QED  BY <2>2, <2>3
  <1> QED  BY <1>2, <1>3

-----------------------------------------------------------------------------
(* The blocks. *)

(* A sequence is one over the set of its elements.                         *)
LEMMA SeqOfItsOwn ==
  ASSUME NEW S, NEW s \in Seq(S)
  PROVE  s \in Seq({s[i] : i \in DOMAIN s})
  <1>1. s \in [1 .. Len(s) -> {s[i] : i \in DOMAIN s}] /\ Len(s) \in Nat
    OBVIOUS
  <1> QED  BY <1>1

(* A block in good order may become the last one.                          *)
LEMMA HeapGrows ==
  ASSUME NEW h, NEW b, GoodHeap(h), BlockOK(b)
  PROVE  /\ GoodHeap(Append(h, b))
         /\ Len(h) \in Nat /\ Len(Append(h, b)) = Len(h) + 1
         /\ Append(h, b)[Len(h) + 1] = b
  <1> DEFINE S == {h[i] : i \in DOMAIN h} \cup {b}
             g == Append(h, b)
  <1>1. h \in Seq(S)
    BY DEF GoodHeap
  <1>2. /\ g \in Seq(S) /\ Len(g) = Len(h) + 1 /\ Len(h) \in Nat
        /\ \A k \in 1 .. Len(h) : g[k] = h[k]
        /\ g[Len(h) + 1] = b
    BY <1>1, b \in S
  <1>3. g \in Seq({g[i] : i \in DOMAIN g})
    BY <1>2, SeqOfItsOwn
  <1>4. ASSUME NEW k \in 1 .. Len(g) PROVE BlockOK(g[k])
    BY <1>2, <1>4 DEF GoodHeap
  <1> QED  BY <1>2, <1>3, <1>4 DEF GoodHeap

(* No blocks are in good order.                                            *)
LEMMA NoBlocks == GoodHeap(<<>>)
  BY DEF GoodHeap

-----------------------------------------------------------------------------
(* A read that began with m blocks at least; of a block the cursor is in,  *)
(* n cells are left at most.                                               *)
Codes == {"ok", "eof", "trunc", "version", "crc", "type", "hdr", "lzf", "notsup"}

Core(r, e, m) ==
  /\ DOMAIN r = {"p", "heap", "len", "vals", "rc"}
  /\ r.rc \in Codes
  /\ GoodCursor(r.p, r.heap, e) /\ GoodHeap(r.heap)
  /\ r.p.buf # Null
  /\ m <= Len(r.heap)

Ready(r, e, n, m) == Core(r, e, m) /\ Within(r.p, n)

Less(n) == IF n = 0 THEN 0 ELSE n - 1

(* A length header: the length it stands for is a number. *)
IsSize(c) == c[1] \in {"len", "int", "lzf"} /\ LenOf(c) \in Nat

(* The last header read: if it is that of a compressed string, then it is  *)
(* in the main buffer, right behind the cursor.                            *)
HeaderRead(r) ==
  /\ IsSize(r.len)
  /\ r.len[1] = "lzf" => /\ r.p.buf = Main
                         /\ r.len[2] \in Nat \ {0}
                         /\ r.p.offset \in 1 .. Len(win)
                         /\ r.len = win[r.p.offset]

(* The cell at the cursor is one of the data that the cursor is in. *)
LEMMA HereOK ==
  ASSUME NEW r, NEW e \in 0 .. Len(win), NEW m \in Nat, WellFormed(win),
         Core(r, e, m), r.p.avail # 0
  PROVE  /\ CellOK(Here(r))
         /\ r.p.buf # Main => Here(r)[1] # "lzf"
         /\ r.p.buf = Main => /\ r.p.offset + 1 \in 1 .. Len(win)
                              /\ Here(r) = win[r.p.offset + 1]
  <1>1. /\ r.p \in Bufptr /\ GoodCursor(r.p, r.heap, e) /\ GoodHeap(r.heap)
        /\ r.p.buf # Null
    BY DEF Core, GoodCursor
  <1>2. Len(win) \in Nat
    BY DEF WellFormed, Cells
  <1>3. CASE r.p.buf = Main
    <2>1. r.p.offset + 1 \in 1 .. Len(win)
      BY <1>1, <1>2, <1>3 DEF GoodCursor, Bufptr
    <2>2. Here(r) = win[r.p.offset + 1]
      BY <1>3 DEF Here, Bytes
    <2> QED  BY <1>3, <2>1, <2>2 DEF WellFormed, Cells
  <1>4. CASE r.p.buf # Main
    <2> DEFINE b == r.heap[r.p.buf]
    <2>1. Len(r.heap) \in Nat
      BY <1>1 DEF GoodHeap
    <2>2. r.p.buf = Len(r.heap) /\ r.p.buf > 0
      BY <1>1, <1>4, <2>1 DEF GoodCursor, Null, Main
    <2>3. BlockOK(b)
      BY <1>1, <2>1, <2>2 DEF GoodHeap
    <2>4. r.p.offset + r.p.avail = Len(b)
      BY <1>1, <2>2 DEF GoodCursor
    <2>5. r.p.offset + 1 \in 1 .. Len(b)
      BY <1>1, <2>4 DEF Bufptr
    <2>6. Here(r) = b[r.p.offset + 1]
      BY <1>4 DEF Here, Bytes
    <2> QED  BY <1>4, <2>3, <2>5, <2>6 DEF BlockOK, Cells
  <1> QED  BY <1>3, <1>4

(* An error leaves the read where it is. *)
LEMMA FailedKeeps ==
  ASSUME NEW r, NEW e, NEW m, Core(r, e, m), NEW c \in Codes
  PROVE  /\ Core(Failed(r, c), e, m)
         /\ Failed(r, c).p = r.p /\ Failed(r, c).heap = r.heap
         /\ Failed(r, c).len = r.len /\ Failed(r, c).vals = r.vals
         /\ Failed(r, c).rc = c
  <1> DEFINE s == Failed(r, c)
  <1>1. /\ DOMAIN s = DOMAIN r /\ s.p = r.p /\ s.heap = r.heap
        /\ s.len = r.len /\ s.vals = r.vals /\ s.rc = c
    BY DEF Failed, Core
  <1> HIDE DEF s
  <1> QED  BY <1>1 DEF Core, s

(* The steps the reads are made of: past k cells, past one, and a value.   *)
LEMMA SkipKeeps ==
  ASSUME NEW r, NEW e \in Nat, NEW m, Core(r, e, m), NEW k \in Nat, CanIncr(r.p, k)
  PROVE  /\ Core(Skip(r, k), e, m)
         /\ Skip(r, k).p.buf = r.p.buf /\ Skip(r, k).p.avail = r.p.avail - k
         /\ Skip(r, k).p.offset = r.p.offset + k
         /\ Skip(r, k).heap = r.heap
         /\ Skip(r, k).len = r.len /\ Skip(r, k).vals = r.vals
         /\ Skip(r, k).rc = r.rc
  <1> DEFINE s == Skip(r, k)
  <1>1. /\ DOMAIN s = DOMAIN r /\ s.p = Incr(r.p, k) /\ s.heap = r.heap
        /\ s.len = r.len /\ s.vals = r.vals /\ s.rc = r.rc
    BY DEF Skip, Core
  <1> HIDE DEF s
  <1>2. GoodCursor(r.p, r.heap, e) /\ r.p.buf # Null
    BY DEF Core
  <1>3. /\ GoodCursor(s.p, s.heap, e) /\ s.p.buf = r.p.buf
        /\ s.p.avail = r.p.avail - k /\ s.p.offset = r.p.offset + k
    BY <1>1, <1>2, IncrGood
  <1> QED  BY <1>1, <1>2, <1>3 DEF Core, s

(* Past the cell at the cursor.                                            *)
LEMMA StepKeeps ==
  ASSUME NEW r, NEW e \in Nat, NEW m, Core(r, e, m), CanIncr(r.p, 1)
  PROVE  /\ Core(Skip(r, 1), e, m)
         /\ Skip(r, 1).p.buf = r.p.buf /\ Skip(r, 1).p.avail = r.p.avail - 1
         /\ Skip(r, 1).p.offset = r.p.offset + 1
         /\ Skip(r, 1).heap = r.heap
         /\ Skip(r, 1).len = r.len /\ Skip(r, 1).vals = r.vals
         /\ Skip(r, 1).rc = r.rc
  <1> DEFINE k == 1
  <1>1. k \in Nat /\ CanIncr(r.p, k)
    OBVIOUS
  <1> HIDE DEF k
  <1>2. /\ Core(Skip(r, k), e, m)
        /\ Skip(r, k).p.buf = r.p.buf /\ Skip(r, k).p.avail = r.p.avail - k
        /\ Skip(r, k).p.offset = r.p.offset + k
        /\ Skip(r, k).heap = r.heap
        /\ Skip(r, k).len = r.len /\ Skip(r, k).vals = r.vals
        /\ Skip(r, k).rc = r.rc
    BY <1>1, SkipKeeps
  <1> QED  BY <1>2 DEF k

(* A value read moves nothing.                                             *)
LEMMA ValueKeeps ==
  ASSUME NEW r, NEW e, NEW m, Core(r, e, m), NEW v
  PROVE  /\ Core(Value(r, v), e, m)
         /\ Value(r, v).p = r.p /\ Value(r, v).heap = r.heap
         /\ Value(r, v).len = r.len /\ Value(r, v).vals = Append(r.vals, v)
         /\ Value(r, v).rc = r.rc
  <1> DEFINE s == Value(r, v)
  <1>1. /\ DOMAIN s = DOMAIN r /\ s.p = r.p /\ s.heap = r.heap
        /\ s.len = r.len /\ s.vals = Append(r.vals, v) /\ s.rc = r.rc
    BY DEF Value, Core
  <1> HIDE DEF s
  <1> QED  BY <1>1 DEF Core, s

-----------------------------------------------------------------------------
(* What Then() chains, spelled out. *)
AfterLook(r) == [r EXCEPT !.p = Look(@)]

(* What of a read each operator changes, and what it leaves alone.         *)
LEMMA LookedIs ==
  ASSUME NEW r
  PROVE  Looked(r) = IF AfterLook(r).rc = "ok" THEN Header(AfterLook(r))
                     ELSE AfterLook(r)
  <1> DEFINE a == AfterLook(r)
  <1>1. Looked(r) = Then(a, Header)
    BY DEF Looked, AfterLook
  <1> HIDE DEF a
  <1>2. Then(a, Header) = IF a.rc = "ok" THEN Header(a) ELSE a
    BY SMT DEF Then
  <1> QED  BY <1>1, <1>2 DEF a

LEMMA LengthIs ==
  ASSUME NEW r
  PROVE  Length(r) = IF r.rc = "ok" THEN Looked(r) ELSE r
  BY SMT DEF Length, Then

LEMMA UnzipIs ==
  ASSUME NEW r PROVE Unzip(r) = IF r.rc = "ok" THEN Expand(r) ELSE r
  BY SMT DEF Unzip, Then

LEMMA FieldIs ==
  ASSUME NEW r PROVE Field(r) = IF r.rc = "ok" THEN Fixed(r) ELSE r
  BY SMT DEF Field, Then

LEMMA decode_strIs ==
  ASSUME NEW r
  PROVE  decode_str(r) = IF r.rc = "ok" THEN IF IsInt(r) THEN Integer(r) ELSE Data(r)
                         ELSE r
  BY SMT DEF decode_str, Then

LEMMA consumeIs ==
  ASSUME NEW r
  PROVE  consume(r) = IF r.rc = "ok"
                      THEN IF IsInt(r) THEN Failed(r, "hdr")
                           ELSE IF Expand(r).rc = "ok" THEN Data(Expand(r)) ELSE Expand(r)
                      ELSE r
  BY SMT DEF consume, Then

LEMMA TextIs ==
  ASSUME NEW r
  PROVE  Text(r) = IF r.rc = "ok" THEN IF IsInt(r) THEN Integer(r) ELSE consume(r)
                   ELSE r
  BY SMT DEF Text, Then

LEMMA NumberIs ==
  ASSUME NEW r
  PROVE  Number(r) = IF Length(r).rc = "ok"
                     THEN IF Length(r).len[1] = "len" THEN Value(Length(r), Length(r).len[2])
                          ELSE Failed(Length(r), "hdr")
                     ELSE Length(r)
  BY SMT DEF Number, Then

LEMMA CountIs ==
  ASSUME NEW r
  PROVE  Count(r) = IF Length(r).rc = "ok" THEN Value(Length(r), LenOf(Length(r).len))
                    ELSE Length(r)
  BY SMT DEF Count, Then

LEMMA ScoreIs ==
  ASSUME NEW r
  PROVE  Score(r) = IF r.rc = "ok" THEN IF dec.type = "zset_2" THEN Fixed(r) ELSE Digits(r)
                    ELSE r
  BY SMT DEF Score, Then

LEMMA IntsIs ==
  ASSUME NEW r
  PROVE  Ints(r) = IF r.rc = "ok"
                   THEN IF r.vals[1][1] = "ints" THEN Take(r, r.vals[1][2])
                        ELSE Failed(r, "notsup")
                   ELSE r
  BY SMT DEF Ints, Then

-----------------------------------------------------------------------------
(* Bytes and fields. *)

(* k cells taken: of a block no more is left than before, and nothing if   *)
(* it is k long.                                                           *)
LEMMA TakeKeeps ==
  ASSUME NEW r, NEW e \in Nat, NEW n \in Nat, NEW m, NEW k \in Nat,
         Core(r, e, m), Within(r.p, n) \/ r.p.avail = k
  PROVE  /\ Ready(Take(r, k), e, n, m)
         /\ r.p.buf = Main => Take(r, k).p.buf = Main
         /\ Take(r, k).rc = "ok" /\ r.p.avail = k => Take(r, k).p.avail = 0
         /\ Take(r, k).rc = "ok" =>
              /\ r.rc = "ok"
              /\ \E x : x \in Seq({x[i] : i \in DOMAIN x}) /\ Len(x) = k
                        /\ Take(r, k).vals = Append(r.vals, <<"str", x>>)
         /\ Take(r, k).len = r.len
  <1>0. GoodCursor(r.p, r.heap, e) /\ r.p \in Bufptr
    BY DEF Core, GoodCursor
  <1>1. CASE CanIncr(r.p, k)
    <2> DEFINE x == Ahead(r, k)
               v == Value(r, <<"str", x>>)
               s == Skip(v, k)
    <2>1. Take(r, k) = s
      BY <1>1 DEF Take
    <2>2. /\ Core(v, e, m) /\ v.p = r.p /\ v.len = r.len
          /\ v.vals = Append(r.vals, <<"str", x>>) /\ v.rc = r.rc
      BY ValueKeeps
    <2>3. x \in Seq({x[i] : i \in DOMAIN x}) /\ Len(x) = k
      <3> DEFINE o == r.p.offset
                 w == Bytes(r)
      <3>1. o \in Nat
        BY <1>0 DEF Bufptr
      <3>2. x = SubSeq(w, o + 1, o + k)
        BY DEF Ahead
      <3> HIDE DEF o, w, x
      <3> DEFINE S == {w[i] : i \in o + 1 .. o + k}
      <3>3. /\ o + 1 \in Int /\ o + k \in Int
            /\ \A i \in o + 1 .. o + k : w[i] \in S
            /\ (IF o + 1 <= o + k THEN (o + k) - (o + 1) + 1 ELSE 0) = k
        BY <3>1
      <3> HIDE DEF S
      <3>4. x \in Seq(S) /\ Len(x) = k
        BY <3>2, <3>3, SubSeqProperties
      <3> QED  BY <3>4, SeqOfItsOwn
    <2> HIDE DEF x
    <2>4. CanIncr(v.p, k)
      BY <1>1, <2>2
    <2> HIDE DEF v
    <2>5. /\ Core(s, e, m) /\ s.p.buf = v.p.buf /\ s.p.avail = v.p.avail - k
          /\ s.len = v.len /\ s.vals = v.vals /\ s.rc = v.rc
      <3>1. Core(v, e, m)
        BY <2>2
      <3> QED  BY <3>1, <2>4, SkipKeeps
    <2> HIDE DEF s
    <2>6. Within(s.p, n)
      BY <1>0, <2>2, <2>5 DEF Within, Bufptr
    <2>7. r.p.avail = k => s.p.avail = 0
      BY <1>0, <2>2, <2>5 DEF Bufptr
    <2> QED  BY <2>1, <2>2, <2>3, <2>5, <2>6, <2>7 DEF Ready
  <1>2. CASE ~ CanIncr(r.p, k)
    <2>1. Take(r, k) = Failed(r, "trunc")
      BY <1>2 DEF Take
    <2>2. r.p.avail # k
      BY <1>0, <1>2 DEF CanIncr, Bufptr
    <2>3. "trunc" \in Codes /\ "trunc" # "ok"
      BY DEF Codes
    <2> QED  BY <2>1, <2>2, <2>3, FailedKeeps DEF Ready
  <1> QED  BY <1>1, <1>2

(* What it takes of a cursor that holds just that many bytes, it empties.  *)
LEMMA TakeEmpties ==
  ASSUME NEW r, NEW e \in Nat, NEW n \in Nat, NEW m, NEW k \in Nat,
         Core(r, e, m), Within(r.p, n) \/ r.p.avail = k
  PROVE  Take(r, k).rc = "ok" /\ r.p.avail = k => Take(r, k).p.avail = 0
  BY TakeKeeps, Zenon

(* The read s has one string more than r has. *)
OneMore(r, s) == \E x : /\ x \in Seq({x[i] : i \in DOMAIN x})
                        /\ s.vals = Append(r.vals, <<"str", x>>)

(* What it takes is one more string.                                       *)
LEMMA TakeAdds ==
  ASSUME NEW r, NEW e \in Nat, NEW n \in Nat, NEW m, NEW k \in Nat,
         Core(r, e, m), Within(r.p, n) \/ r.p.avail = k
  PROVE  Take(r, k).rc = "ok" => r.rc = "ok" /\ OneMore(r, Take(r, k))
  <1>1. Take(r, k).rc = "ok" =>
           /\ r.rc = "ok"
           /\ \E x : x \in Seq({x[i] : i \in DOMAIN x}) /\ Len(x) = k
                     /\ Take(r, k).vals = Append(r.vals, <<"str", x>>)
    BY TakeKeeps, Zenon
  <1> QED  BY <1>1, Zenon DEF OneMore

(* It leaves a cursor of the buffer in the buffer.                         *)
LEMMA TakeStays ==
  ASSUME NEW r, NEW e \in Nat, NEW n \in Nat, NEW m, NEW k \in Nat,
         Core(r, e, m), Within(r.p, n) \/ r.p.avail = k
  PROVE  /\ Ready(Take(r, k), e, n, m)
         /\ r.p.buf = Main => Take(r, k).p.buf = Main
  BY TakeKeeps, Zenon

(* A field of fixed size is one cell.                                      *)
LEMMA FixedKeeps ==
  ASSUME NEW r, NEW e \in 0 .. Len(win), NEW n \in Nat, NEW m \in Nat,
         WellFormed(win), Ready(r, e, n, m), r.rc = "ok"
  PROVE  /\ Ready(Fixed(r), e, n, m)
         /\ Fixed(r).rc = "ok" => /\ r.p.avail # 0
                                  /\ CellOK(Here(r))
                                  /\ Fixed(r).p.buf = r.p.buf
                                  /\ Fixed(r).p.avail = r.p.avail - 1
                                  /\ Fixed(r).vals = Append(r.vals, Here(r))
         /\ Fixed(r).heap = r.heap
         /\ Fixed(r).rc # "ok" => Fixed(r).p = r.p
  <1>0. /\ GoodCursor(r.p, r.heap, e) /\ r.p \in Bufptr /\ Core(r, e, m)
        /\ Within(r.p, n)
    BY DEF Core, GoodCursor, Ready
  <1>e. e \in Nat
    BY DEF WellFormed, Cells
  <1>1. CASE CanIncr(r.p, 1)
    <2> DEFINE v == Value(r, Here(r))
               s == Skip(v, 1)
    <2>1. Fixed(r) = s
      BY <1>1 DEF Fixed
    <2>2. /\ Core(v, e, m) /\ v.p = r.p /\ v.heap = r.heap
          /\ v.vals = Append(r.vals, Here(r)) /\ v.rc = r.rc
      BY <1>0, ValueKeeps
    <2>3. r.p.avail # 0
      BY <1>0, <1>1 DEF CanIncr, Bufptr
    <2>4. CellOK(Here(r))
      BY <1>0, <2>3, HereOK
    <2>5. CanIncr(v.p, 1)
      BY <1>1, <2>2
    <2> HIDE DEF v
    <2>6. /\ Core(s, e, m) /\ s.p.buf = v.p.buf /\ s.p.avail = v.p.avail - 1
          /\ s.heap = v.heap /\ s.vals = v.vals /\ s.rc = v.rc
      <3>1. Core(v, e, m)
        BY <2>2
      <3> QED  BY <3>1, <1>e, <2>5, StepKeeps
    <2> HIDE DEF s
    <2>7. Within(s.p, n)
      BY <1>0, <2>2, <2>6 DEF Within, Bufptr
    <2>8. Ready(s, e, n, m)
      BY <2>6, <2>7 DEF Ready
    <2> QED  BY <2>1, <2>2, <2>3, <2>4, <2>6, <2>8
  <1>2. CASE ~ CanIncr(r.p, 1)
    <2>1. Fixed(r) = Failed(r, "trunc")
      BY <1>2 DEF Fixed
    <2>2. "trunc" \in Codes /\ "trunc" # "ok"
      BY DEF Codes
    <2> QED  BY <1>0, <2>1, <2>2, FailedKeeps DEF Ready
  <1> QED  BY <1>1, <1>2

-----------------------------------------------------------------------------
(* Headers and what they announce. *)

(* A header takes a cell of the block that is entered, if there is one.    *)
LEMMA HeaderKeeps ==
  ASSUME NEW r, NEW e \in 0 .. Len(win), NEW n \in Nat, NEW m \in Nat,
         WellFormed(win), Ready(r, e, n, m), r.rc = "ok"
  PROVE  /\ Ready(Header(r), e, n, m)
         /\ Header(r).vals = r.vals
         /\ Header(r).rc = "ok" => /\ HeaderRead(Header(r))
                                   /\ Within(Header(r).p, Less(n))
  <1> DEFINE s == Header(r)
             c == Here(r)
  <1>0. /\ GoodCursor(r.p, r.heap, e) /\ r.p \in Bufptr /\ Core(r, e, m)
        /\ Within(r.p, n)
    BY DEF Core, GoodCursor, Ready
  <1>e. e \in Nat
    BY DEF WellFormed, Cells
  <1>1. CASE CanIncr(r.p, 1) /\ c[1] \in {"len", "int", "lzf"}
    <2> DEFINE k == Skip(r, 1)
    <2>1. s = [k EXCEPT !.len = c]
      BY <1>1 DEF Header
    <2>2. /\ Core(k, e, m) /\ k.p.buf = r.p.buf /\ k.p.avail = r.p.avail - 1
          /\ k.p.offset = r.p.offset + 1
          /\ k.heap = r.heap /\ k.vals = r.vals /\ k.rc = r.rc
      BY <1>0, <1>1, <1>e, StepKeeps
    <2>3. r.p.avail # 0
      BY <1>0, <1>1 DEF CanIncr, Bufptr
    <2>4. /\ CellOK(c)
          /\ r.p.buf # Main => c[1] # "lzf"
          /\ r.p.buf = Main => /\ r.p.offset + 1 \in 1 .. Len(win)
                               /\ c = win[r.p.offset + 1]
      BY <1>0, <2>3, HereOK
    <2> HIDE DEF k, s, c
    <2>5. /\ DOMAIN s = DOMAIN k /\ s.p = k.p /\ s.heap = k.heap
          /\ s.vals = k.vals /\ s.rc = k.rc /\ s.len = c
      BY <2>1, <2>2 DEF Core
    <2>6. Core(s, e, m)
      BY <2>2, <2>5 DEF Core
    <2>7. Within(s.p, Less(n)) /\ Within(s.p, n)
      <3> DEFINE a == r.p.avail
      <3>1. a \in Nat /\ a # 0 /\ s.p.avail = a - 1 /\ s.p.buf = r.p.buf
        BY <1>0, <2>2, <2>3, <2>5 DEF Bufptr
      <3>2. r.p.buf = Main \/ a <= n
        BY <1>0 DEF Within
      <3> HIDE DEF a
      <3>3. a <= n => a - 1 <= n - 1 /\ a - 1 <= n /\ n # 0
        BY <3>1
      <3> QED  BY <3>1, <3>2, <3>3 DEF Within, Less
    <2>8. IsSize(c)
      BY <1>1, <2>4 DEF IsSize, LenOf, CellOK
    <2>9. HeaderRead(s)
      <3>1. s.len[1] = "lzf" => c[2] \in Nat \ {0}
        BY <2>4, <2>5 DEF CellOK
      <3> QED  BY <2>2, <2>4, <2>5, <2>8, <3>1 DEF HeaderRead
    <2> QED  BY <2>2, <2>5, <2>6, <2>7, <2>9 DEF Ready, s
  <1>2. CASE ~ (CanIncr(r.p, 1) /\ c[1] \in {"len", "int", "lzf"})
    <2>1. s = Failed(r, "trunc") \/ s = Failed(r, "hdr")
      BY <1>2 DEF Header
    <2>2. "trunc" \in Codes /\ "trunc" # "ok" /\ "hdr" \in Codes /\ "hdr" # "ok"
      BY DEF Codes
    <2> HIDE DEF s
    <2>3. Core(s, e, m) /\ s.p = r.p /\ s.vals = r.vals /\ s.rc # "ok"
      BY <1>0, <2>1, <2>2, FailedKeeps
    <2> QED  BY <1>0, <2>3 DEF Ready, s
  <1> QED  BY <1>1, <1>2

(* The same of a header that is chained to what was read before it.        *)
LEMMA LengthKeeps ==
  ASSUME NEW r, NEW e \in 0 .. Len(win), NEW n \in Nat, NEW m \in Nat,
         WellFormed(win), Ready(r, e, n, m)
  PROVE  /\ Ready(Length(r), e, n, m)
         /\ Length(r).vals = r.vals
         /\ Length(r).rc = "ok" => /\ r.rc = "ok"
                                   /\ HeaderRead(Length(r))
                                   /\ Within(Length(r).p, Less(n))
  <1>1. CASE r.rc = "ok"
    <2> DEFINE a == AfterLook(r)
    <2>0. e \in Nat /\ Core(r, e, m) /\ Within(r.p, n) /\ GoodCursor(r.p, r.heap, e)
          /\ r.p.buf # Null
      BY DEF WellFormed, Cells, Ready, Core
    <2>1. /\ DOMAIN a = DOMAIN r /\ a.p = Look(r.p) /\ a.heap = r.heap
          /\ a.len = r.len /\ a.vals = r.vals /\ a.rc = r.rc
      BY <2>0 DEF AfterLook, Core
    <2> HIDE DEF a
    <2>2. /\ GoodCursor(a.p, a.heap, e) /\ a.p.buf # Null
          /\ a.p = r.p \/ a.p.buf = Main
      BY <2>0, <2>1, LookGood
    <2>3. Ready(a, e, n, m)
      BY <2>0, <2>1, <2>2 DEF Ready, Core, Within
    <2>4. Length(r) = Header(a)
      BY <1>1, <2>1, LengthIs, LookedIs DEF a
    <2> QED  BY <1>1, <2>1, <2>3, <2>4, HeaderKeeps
  <1>2. CASE r.rc # "ok"
    BY <1>2, LengthIs
  <1> QED  BY <1>1, <1>2

(* A compressed string becomes the last block; anything else stays put. *)
LEMMA ExpandKeeps ==
  ASSUME NEW r, NEW e \in 0 .. Len(win), NEW n \in Nat, NEW m \in Nat,
         WellFormed(win), Ready(r, e, n, m), HeaderRead(r), r.rc = "ok"
  PROVE  /\ Core(Expand(r), e, m)
         /\ Expand(r).len = r.len /\ Expand(r).vals = r.vals
         /\ \/ Within(Expand(r).p, n)
            \/ /\ Expand(r).rc = "ok" /\ r.len[1] = "lzf"
               /\ Expand(r).p.avail = LenOf(r.len) /\ Expand(r).p.offset = 0
         /\ Expand(r).rc = "ok" /\ r.len[1] = "lzf" =>
              Expand(r).p.avail = LenOf(r.len)
  <1> DEFINE s == Expand(r)
  <1>0. /\ GoodCursor(r.p, r.heap, e) /\ r.p \in Bufptr /\ Core(r, e, m)
        /\ Within(r.p, n) /\ e \in Nat /\ Len(win) \in Nat
    BY DEF Core, GoodCursor, Ready, WellFormed, Cells
  <1>1. CASE r.len[1] # "lzf"
    <2>1. s = r
      BY <1>1 DEF Expand
    <2> QED  BY <1>0, <1>1, <2>1
  <1>2. CASE r.len[1] = "lzf" /\ CanIncr(r.p, r.len[2]) /\ Here(r)[1] = "zip"
    <2> DEFINE z == r.len[2]
               l == r.len[3]
               b == Here(r)[2]
               g == Append(r.heap, b)
               o == r.p.offset
    <2>1. /\ z \in Nat /\ z # 0 /\ r.p.buf = Main
          /\ o \in 1 .. Len(win) /\ r.len = win[o]
      BY <1>2 DEF HeaderRead
    <2>2. r.p.avail # 0
      <3> HIDE DEF z
      <3> QED  BY <1>0, <1>2, <2>1 DEF CanIncr, Bufptr, z
    <2>3. o + 1 \in 1 .. Len(win) /\ Here(r) = win[o + 1]
      BY <1>0, <2>1, <2>2, HereOK
    <2>4. BlockOK(b) /\ Len(b) = l /\ l \in Nat
      <3>1. o \in 1 .. Len(win) - 1
        BY <1>0, <2>1, <2>3
      <3>2. win[o][1] = "lzf"
        BY <1>2, <2>1
      <3>3. BlockOK(win[o + 1][2]) /\ Len(win[o + 1][2]) = win[o][3]
        BY <1>2, <2>3, <3>1, <3>2 DEF WellFormed
      <3>4. CellOK(win[o])
        BY <2>1 DEF WellFormed, Cells
      <3>5. win[o][3] \in Nat
        BY <3>2, <3>4 DEF CellOK
      <3> HIDE DEF o
      <3> QED  BY <2>1, <2>3, <3>3, <3>5
    <2>5. LenOf(r.len) = l
      BY <1>2 DEF LenOf
    <2>6. s = [r EXCEPT !.p = Decompress(@, z, l), !.heap = Append(@, b)]
      BY <1>2 DEF Expand
    <2> HIDE DEF z, l, b, s, o
    <2>7. /\ DOMAIN s = DOMAIN r /\ s.p = Decompress(r.p, z, l) /\ s.heap = g
          /\ s.len = r.len /\ s.vals = r.vals /\ s.rc = r.rc
      BY <1>0, <2>6 DEF Core
    <2>8. /\ GoodHeap(g) /\ Len(r.heap) \in Nat /\ Len(g) = Len(r.heap) + 1
          /\ g[Len(g)] = b
      BY <1>0, <2>4, HeapGrows DEF Core
    <2> HIDE DEF g
    <2>9. /\ GoodCursor(s.p, g, e) /\ s.p.buf = Len(g) /\ s.p.avail = l
          /\ s.p.offset = 0
      <3>1. CanIncr(r.p, z) /\ Len(g[Len(g)]) = l
        BY <1>2, <2>4, <2>8 DEF z
      <3> QED  BY <1>0, <2>1, <2>4, <2>7, <2>8, <3>1, DecompressGood
    <2>10. Core(s, e, m)
      <3>1. m <= Len(g)
        BY <1>0, <2>8 DEF Core
      <3>2. s.p.buf # Null
        BY <2>8, <2>9 DEF Null
      <3> QED  BY <1>0, <2>7, <2>8, <2>9, <3>1, <3>2 DEF Core
    <2> QED  BY <1>2, <2>5, <2>7, <2>9, <2>10 DEF s
  <1>3. CASE r.len[1] = "lzf" /\ ~ CanIncr(r.p, r.len[2])
    <2>1. s = Failed(r, "lzf")
      BY <1>3 DEF Expand
    <2>2. "lzf" \in Codes /\ "lzf" # "ok"
      BY DEF Codes
    <2> QED  BY <1>0, <2>1, <2>2, FailedKeeps
  <1>4. CASE r.len[1] = "lzf" /\ CanIncr(r.p, r.len[2]) /\ Here(r)[1] # "zip"
    <2> DEFINE z == r.len[2]
               q == Skip(r, z)
    <2>1. z \in Nat /\ r.p.buf = Main
      BY <1>4 DEF HeaderRead
    <2>2. s = Failed(q, "lzf")
      BY <1>4 DEF Expand
    <2>3. CanIncr(r.p, z)
      BY <1>4
    <2> HIDE DEF z, q, s
    <2>4. /\ Core(q, e, m) /\ q.p.buf = r.p.buf /\ q.len = r.len /\ q.vals = r.vals
      BY <1>0, <2>1, <2>3, SkipKeeps DEF q
    <2>5. "lzf" \in Codes /\ "lzf" # "ok"
      BY DEF Codes
    <2>6. /\ Core(s, e, m) /\ s.p = q.p /\ s.len = r.len /\ s.vals = r.vals
          /\ s.rc = "lzf"
      BY <2>2, <2>4, <2>5, FailedKeeps
    <2>7. Within(s.p, n)
      BY <2>1, <2>4, <2>6 DEF Within
    <2> QED  BY <2>5, <2>6, <2>7 DEF s
  <1> QED  BY <1>1, <1>2, <1>3, <1>4

(* A packed list is refused for its header, and not read on.               *)
LEMMA ListedIs ==
  ASSUME NEW r
  PROVE  Listed(r) = IF r.rc = "ok" /\ ~ init(r.vals[1][2]) THEN Failed(r, "trunc") ELSE r
  BY SMT DEF Listed, Then

-----------------------------------------------------------------------------
(* Strings and numbers. *)

(* The data a header announces.                                            *)
LEMMA DataKeeps ==
  ASSUME NEW r, NEW e \in Nat, NEW n \in Nat, NEW m, Core(r, e, m),
         LenOf(r.len) \in Nat,
         Within(r.p, n) \/ r.p.avail = LenOf(r.len)
  PROVE  /\ Ready(Data(r), e, n, m)
         /\ Data(r).rc = "ok" => OneMore(r, Data(r)) /\ r.rc = "ok"
         /\ Data(r).rc = "ok" /\ r.p.avail = LenOf(r.len) => Data(r).p.avail = 0
  <1> DEFINE k == LenOf(r.len)
  <1>1. k \in Nat /\ Data(r) = Take(r, k) /\ (Within(r.p, n) \/ r.p.avail = k)
    BY DEF Data
  <1> HIDE DEF k
  <1>2. /\ Ready(Take(r, k), e, n, m)
        /\ Take(r, k).rc = "ok" /\ r.p.avail = k => Take(r, k).p.avail = 0
        /\ Take(r, k).rc = "ok" => r.rc = "ok" /\ OneMore(r, Take(r, k))
    <2>1. k \in Nat /\ Core(r, e, m) /\ (Within(r.p, n) \/ r.p.avail = k)
      BY <1>1
    <2>2. Ready(Take(r, k), e, n, m)
      BY <2>1, TakeStays
    <2>3. Take(r, k).rc = "ok" /\ r.p.avail = k => Take(r, k).p.avail = 0
      BY <2>1, TakeEmpties
    <2>4. Take(r, k).rc = "ok" => r.rc = "ok" /\ OneMore(r, Take(r, k))
      BY <2>1, TakeAdds
    <2> QED  BY <2>2, <2>3, <2>4, Zenon
  <1> QED  BY <1>1, <1>2, Zenon DEF k

(* A string, compressed or not, leaves no more of a block than there was.  *)
LEMMA consumeKeeps ==
  ASSUME NEW r, NEW e \in 0 .. Len(win), NEW n \in Nat, NEW m \in Nat,
         WellFormed(win), Ready(r, e, n, m), r.rc = "ok" => HeaderRead(r)
  PROVE  /\ Ready(consume(r), e, n, m)
         /\ consume(r).rc = "ok" => r.rc = "ok" /\ OneMore(r, consume(r))
  <1> DEFINE s == consume(r)
             x == Expand(r)
  <1>e. e \in Nat /\ Core(r, e, m) /\ Within(r.p, n)
    BY DEF WellFormed, Cells, Ready
  <1>1. CASE r.rc # "ok"
    BY <1>1, consumeIs
  <1>2. CASE r.rc = "ok" /\ IsInt(r)
    <2>1. s = Failed(r, "hdr")
      BY <1>2, consumeIs
    <2>2. "hdr" \in Codes /\ "hdr" # "ok"
      BY DEF Codes
    <2> QED  BY <1>e, <2>1, <2>2, FailedKeeps DEF Ready
  <1>3. CASE r.rc = "ok" /\ ~ IsInt(r)
    <2>1. s = IF x.rc = "ok" THEN Data(x) ELSE x
      BY <1>3, consumeIs
    <2>2. /\ Core(x, e, m) /\ x.len = r.len /\ x.vals = r.vals
          /\ Within(x.p, n) \/ (x.rc = "ok" /\ x.p.avail = LenOf(r.len))
      BY <1>3, ExpandKeeps
    <2>3. LenOf(x.len) \in Nat
      BY <1>3, <2>2 DEF HeaderRead, IsSize
    <2> HIDE DEF x, s
    <2>4. CASE x.rc = "ok"
      <3>1. Ready(Data(x), e, n, m) /\ (Data(x).rc = "ok" => OneMore(x, Data(x)))
        BY <1>e, <2>2, <2>3, DataKeeps
      <3>2. OneMore(x, s) => OneMore(r, s)
        BY <2>2 DEF OneMore
      <3> QED  BY <1>3, <2>1, <2>4, <3>1, <3>2 DEF s
    <2>5. CASE x.rc # "ok"
      BY <2>1, <2>2, <2>5 DEF Ready, s
    <2> QED  BY <2>4, <2>5
  <1> QED  BY <1>1, <1>2, <1>3

(* The string behind a header that was read.                               *)
LEMMA TextKeeps ==
  ASSUME NEW r, NEW e \in 0 .. Len(win), NEW n \in Nat, NEW m \in Nat,
         WellFormed(win), Ready(r, e, n, m), r.rc = "ok" => HeaderRead(r)
  PROVE  /\ Ready(Text(r), e, n, m)
         /\ Text(r).rc = "ok" => r.rc = "ok"
  <1>1. CASE r.rc = "ok" /\ IsInt(r)
    <2>1. Text(r) = Value(r, r.len)
      BY <1>1, TextIs DEF Integer
    <2> QED  BY <1>1, <2>1, ValueKeeps DEF Ready
  <1>2. CASE ~ (r.rc = "ok" /\ IsInt(r))
    BY <1>2, TextIs, consumeKeeps
  <1> QED  BY <1>1, <1>2

(* A header and its string: one cell less of a block.                      *)
LEMMA NameKeeps ==
  ASSUME NEW r, NEW e \in 0 .. Len(win), NEW n \in Nat, NEW m \in Nat,
         WellFormed(win), Ready(r, e, n, m)
  PROVE  /\ Ready(Name(r), e, n, m)
         /\ Name(r).rc = "ok" => /\ r.rc = "ok"
                                 /\ Within(Name(r).p, Less(n))
                                 /\ OneMore(r, Name(r))
  <1> DEFINE q == Length(r)
  <1>1. /\ Ready(q, e, n, m) /\ q.vals = r.vals
        /\ q.rc = "ok" => r.rc = "ok" /\ HeaderRead(q) /\ Within(q.p, Less(n))
    BY LengthKeeps
  <1>2. Name(r) = consume(q)
    BY DEF Name
  <1> HIDE DEF q
  <1>3. /\ Ready(consume(q), e, n, m)
        /\ consume(q).rc = "ok" => q.rc = "ok" /\ OneMore(q, consume(q))
    BY <1>1, consumeKeeps
  <1>4. ASSUME consume(q).rc = "ok" PROVE Within(consume(q).p, Less(n))
    <2>1. Less(n) \in Nat
      BY DEF Less
    <2>2. Ready(q, e, Less(n), m)
      BY <1>1, <1>3, <1>4 DEF Ready
    <2>3. Ready(consume(q), e, Less(n), m)
      BY <1>1, <2>1, <2>2, consumeKeeps
    <2> QED  BY <2>3 DEF Ready
  <1>5. OneMore(q, consume(q)) => OneMore(r, consume(q))
    BY <1>1 DEF OneMore
  <1> QED  BY <1>1, <1>2, <1>3, <1>4, <1>5

(* A string that was expanded is read to its end.                          *)
LEMMA decode_strKeeps ==
  ASSUME NEW r, NEW e \in Nat, NEW n \in Nat, NEW m, Core(r, e, m),
         r.rc = "ok" => LenOf(r.len) \in Nat,
         Within(r.p, n) \/ (r.rc = "ok" /\ r.len[1] = "lzf" /\ r.p.avail = LenOf(r.len))
  PROVE  /\ Ready(decode_str(r), e, n, m)
         /\ decode_str(r).rc = "ok" => r.rc = "ok"
         /\ decode_str(r).rc = "ok" /\ r.len[1] = "lzf" /\ r.p.avail = LenOf(r.len)
              => decode_str(r).p.avail = 0
  <1>1. CASE r.rc # "ok"
    BY <1>1, decode_strIs DEF Ready
  <1>2. CASE r.rc = "ok" /\ IsInt(r)
    <2>1. decode_str(r) = Value(r, r.len)
      BY <1>2, decode_strIs DEF Integer
    <2>2. r.len[1] # "lzf"
      BY <1>2 DEF IsInt
    <2> QED  BY <1>2, <2>1, <2>2, ValueKeeps DEF Ready
  <1>3. CASE r.rc = "ok" /\ ~ IsInt(r)
    BY <1>3, decode_strIs, DataKeeps
  <1> QED  BY <1>1, <1>2, <1>3

(* A length header whose string, if it is compressed, is expanded: what is *)
(* left of a block is left of it or is the string.                         *)
LEMMA SizeKeeps ==
  ASSUME NEW r, NEW e \in 0 .. Len(win), NEW n \in Nat, NEW m \in Nat,
         WellFormed(win), Ready(r, e, n, m)
  PROVE  LET s == Unzip(Length(r))
         IN  /\ Core(s, e, m)
             /\ s.rc = "ok" => r.rc = "ok" /\ IsSize(s.len)
             /\ s.vals = r.vals
             /\ \/ Within(s.p, n)
                \/ /\ s.rc = "ok" /\ s.len[1] = "lzf"
                   /\ s.p.avail = LenOf(s.len) /\ s.p.offset = 0
             /\ s.rc = "ok" => \/ Within(s.p, Less(n))
                               \/ /\ s.len[1] = "lzf"
                                  /\ s.p.avail = LenOf(s.len) /\ s.p.offset = 0
  <1> DEFINE q == Length(r)
             s == Unzip(q)
  <1>1. /\ Ready(q, e, n, m) /\ q.vals = r.vals
        /\ q.rc = "ok" => r.rc = "ok" /\ HeaderRead(q) /\ Within(q.p, Less(n))
    BY LengthKeeps
  <1> HIDE DEF q
  <1>2. s = IF q.rc = "ok" THEN Expand(q) ELSE q
    BY UnzipIs
  <1>3. CASE q.rc # "ok"
    BY <1>1, <1>2, <1>3 DEF Ready, q
  <1>4. CASE q.rc = "ok"
    <2>1. /\ Core(s, e, m) /\ s.len = q.len /\ s.vals = q.vals
          /\ \/ Within(s.p, n)
             \/ /\ s.rc = "ok" /\ q.len[1] = "lzf"
                /\ s.p.avail = LenOf(q.len) /\ s.p.offset = 0
      BY <1>1, <1>2, <1>4, ExpandKeeps
    <2>2. Less(n) \in Nat /\ Ready(q, e, Less(n), m)
      BY <1>1, <1>4 DEF Ready, Less
    <2>3. \/ Within(s.p, Less(n))
          \/ /\ s.rc = "ok" /\ q.len[1] = "lzf"
             /\ s.p.avail = LenOf(q.len) /\ s.p.offset = 0
      BY <1>1, <1>2, <1>4, <2>2, ExpandKeeps
    <2>4. IsSize(q.len)
      BY <1>1, <1>4 DEF HeaderRead
    <2> QED  BY <1>1, <1>4, <2>1, <2>3, <2>4 DEF q
  <1> QED  BY <1>3, <1>4

(* The number of elements, or the whole value as one string.               *)
LEMMA decode_rlenKeeps ==
  ASSUME NEW r, NEW e \in 0 .. Len(win), NEW n \in Nat, NEW m \in Nat,
         WellFormed(win), Ready(r, e, n, m)
  PROVE  /\ Ready(decode_rlen(r), e, n, m)
         /\ decode_rlen(r).rc = "ok" => /\ r.rc = "ok"
                                        /\ Within(decode_rlen(r).p, Less(n))
  <1> DEFINE s == Unzip(Length(r))
  <1>e. e \in Nat /\ Less(n) \in Nat
    BY DEF WellFormed, Cells, Less
  <1>1. /\ Core(s, e, m)
        /\ s.rc = "ok" => r.rc = "ok" /\ IsSize(s.len)
        /\ \/ Within(s.p, n)
           \/ s.rc = "ok" /\ s.len[1] = "lzf" /\ s.p.avail = LenOf(s.len)
        /\ s.rc = "ok" => \/ Within(s.p, Less(n))
                          \/ s.len[1] = "lzf" /\ s.p.avail = LenOf(s.len)
    BY SizeKeeps
  <1>2. decode_rlen(r) = decode_str(s)
    BY DEF decode_rlen
  <1> HIDE DEF s
  <1>3. s.rc = "ok" => LenOf(s.len) \in Nat
    BY <1>1 DEF IsSize
  <1>4. Ready(decode_str(s), e, n, m) /\ (decode_str(s).rc = "ok" => s.rc = "ok")
    BY <1>e, <1>1, <1>3, decode_strKeeps
  <1>5. ASSUME decode_str(s).rc = "ok" PROVE Within(decode_str(s).p, Less(n))
    <2>1. Ready(decode_str(s), e, Less(n), m)
      BY <1>e, <1>1, <1>3, <1>4, <1>5, decode_strKeeps
    <2> QED  BY <2>1 DEF Ready
  <1> QED  BY <1>1, <1>2, <1>4, <1>5

-----------------------------------------------------------------------------
(* Numbers, fields and scores. *)

(* A number, also when it was written as a string.                         *)
LEMMA NumberKeeps ==
  ASSUME NEW r, NEW e \in 0 .. Len(win), NEW n \in Nat, NEW m \in Nat,
         WellFormed(win), Ready(r, e, n, m)
  PROVE  /\ Ready(Number(r), e, n, m)
         /\ Number(r).rc = "ok" => r.rc = "ok"
  <1> DEFINE q == Length(r)
             v == Value(q, q.len[2])
             f == Failed(q, "hdr")
  <1>1. Ready(q, e, n, m) /\ (q.rc = "ok" => r.rc = "ok")
    BY LengthKeeps
  <1>2. Number(r) = q \/ Number(r) = v \/ Number(r) = f
    BY NumberIs
  <1>3. "hdr" \in Codes /\ "hdr" # "ok"
    BY DEF Codes
  <1> HIDE DEF q
  <1>4. Core(v, e, m) /\ v.p = q.p /\ v.rc = q.rc
    BY <1>1, ValueKeeps DEF Ready
  <1>5. Core(f, e, m) /\ f.p = q.p /\ f.rc = "hdr"
    BY <1>1, <1>3, FailedKeeps DEF Ready
  <1> HIDE DEF v, f
  <1> QED  BY <1>1, <1>2, <1>3, <1>4, <1>5 DEF Ready

(* A count of eight bytes is as good as a header.                          *)
LEMMA CountKeeps ==
  ASSUME NEW r, NEW e \in 0 .. Len(win), NEW n \in Nat, NEW m \in Nat,
         WellFormed(win), Ready(r, e, n, m)
  PROVE  /\ Ready(Count(r), e, n, m)
         /\ Count(r).rc = "ok" => r.rc = "ok"
  <1> DEFINE q == Length(r)
             v == Value(q, LenOf(q.len))
  <1>1. Ready(q, e, n, m) /\ (q.rc = "ok" => r.rc = "ok")
    BY LengthKeeps
  <1>2. Count(r) = q \/ Count(r) = v
    BY CountIs
  <1> HIDE DEF q
  <1>3. Core(v, e, m) /\ v.p = q.p /\ v.rc = q.rc
    BY <1>1, ValueKeeps DEF Ready
  <1> HIDE DEF v
  <1> QED  BY <1>1, <1>2, <1>3 DEF Ready

(* A field that is chained to what was read before it.                     *)
LEMMA FieldKeeps ==
  ASSUME NEW r, NEW e \in 0 .. Len(win), NEW n \in Nat, NEW m \in Nat,
         WellFormed(win), Ready(r, e, n, m)
  PROVE  /\ Ready(Field(r), e, n, m)
         /\ Field(r).rc = "ok" => r.rc = "ok"
  <1>1. CASE r.rc = "ok"
    BY <1>1, FieldIs, FixedKeeps
  <1>2. CASE r.rc # "ok"
    BY <1>2, FieldIs
  <1> QED  BY <1>1, <1>2

(* The score of a sorted set, as digits.                                   *)
LEMMA DigitsKeeps ==
  ASSUME NEW r, NEW e \in 0 .. Len(win), NEW n \in Nat, NEW m \in Nat,
         WellFormed(win), Ready(r, e, n, m), r.rc = "ok"
  PROVE  Ready(Digits(r), e, n, m)
  <1> DEFINE c == Here(r)
             q == Fixed(r)
             k == Skip(r, 1)
  <1>0. /\ e \in Nat /\ Core(r, e, m) /\ GoodCursor(r.p, r.heap, e)
        /\ Within(r.p, n) /\ r.p \in Bufptr
    BY DEF WellFormed, Cells, Ready, Core, GoodCursor
  <1>1. Ready(q, e, n, m) /\ (q.rc = "ok" => r.p.avail # 0 /\ CellOK(c))
    BY FixedKeeps
  <1>2. CASE q.rc = "ok" /\ c[1] = "len"
    <2> DEFINE l == c[2]
    <2>1. Digits(r) = Take(k, l)
      BY <1>2 DEF Digits
    <2>2. l \in Nat
      BY <1>1, <1>2 DEF CellOK
    <2>3. CanIncr(r.p, 1)
      BY <1>0, <1>1, <1>2 DEF CanIncr, Bufptr
    <2>4. /\ Core(k, e, m) /\ k.p.buf = r.p.buf /\ k.p.avail = r.p.avail - 1
      BY <1>0, <2>3, StepKeeps
    <2> HIDE DEF k, l
    <2>5. Within(k.p, n)
      BY <1>0, <2>4 DEF Within, Bufptr
    <2> QED  BY <1>0, <2>1, <2>2, <2>4, <2>5, TakeKeeps
  <1>3. CASE ~ (q.rc = "ok" /\ c[1] = "len")
    <2>1. Digits(r) = q
      BY <1>3 DEF Digits
    <2> QED  BY <1>1, <2>1
  <1> QED  BY <1>2, <1>3

(* The same, chained.                                                      *)
LEMMA ScoreKeeps ==
  ASSUME NEW r, NEW e \in 0 .. Len(win), NEW n \in Nat, NEW m \in Nat,
         WellFormed(win), Ready(r, e, n, m)
  PROVE  Ready(Score(r), e, n, m)
  <1>1. CASE r.rc = "ok" /\ dec.type = "zset_2"
    BY <1>1, ScoreIs, FixedKeeps
  <1>2. CASE r.rc = "ok" /\ dec.type # "zset_2"
    BY <1>2, ScoreIs, DigitsKeeps
  <1>3. CASE r.rc # "ok"
    BY <1>3, ScoreIs
  <1> QED  BY <1>1, <1>2, <1>3

(* A read with an error in it is not taken further. *)
LEMMA ScoreStops ==
  ASSUME NEW r, r.rc # "ok" PROVE Score(r) = r
  BY ScoreIs

(* An intset takes all of its block: the lead and as many integers as the  *)
(* lead counts.                                                            *)
LEMMA IntsKeeps ==
  ASSUME NEW r, NEW e \in 0 .. Len(win), NEW m \in Nat, WellFormed(win),
         Core(r, e, m), r.rc = "ok", r.vals = <<>>,
         \/ Within(r.p, 0)
         \/ r.p.offset = 0
  PROVE  LET s == Ints(Field(r))
         IN  /\ Core(s, e, m)
             /\ s.rc = "ok" => Within(s.p, 0)
  <1> DEFINE q == Field(r)
             s == Ints(q)
             c == Here(r)
             n == r.p.avail
             k == c[2]
  <1>0. /\ e \in Nat /\ GoodCursor(r.p, r.heap, e) /\ GoodHeap(r.heap)
        /\ n \in Nat /\ r.p \in Bufptr
    BY DEF WellFormed, Cells, Core, GoodCursor, Bufptr
  <1>1. Ready(r, e, n, m)
    BY <1>0 DEF Ready, Within, Bufptr
  <1>2. q = Fixed(r)
    BY FieldIs
  <1>3. /\ Ready(q, e, n, m)
        /\ q.rc = "ok" => /\ n # 0 /\ CellOK(c)
                          /\ q.p.buf = r.p.buf /\ q.p.avail = n - 1
                          /\ q.vals = Append(r.vals, c)
        /\ q.heap = r.heap
    BY <1>0, <1>1, <1>2, FixedKeeps
  <1>4. CASE q.rc = "ok" /\ c[1] = "ints"
    <2>1. q.vals[1] = c
      BY <1>3, <1>4
    <2>2. s = Take(q, k)
      BY <1>4, <2>1, IntsIs
    <2>3. k \in Nat
      BY <1>3, <1>4 DEF CellOK
    <2> HIDE DEF q, s, n
    <2>4. Core(q, e, m) /\ Within(q.p, n)
      BY <1>3 DEF Ready
    <2>5. Ready(Take(q, k), e, n, m)
      BY <1>0, <2>3, <2>4, TakeStays
    <2>6. CASE q.p.buf = Main
      <3>1. Take(q, k).p.buf = Main
        BY <1>0, <2>3, <2>4, <2>6, TakeStays
      <3> QED  BY <2>2, <2>5, <3>1 DEF Ready, Within, s, q
    <2>7. CASE q.p.buf # Main
      <3> DEFINE b == r.heap[r.p.buf]
      <3>1. /\ r.p.buf # Main /\ r.p.buf = Len(r.heap) /\ r.p.buf > 0
            /\ Len(r.heap) \in Nat
        BY <1>0, <1>3, <1>4, <2>7 DEF GoodCursor, GoodHeap, Core, Null, Main
      <3>2. r.p.offset = 0
        BY <1>0, <1>3, <1>4, <3>1 DEF Within, Bufptr, n
      <3>3. BlockOK(b) /\ Len(b) = n
        <4>1. r.p.buf \in 1 .. Len(r.heap)
          BY <3>1
        <4>2. BlockOK(b)
          BY <1>0, <4>1, Zenon DEF GoodHeap
        <4>3. r.p.buf > 0 => r.p.offset + r.p.avail = Len(b)
          BY <1>0, Zenon DEF GoodCursor
        <4>4. r.p.offset + r.p.avail = Len(b)
          BY <3>1, <4>3
        <4>5. Len(b) = n
          <5> HIDE DEF b
          <5> QED  BY <1>0, <3>2, <4>4 DEF n
        <4> QED  BY <4>2, <4>5
      <3>4. c = b[1]
        <4>1. c = Bytes(r)[r.p.offset + 1]
          BY Zenon DEF Here
        <4>2. Bytes(r) = b
          BY <3>1, Zenon DEF Bytes
        <4>3. r.p.offset + 1 = 1
          BY <3>2
        <4> HIDE DEF b, c
        <4> QED  BY <4>1, <4>2, <4>3, Zenon
      <3>5. k = n - 1
        <4>1. b[1][1] = "ints"
          BY <1>4, <3>4
        <4>2. b[1][2] = Len(b) - 1
          <5>1. Cells(b) /\ Len(b) > 0
            <6>1. BlockOK(b) /\ Len(b) = n /\ n > 0
              BY <1>0, <1>3, <1>4, <3>3
            <6> HIDE DEF b, n
            <6> QED  BY <6>1 DEF BlockOK
          <5> HIDE DEF b
          <5> QED  BY <3>3, <4>1, <5>1, Zenon DEF BlockOK
        <4>3. k = b[1][2]
          BY <3>4, Zenon
        <4> QED  BY <3>3, <4>2, <4>3, Zenon
      <3>6. q.p.avail = k
        BY <1>3, <1>4, <3>5
      <3>7. Take(q, k).rc = "ok" => Take(q, k).p.avail = 0
        <4>1. e \in Nat /\ n \in Nat
          BY <1>0
        <4> HIDE DEF k
        <4> QED  BY <2>3, <2>4, <3>6, <4>1, TakeEmpties
      <3> QED  BY <2>2, <2>5, <3>7 DEF Ready, Within, s, q
    <2> QED  BY <2>6, <2>7
  <1>5. CASE q.rc = "ok" /\ c[1] # "ints"
    <2>1. q.vals[1] = c
      BY <1>3, <1>5
    <2>2. s = Failed(q, "notsup")
      BY <1>5, <2>1, IntsIs
    <2>3. "notsup" \in Codes /\ "notsup" # "ok"
      BY DEF Codes
    <2> HIDE DEF q, s
    <2>4. Core(Failed(q, "notsup"), e, m) /\ Failed(q, "notsup").rc = "notsup"
      BY <1>3, <2>3, FailedKeeps DEF Ready
    <2> QED  BY <2>2, <2>3, <2>4 DEF s, q
  <1>6. CASE q.rc # "ok"
    <2>1. s = q
      BY <1>6, IntsIs
    <2> QED  BY <1>3, <1>6, <2>1 DEF Ready
  <1> QED  BY <1>4, <1>5, <1>6
=============================================================================
