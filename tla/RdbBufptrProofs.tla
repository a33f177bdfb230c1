--------------------------- MODULE RdbBufptrProofs ---------------------------
(***************************************************************************)
(* For every buffer size and every bound on headers and blobs, the cursor  *)
(* of RdbBufptr keeps its accounts, and, for callers that look() after     *)
(* every string, implements the flat stream of RdbFlatStream.              *)
(***************************************************************************)
EXTENDS RdbBufptr, TLAPS

(***************************************************************************)
(* The inductive invariant.  Accounted and OffsetTracks are not inductive  *)
(* alone: look() and free_alloced() assign sav to buf, so what they do     *)
(* depends on sav being the main buffer exactly when bytes of it are       *)
(* parked, on nothing being parked while main is current, and on a cursor  *)
(* that points nowhere having nothing behind it.                           *)
(***************************************************************************)
Parking == /\ bptr.sav = Main <=> bptr.sav_avail > 0
           /\ bptr.buf = Null => bptr.avail = 0 /\ bptr.sav = Null
           /\ Null <= bptr.buf

BlockBound == bptr.buf > 0 => bptr.avail <= MaxLen

IInv == /\ TypeOK /\ Accounted /\ OffsetTracks
        /\ OneDeep /\ Parking /\ BlockBound

-----------------------------------------------------------------------------
(* A new cursor satisfies the invariant. *)
LEMMA InitIInv == Init => IInv
  BY BufptrAssumption
  DEF Init, NewBufptr, IInv, TypeOK, Bufptr, Accounted, MainLeft,
      OffsetTracks, OneDeep, Parking, BlockBound, Null, Main

(* A look() keeps the invariant and leaves nothing parked behind a spent   *)
(* cursor; stated of the cursor it returns, before any incr().             *)
LookGood(q, g) ==
  /\ q \in Bufptr
  /\ g + MainLeft(q) = Size
  /\ q.buf = Main => q.offset = g /\ q.sav = Null /\ q.sav_avail = 0
  /\ q.sav = Main => q.sav_offset = g
  /\ q.sav = Main <=> q.sav_avail > 0
  /\ q.buf = Null => q.avail = 0 /\ q.sav = Null
  /\ Null <= q.buf
  /\ q.buf > 0 => q.avail <= MaxLen

LEMMA IInvIsGood == IInv <=> /\ LookGood(bptr, got)
                             /\ got \in Nat /\ rc \in {"ok", "trunc", "lzf"}
  BY DEF IInv, LookGood, TypeOK, Accounted, OffsetTracks, OneDeep,
         Parking, BlockBound

LEMMA PoppedGood ==
  ASSUME NEW p, NEW g \in Nat, LookGood(p, g), p.avail = 0, p.buf # Main
  PROVE  /\ LookGood(Popped(p), g)
         /\ Popped(p).avail + Popped(p).sav_avail = p.avail + p.sav_avail
         /\ Popped(p).sav_avail = 0
  <1> DEFINE q == Popped(p)
  <1>1. p \in Bufptr /\ g + p.sav_avail = Size
    BY DEF LookGood, MainLeft
  <1>2. /\ q \in Bufptr
        /\ q.buf = p.sav /\ q.avail = p.sav_avail /\ q.offset = p.sav_offset
        /\ q.sav = Null /\ q.sav_avail = 0 /\ q.sav_offset = 0
        /\ q.alloced = p.alloced
    BY <1>1 DEF Popped, Bufptr, Null, Main
  <1>3. CASE p.sav = Main
    BY <1>1, <1>2, <1>3 DEF LookGood, MainLeft, Bufptr, Null, Main
  <1>4. CASE p.sav = Null
    BY <1>1, <1>2, <1>4 DEF LookGood, MainLeft, Bufptr, Null, Main
  <1> QED  BY <1>1, <1>3, <1>4 DEF Bufptr

LEMMA LookIsGood ==
  ASSUME NEW p, NEW g \in Nat, LookGood(p, g)
  PROVE  /\ LookGood(Look(p), g)
         /\ Look(p).avail + Look(p).sav_avail = p.avail + p.sav_avail
         /\ p.buf = Main \/ p.avail = 0 => Look(p).sav_avail = 0
  <1>1. CASE p.avail = 0 /\ p.sav_avail > 0
    <2>1. p.buf # Main
      BY <1>1 DEF LookGood, Null, Main
    <2> QED  BY <1>1, <2>1, PoppedGood DEF Look
  <1>2. CASE ~ (p.avail = 0 /\ p.sav_avail > 0)
    BY <1>2 DEF Look, LookGood, Bufptr
  <1> QED  BY <1>1, <1>2

(* An incr() that fits hands out its bytes exactly once. *)
LEMMA IncrIsGood ==
  ASSUME NEW p, NEW g \in Nat, NEW n \in Nat, LookGood(p, g), CanIncr(p, n)
  PROVE  /\ LookGood(Incr(p, n), IF p.buf = Main THEN g + n ELSE g)
         /\ Incr(p, n).avail = p.avail - n
         /\ Incr(p, n).sav_avail = p.sav_avail
         /\ Incr(p, n).buf = p.buf
  <1> DEFINE q == Incr(p, n)
  <1>1. /\ p \in Bufptr /\ n <= p.avail
        /\ g + MainLeft(p) = Size
    BY DEF LookGood, CanIncr
  <1>2. /\ q.avail = p.avail - n /\ q.offset = p.offset + n
        /\ q.buf = p.buf /\ q.sav = p.sav /\ q.sav_avail = p.sav_avail
        /\ q.sav_offset = p.sav_offset /\ q.alloced = p.alloced
    BY <1>1 DEF Incr, Bufptr
  <1>3. q \in Bufptr
    <2>1. p.avail - n \in Nat /\ p.offset + n \in Nat
      BY <1>1 DEF Bufptr
    <2> QED  BY <1>1, <2>1 DEF Incr, Bufptr
  <1>4. CASE p.buf = Main
    BY <1>1, <1>2, <1>3, <1>4 DEF LookGood, MainLeft, Bufptr, Null, Main
  <1>5. CASE p.buf # Main
    BY BufptrAssumption, <1>1, <1>2, <1>3, <1>5
    DEF LookGood, MainLeft, Bufptr, Null, Main
  <1> QED  BY <1>2, <1>4, <1>5

(* A blob expanded from the main buffer parks all that is left of it. *)
LEMMA DecompressIsGood ==
  ASSUME NEW p, NEW g \in Nat, NEW z \in 1 .. MaxLen, NEW n \in 1 .. MaxLen,
         LookGood(p, g), p.buf = Main, CanIncr(p, z)
  PROVE  /\ LookGood(Decompress(p, z, n), g + z)
         /\ Decompress(p, z, n).avail = n
         /\ Decompress(p, z, n).sav_avail = p.avail - z
  <1> DEFINE i == Incr(p, z)
             q == Parked(i)
  <1>1. /\ LookGood(i, g + z) /\ i.buf = Main /\ i.avail = p.avail - z
        /\ z \in Nat /\ g + z \in Nat
    BY BufptrAssumption, IncrIsGood
  <1>2. /\ i \in Bufptr /\ i.sav = Null /\ i.sav_avail = 0
        /\ i.offset = g + z /\ g + z + i.avail = Size
    BY <1>1 DEF LookGood, MainLeft
  <1>3. /\ q \in Bufptr /\ q.alloced = i.alloced
        /\ q.sav_avail = i.avail
        /\ q.sav = Main => q.sav_offset = g + z
        /\ q.sav = Main <=> q.sav_avail > 0
    <2>1. CASE i.avail > 0
      BY <1>1, <1>2, <2>1 DEF Parked, Bufptr, Null, Main
    <2>2. CASE i.avail = 0
      BY <1>1, <1>2, <2>2 DEF Parked, Bufptr, Null, Main
    <2> QED  BY <1>2, <2>1, <2>2 DEF Bufptr
  <1> DEFINE d == Decompress(p, z, n)
  <1>4. /\ d.buf = q.alloced + 1 /\ d.avail = n /\ d.offset = 0
        /\ d.sav = q.sav /\ d.sav_avail = q.sav_avail
        /\ d.sav_offset = q.sav_offset /\ d.alloced = q.alloced + 1
        /\ d \in Bufptr
    BY <1>3 DEF Decompress, Bufptr
  <1> QED
    BY BufptrAssumption, <1>1, <1>2, <1>3, <1>4
    DEF LookGood, MainLeft, Bufptr, Null, Main

(* Freeing the blocks of a key, with or without bytes left in them. *)
LEMMA FreeIsGood ==
  ASSUME NEW p, NEW g \in Nat, LookGood(p, g)
  PROVE  /\ LookGood(FreeAlloced(p), g)
         /\ FreeAlloced(p).avail + FreeAlloced(p).sav_avail
              = p.avail + p.sav_avail
  <1> DEFINE f == Freed(p)
  <1>1. p \in Bufptr /\ g + MainLeft(p) = Size
    BY DEF LookGood
  <1>2. /\ f \in Bufptr /\ f.buf = p.buf /\ f.avail = p.avail
        /\ f.offset = p.offset /\ f.sav = p.sav /\ f.sav_avail = p.sav_avail
        /\ f.sav_offset = p.sav_offset /\ f.alloced = 0
    BY <1>1 DEF Freed, Bufptr
  <1>3. CASE p.alloced = 0
    BY <1>1, <1>3 DEF FreeAlloced
  <1>4. CASE p.alloced # 0 /\ p.avail # 0
    BY <1>1, <1>2, <1>4 DEF FreeAlloced, LookGood, MainLeft, Null, Main, Bufptr
  <1>5. CASE p.alloced # 0 /\ p.avail = 0
    <2> DEFINE q == Popped(f)
    <2>1. /\ q \in Bufptr /\ q.alloced = 0
          /\ q.buf = p.sav /\ q.avail = p.sav_avail /\ q.offset = p.sav_offset
          /\ q.sav = Null /\ q.sav_avail = 0
      BY <1>2 DEF Popped, Bufptr, Null, Main
    <2>2. FreeAlloced(p) = q
      BY <1>5 DEF FreeAlloced
    <2>3. LookGood(q, g)
      BY <1>1, <1>5, <2>1 DEF LookGood, MainLeft, Bufptr, Null, Main
    <2> QED  BY <1>1, <1>5, <2>1, <2>2, <2>3 DEF Bufptr
  <1> QED  BY <1>1, <1>3, <1>4, <1>5

-----------------------------------------------------------------------------
(* Advance() from a cursor that is good keeps the invariant. *)
LEMMA AdvanceIInv ==
  ASSUME NEW p, NEW n \in Nat, IInv, LookGood(p, got), Advance(p, n),
         rc = "ok"
  PROVE  IInv'
  <1>1. got \in Nat
    BY DEF IInv, TypeOK
  <1>2. CASE CanIncr(p, n)
    <2>1. /\ bptr' = Incr(p, n)
          /\ got' = (IF p.buf = Main THEN got + n ELSE got)
          /\ rc' = rc
      BY <1>2 DEF Advance
    <2>2. LookGood(bptr', got') /\ got' \in Nat
      BY <1>1, <1>2, <2>1, IncrIsGood
    <2> QED
      BY <2>1, <2>2 DEF IInv, LookGood, TypeOK, Accounted, MainLeft,
                        OffsetTracks, OneDeep, Parking, BlockBound
  <1>3. CASE ~ CanIncr(p, n)
    <2>1. bptr' = p /\ got' = got /\ rc' = "trunc"
      BY <1>3 DEF Advance
    <2> QED
      BY <1>1, <2>1 DEF IInv, LookGood, TypeOK, Accounted, MainLeft,
                        OffsetTracks, OneDeep, Parking, BlockBound
  <1> QED  BY <1>2, <1>3

(* Every step of every caller keeps the inductive invariant. *)
LEMMA NextIInv == IInv /\ [Next]_vars => IInv'
  <1> SUFFICES ASSUME IInv, [Next]_vars PROVE IInv'
    OBVIOUS
  <1>0. LookGood(bptr, got) /\ got \in Nat /\ bptr \in Bufptr
    BY IInvIsGood DEF LookGood
  <1>1. ASSUME NEW h \in 1 .. MaxHdr, DecodeLen(h) PROVE IInv'
    <2>1. h \in Nat /\ LookGood(Look(bptr), got)
      BY <1>0, BufptrAssumption, LookIsGood
    <2> QED  BY <1>1, <2>1, AdvanceIInv DEF DecodeLen
  <1>2. ASSUME NEW n \in 0 .. MaxLen, Read(n) PROVE IInv'
    <2>1. n \in Nat
      BY BufptrAssumption
    <2> QED  BY <1>0, <1>2, <2>1, AdvanceIInv DEF Read
  <1>3. ASSUME NEW n \in 1 .. MaxLen, TakeBlob(n) PROVE IInv'
    <2>1. n \in Nat
      BY BufptrAssumption
    <2> QED  BY <1>0, <1>3, <2>1, AdvanceIInv DEF TakeBlob
  <1>4. ASSUME NEW z \in 1 .. MaxLen, NEW n \in 1 .. MaxLen, Unzip(z, n)
        PROVE  IInv'
    <2>1. bptr.buf = Main /\ rc = "ok" /\ z \in Nat
      BY <1>4, BufptrAssumption DEF Unzip
    <2>2. /\ LookGood(bptr', got') /\ got' \in Nat
          /\ rc' \in {"ok", "trunc", "lzf"}
      <3>1. CASE CanIncr(bptr, z) /\ bptr' = Decompress(bptr, z, n)
                 /\ got' = got + z /\ rc' = rc
        BY <1>0, <2>1, <3>1, DecompressIsGood
      <3>2. CASE CanIncr(bptr, z) /\ bptr' = Incr(bptr, z)
                 /\ got' = got + z /\ rc' = "lzf"
        <4>1. LookGood(Incr(bptr, z), got + z)
          BY <1>0, <2>1, <3>2, IncrIsGood
        <4> QED  BY <1>0, <2>1, <3>2, <4>1
      <3>3. CASE Fail("lzf")
        BY <1>0, <3>3 DEF Fail
      <3> QED  BY <1>4, <3>1, <3>2, <3>3 DEF Unzip
    <2> QED
      BY <2>2 DEF IInv, LookGood, TypeOK, Accounted, MainLeft,
                  OffsetTracks, OneDeep, Parking, BlockBound
  <1>5. ASSUME KeyDone PROVE IInv'
    <2>1. LookGood(bptr', got') /\ got' = got /\ rc' = rc /\ rc = "ok"
      BY <1>0, <1>5, FreeIsGood DEF KeyDone
    <2> QED
      BY <1>0, <2>1 DEF IInv, LookGood, TypeOK, Accounted, MainLeft,
                  OffsetTracks, OneDeep, Parking, BlockBound
  <1>6. CASE UNCHANGED vars
    BY <1>6 DEF vars, IInv, TypeOK, Accounted, MainLeft,
                OffsetTracks, OneDeep, Parking, BlockBound
  <1> QED  BY <1>1, <1>2, <1>3, <1>4, <1>5, <1>6 DEF Next

THEOREM Invariance == Spec => []IInv
  BY InitIInv, NextIInv, PTL DEF Spec

(* No size of the cursor ever wraps below zero. *)
THEOREM TypeCorrect == Spec => []TypeOK
  <1>1. IInv => TypeOK
    BY DEF IInv
  <1> QED  BY <1>1, Invariance, PTL

(* Expanding strings loses no byte of the main buffer and repeats none. *)
THEOREM AccountedAlways == Spec => []Accounted
  <1>1. IInv => Accounted
    BY DEF IInv
  <1> QED  BY <1>1, Invariance, PTL

(* An incr(), and a look() before it, leave the cursor in the buffer it is *)
(* in or, a spent block behind it, in the main buffer or nowhere.          *)
LEMMA AdvanceLive ==
  ASSUME NEW p, NEW n, p = bptr \/ p = Look(bptr), IInv, Advance(p, n)
  PROVE  /\ bptr'.alloced = bptr.alloced
         /\ \/ bptr'.buf = bptr.buf
            \/ bptr.avail = 0 /\ bptr'.buf \in {Null, Main}
  <1>1. bptr \in Bufptr
    BY DEF IInv, TypeOK, Bufptr, Null, Main
  <1>2. /\ p.alloced = bptr.alloced
        /\ p.buf = bptr.buf \/ (bptr.avail = 0 /\ p.buf = bptr.sav)
        /\ p \in Bufptr
    BY <1>1 DEF Look, Popped, Bufptr, Null, Main
  <1>3. bptr'.alloced = p.alloced /\ bptr'.buf = p.buf
    BY <1>2 DEF Advance, Incr, Bufptr
  <1> QED  BY <1>1, <1>2, <1>3 DEF Bufptr

(* The cursor comes to be in a freed block only by the end of a key that   *)
(* leaves bytes of its last block unread, and leaves that block only when  *)
(* they are spent; on every other path it stays in memory that is live.    *)
THEOREM StaysLiveAlways == Spec => StaysLive
  <1> DEFINE Enters == LiveCursor /\ ~ LiveCursor' => LeftBehind
             Leaves == ~ LiveCursor /\ bptr'.buf # bptr.buf =>
                         bptr.avail = 0 /\ LiveCursor'
  <1>1. ASSUME IInv, Next PROVE Enters /\ Leaves
    <2>0. /\ bptr \in Bufptr /\ bptr.sav <= 0 /\ bptr.alloced \in Nat
          /\ bptr.buf \in Int /\ bptr.avail \in Nat
      BY <1>1 DEF IInv, TypeOK, Bufptr, Null, Main
    <2>1. CASE \E p, n : (p = bptr \/ p = Look(bptr)) /\ Advance(p, n)
      <3>1. /\ bptr'.alloced = bptr.alloced
            /\ \/ bptr'.buf = bptr.buf
               \/ bptr.avail = 0 /\ bptr'.buf \in {Null, Main}
        BY <1>1, <2>1, AdvanceLive
      <3> QED  BY <2>0, <3>1 DEF LiveCursor, Null, Main
    <2>2. ASSUME NEW z \in 1 .. MaxLen, NEW n \in 1 .. MaxLen, Unzip(z, n)
          PROVE  Enters /\ Leaves
      <3>1. bptr.buf = 0
        BY <2>2 DEF Unzip, Main
      <3>2. \/ bptr' = Decompress(bptr, z, n)
            \/ bptr' = Incr(bptr, z)
            \/ bptr' = bptr
        BY <2>2 DEF Unzip, Fail
      <3>3. bptr'.buf <= bptr'.alloced
        <4>1. CASE bptr' = Decompress(bptr, z, n)
          <5>1. bptr'.buf = bptr'.alloced
            BY <4>1 DEF Decompress
          <5>2. bptr'.alloced = bptr.alloced + 1
            BY <2>0, <4>1 DEF Decompress, Parked, Incr, Bufptr
          <5> QED  BY <2>0, <5>1, <5>2
        <4>2. CASE bptr' = Incr(bptr, z)
          <5>1. bptr'.buf = bptr.buf /\ bptr'.alloced = bptr.alloced
            BY <2>0, <4>2 DEF Incr, Bufptr
          <5> QED  BY <2>0, <3>1, <5>1
        <4> QED  BY <2>0, <3>1, <3>2, <4>1, <4>2
      <3>4. LiveCursor /\ LiveCursor'
        BY <2>0, <3>1, <3>3 DEF LiveCursor
      <3> QED  BY <3>4
    <2>3. ASSUME KeyDone PROVE Enters /\ Leaves
      <3>1. bptr' = FreeAlloced(bptr)
        BY <2>3 DEF KeyDone
      <3>2. CASE bptr.alloced = 0
        BY <3>1, <3>2 DEF FreeAlloced, LiveCursor
      <3>3. CASE bptr.alloced # 0 /\ bptr.avail = 0
        <4>1. bptr'.buf = bptr.sav /\ bptr'.alloced = 0
          BY <2>0, <3>1, <3>3 DEF FreeAlloced, Popped, Freed, Bufptr
        <4> QED  BY <2>0, <3>3, <4>1 DEF LiveCursor
      <3>4. CASE bptr.alloced # 0 /\ bptr.avail # 0
        <4>1. bptr' = Freed(bptr)
          BY <3>1, <3>4 DEF FreeAlloced
        <4>2. bptr'.buf = bptr.buf /\ bptr'.alloced = 0
          BY <2>0, <4>1 DEF Freed, Bufptr
        <4> QED  BY <2>0, <3>4, <4>1, <4>2 DEF LiveCursor, LeftBehind
      <3> QED  BY <3>2, <3>3, <3>4
    <2> HIDE DEF Enters, Leaves
    <2> QED  BY <1>1, <2>1, <2>2, <2>3 DEF Next, DecodeLen, Read, TakeBlob
  <1>2. ASSUME IInv, [Next]_vars PROVE [Enters /\ Leaves]_vars
    BY <1>1, <1>2
  <1> QED  BY <1>2, Invariance, PTL DEF Spec, StaysLive

(* The main buffer's offset counts exactly the bytes consumed of it. *)
THEOREM OffsetTracksAlways == Spec => []OffsetTracks
  <1>1. IInv => OffsetTracks
    BY DEF IInv
  <1> QED  BY <1>1, Invariance, PTL

-----------------------------------------------------------------------------
(* The bytes left in the flat stream. *)
Left(p) == p.avail + p.sav_avail

(* With nothing parked behind it, an advance is a Take or a Short. *)
LEMMA AdvanceFlat ==
  ASSUME NEW p, NEW n \in 0 .. MaxLen, IInv, LookGood(p, got), rc = "ok",
         Left(p) = Left(bptr), n <= p.avail \/ p.sav_avail = 0, Advance(p, n)
  PROVE  Flat!Take(n) \/ Flat!Short(n)
  <1>1. /\ n \in Nat /\ got \in Nat
        /\ p.avail \in Nat /\ p.sav_avail \in Nat
    BY BufptrAssumption DEF IInv, TypeOK, LookGood, Bufptr
  <1>2. CASE CanIncr(p, n)
    <2>1. /\ bptr' = Incr(p, n) /\ rc' = rc
      BY <1>2 DEF Advance
    <2>2. bptr'.avail = p.avail - n /\ bptr'.sav_avail = p.sav_avail
      BY <1>1, <1>2, <2>1, IncrIsGood
    <2> QED  BY <1>1, <1>2, <2>1, <2>2 DEF Flat!Take, Left, CanIncr
  <1>3. CASE ~ CanIncr(p, n)
    BY <1>1, <1>3 DEF Advance, Flat!Short, Left, CanIncr
  <1> QED  BY <1>2, <1>3

(* Every step of the cursor is a step of the flat stream or leaves it be. *)
LEMMA StepFlat ==
  ASSUME ~ RawAfterBlob, IInv, [Next]_vars
  PROVE  [Flat!Next]_(Flat!vars)
  <1>0. LookGood(bptr, got) /\ got \in Nat /\ bptr \in Bufptr
    BY IInvIsGood DEF LookGood
  <1>1. ASSUME NEW h \in 1 .. MaxHdr, DecodeLen(h) PROVE Flat!Next
    <2>1. /\ LookGood(Look(bptr), got) /\ Left(Look(bptr)) = Left(bptr)
          /\ Look(bptr).sav_avail = 0 /\ rc = "ok"
      BY <1>0, <1>1, LookIsGood DEF DecodeLen, Left
    <2>2. h \in 0 .. MaxLen
      BY BufptrAssumption
    <2>3. Flat!Take(h) \/ Flat!Short(h)
      BY <1>1, <2>1, <2>2, AdvanceFlat DEF DecodeLen
    <2> QED  BY <2>2, <2>3 DEF Flat!Next
  <1>2. ASSUME NEW n \in 0 .. MaxLen, Read(n) PROVE Flat!Next
    <2>1. bptr.sav_avail = 0 /\ rc = "ok"
      BY <1>2 DEF Read, IInv, OneDeep
    <2>2. Flat!Take(n) \/ Flat!Short(n)
      BY <1>0, <1>2, <2>1, AdvanceFlat DEF Read
    <2> QED  BY <2>2 DEF Flat!Next
  <1>3. ASSUME NEW n \in 1 .. MaxLen, TakeBlob(n) PROVE Flat!Next
    <2>1. n \in 0 .. MaxLen /\ rc = "ok"
      BY <1>3, BufptrAssumption DEF TakeBlob
    <2>2. Flat!Take(n) \/ Flat!Short(n)
      BY <1>0, <1>3, <2>1, AdvanceFlat DEF TakeBlob
    <2> QED  BY <2>1, <2>2 DEF Flat!Next
  <1>4. ASSUME NEW z \in 1 .. MaxLen, NEW n \in 1 .. MaxLen, Unzip(z, n)
        PROVE  Flat!Next
    <2>1. /\ bptr.buf = Main /\ rc = "ok" /\ bptr.sav_avail = 0
          /\ z \in Nat /\ n \in Nat /\ bptr.avail \in Nat
      BY <1>0, <1>4, BufptrAssumption DEF Unzip, IInv, OneDeep, Bufptr
    <2>2. CASE CanIncr(bptr, z) /\ bptr' = Decompress(bptr, z, n) /\ rc' = rc
      <3>1. bptr'.avail = n /\ bptr'.sav_avail = bptr.avail - z
        BY <1>0, <2>1, <2>2, DecompressIsGood
      <3>2. Flat!Splice(z, n)
        BY <2>1, <2>2, <3>1 DEF Flat!Splice, CanIncr
      <3> QED  BY <3>2 DEF Flat!Next
    <2>3. CASE CanIncr(bptr, z) /\ bptr' = Incr(bptr, z) /\ rc' = "lzf"
      <3>1. bptr'.avail = bptr.avail - z /\ bptr'.sav_avail = 0
        BY <1>0, <2>1, <2>3, IncrIsGood
      <3>2. z \in 0 .. bptr.avail + bptr.sav_avail
        BY <2>1, <2>3 DEF CanIncr
      <3> QED  BY <2>1, <2>3, <3>1, <3>2 DEF Flat!Next, Flat!BadBlob
    <2>4. CASE Fail("lzf")
      <3>1. 0 \in 0 .. bptr.avail + bptr.sav_avail
        BY <2>1
      <3> QED  BY <2>1, <2>4, <3>1 DEF Fail, Flat!Next, Flat!BadBlob
    <2> QED  BY <1>4, <2>2, <2>3, <2>4 DEF Unzip
  <1>5. ASSUME KeyDone PROVE UNCHANGED Flat!vars
    BY <1>0, <1>5, FreeIsGood DEF KeyDone, Flat!vars
  <1>6. CASE UNCHANGED vars
    BY <1>6 DEF vars, Flat!vars
  <1> QED  BY <1>1, <1>2, <1>3, <1>4, <1>5, <1>6 DEF Next

(* The cursor implements the flat stream of rdb.adoc: a decoder that looks *)
(* after every string is refused only when the bytes really are not there. *)
THEOREM FlatRefinement == ASSUME ~ RawAfterBlob PROVE Spec => FlatSpec
  <1>1. Init => Flat!Init
    BY BufptrAssumption DEF Init, NewBufptr, Flat!Init
  <1>2. IInv /\ [Next]_vars => [Flat!Next]_(Flat!vars)
    BY StepFlat
  <1> QED  BY <1>1, <1>2, Invariance, PTL DEF Spec, FlatSpec, Flat!Spec
=============================================================================
