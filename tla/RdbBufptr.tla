------------------------------ MODULE RdbBufptr ------------------------------
(***************************************************************************)
(* The cursor of RdbCursor driven by any decoder: headers, fields, blobs   *)
(* and the end of a key in every order, in a main buffer of Size bytes.    *)
(* The bytes are abstracted: where the cursor is and how much it may still *)
(* hand out is all that its methods decide.                                *)
(***************************************************************************)
EXTENDS RdbCursor

CONSTANTS Size,         \* bytes in the main buffer
          MaxHdr,       \* longest length header (MAX_RDB_HDRLEN)
          MaxLen,       \* longest blob, compressed or expanded
          RawAfterBlob  \* may a caller incr() past a spent block without look()?

ASSUME BufptrAssumption == /\ Size \in Nat
                           /\ MaxLen \in Nat
                           /\ MaxHdr \in 1 .. MaxLen
                           /\ RawAfterBlob \in BOOLEAN

-----------------------------------------------------------------------------
VARIABLES bptr,  \* the cursor
          got,   \* history: bytes of the main buffer handed out so far
          rc     \* "ok", or the error the decoder returned

vars == <<bptr, got, rc>>

Init == bptr = NewBufptr(Size) /\ got = 0 /\ rc = "ok"

Fail(e) == rc' = e /\ UNCHANGED <<bptr, got>>

(* Advance p by n bytes, p being the cursor after a look(), if any. *)
Advance(p, n) ==
  IF CanIncr(p, n)
  THEN /\ bptr' = Incr(p, n)
       /\ got' = IF p.buf = Main THEN got + n ELSE got
       /\ UNCHANGED rc
  ELSE rc' = "trunc" /\ bptr' = p /\ UNCHANGED got

(* RdbLength::decode: look() at the header, then step over its h bytes. *)
DecodeLen(h) == /\ rc = "ok"
                /\ bptr.buf = Main \/ bptr.avail = 0
                /\ Advance(Look(bptr), h)

(* A fixed-size field read with a bare incr(): times, scores, strings. *)
Read(n) == /\ rc = "ok"
           /\ bptr.buf = Main \/ (RawAfterBlob /\ bptr.avail = 0)
           /\ Advance(bptr, n)

(* Bytes of the string that was just expanded.  A decoder takes all of it  *)
(* before it reads on (see DecodeLen and Read), but one whose own count is *)
(* short, as an intset has one, ends the key with some of it left.         *)
TakeBlob(n) == /\ rc = "ok"
               /\ bptr.buf > 0 /\ n <= bptr.avail
               /\ Advance(bptr, n)

(* decompress(); a blob that is cut off or corrupt is RDB_ERR_LZF.  The    *)
(* header was read from the main buffer, so that is where the blob is.     *)
Unzip(zlen, len) ==
  /\ rc = "ok"
  /\ bptr.buf = Main
  /\ \/ /\ CanIncr(bptr, zlen)
        /\ bptr' = Decompress(bptr, zlen, len)
        /\ got' = got + zlen
        /\ UNCHANGED rc
     \/ /\ CanIncr(bptr, zlen)      \* lzf_decompress() fails
        /\ bptr' = Incr(bptr, zlen)
        /\ got' = got + zlen
        /\ rc' = "lzf"
     \/ ~ CanIncr(bptr, zlen) /\ Fail("lzf")

(* The end of a key: the main loop frees the blocks the key needed,        *)
(* wherever the cursor is.  If it is in one of them, with bytes left, it   *)
(* stays there.  What it then reads is undefined: it is given the number   *)
(* of bytes that it takes to be there, and no header out of them.          *)
KeyDone == /\ rc = "ok"
           /\ bptr' = FreeAlloced(bptr)
           /\ UNCHANGED <<got, rc>>

Next == \/ \E h \in 1 .. MaxHdr : DecodeLen(h)
        \/ \E n \in 0 .. MaxLen : Read(n)
        \/ \E n \in 1 .. MaxLen : TakeBlob(n)
        \/ \E z, n \in 1 .. MaxLen : Unzip(z, n)
        \/ KeyDone

Spec == Init /\ [][Next]_vars

-----------------------------------------------------------------------------
(* Bytes of the main buffer that the cursor can still reach. *)
MainLeft(p) == IF p.buf = Main THEN p.avail ELSE p.sav_avail

Bufptr == [buf : Int, avail : Nat, offset : Nat,
           sav : {Null, Main}, sav_avail : Nat, sav_offset : Nat,
           alloced : Nat]

(* Type invariant: no size ever goes below zero in a size_t. *)
TypeOK == bptr \in Bufptr /\ got \in Nat /\ rc \in {"ok", "trunc", "lzf"}

(* No byte of the main buffer is lost or handed out twice, however many    *)
(* strings are expanded on the way: decompress() parks all of the rest and *)
(* look() and free_alloced() bring all of it back.                         *)
Accounted == got + MainLeft(bptr) = Size

(* The cursor is not inside a block that free_alloced() has freed. *)
LiveCursor == bptr.buf <= bptr.alloced

(* free_alloced() is the only way into a freed block, and that only when   *)
(* the key ends with bytes of its block unread; then they are all that is  *)
(* left of that block, and the first read behind them is from the main     *)
(* buffer again.  Whatever else the callers do the cursor stays live.      *)
LeftBehind == /\ bptr.buf > 0 /\ bptr.avail > 0
              /\ bptr' = Freed(bptr)
StaysLive == [][/\ LiveCursor /\ ~ LiveCursor' => LeftBehind
                /\ ~ LiveCursor /\ bptr'.buf # bptr.buf => bptr.avail = 0 /\ LiveCursor']_vars

(* While the main buffer is current, or parked, its offset is the number   *)
(* of its bytes that were consumed.                                        *)
OffsetTracks == /\ bptr.buf = Main => bptr.offset = got
                /\ bptr.sav = Main => bptr.sav_offset = got

(* An expanded block is pushed on the main buffer, never on another block  *)
(* and never on a buffer that is still parked.                             *)
OneDeep == bptr.buf = Main => bptr.sav = Null /\ bptr.sav_avail = 0

(* The cursor is the flat stream of rdb.adoc: the bytes left are those of  *)
(* the block in hand and those of the main buffer behind it.  It holds for *)
(* the callers that look() after every string (RawAfterBlob = FALSE).      *)
Flat == INSTANCE RdbFlatStream
          WITH left <- bptr.avail + bptr.sav_avail, status <- rc

FlatSpec == Flat!Spec
=============================================================================
