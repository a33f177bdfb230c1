------------------------------ MODULE RdbCursor ------------------------------
(***************************************************************************)
(* struct RdbBufptr as a value, and its methods as operators on it.        *)
(*                                                                         *)
(* buf points into the buffer the caller gave (Main), into the k-th block  *)
(* that an LZF string was expanded to, or nowhere (Null); a pointer into a *)
(* buffer is the buffer and the offset, which incr() moves together.       *)
(* Expanding a string moves the cursor into the new block and parks what   *)
(* is left of the main buffer in sav; look() or free_alloced() bring it    *)
(* back.                                                                   *)
(***************************************************************************)
EXTENDS Integers

Null == -1
Main == 0

NewBufptr(sz) ==
  [buf |-> Main, avail |-> sz, offset |-> 0,
   sav |-> Null, sav_avail |-> 0, sav_offset |-> 0, alloced |-> 0]

(* Each operator named after another one, as in CanIncr_OffByOne, is that  *)
(* operator with one mistake in it, to test the properties with.           *)
CanIncr_OffByOne(p, n) == n <= p.avail + 1
CanIncr(p, n) == n <= p.avail

Incr(p, n) == [p EXCEPT !.avail = @ - n, !.offset = @ + n]

(* Back to the parked main buffer. *)
Popped_KeepsOffset(p) == [p EXCEPT !.buf = p.sav, !.avail = p.sav_avail,
                                   !.sav = Null, !.sav_avail = 0]
Popped(p) == [buf |-> p.sav, avail |-> p.sav_avail, offset |-> p.sav_offset,
              sav |-> Null, sav_avail |-> 0, sav_offset |-> 0,
              alloced |-> p.alloced]

Look_NeverPops(p) == p
Look(p) == IF p.avail = 0 /\ p.sav_avail > 0 THEN Popped(p) ELSE p

(* The main buffer is parked only if something is left of it. *)
Parked_OffByOne(p) == IF p.avail > 1
                      THEN [p EXCEPT !.sav = p.buf, !.sav_avail = p.avail,
                                     !.sav_offset = p.offset]
                      ELSE p
Parked(p) == IF p.avail > 0
             THEN [p EXCEPT !.sav = p.buf, !.sav_avail = p.avail,
                            !.sav_offset = p.offset]
             ELSE p

(* zlen bytes of the stream replaced by a fresh block of len bytes. *)
Decompress(p, zlen, len) ==
  LET q == Parked(Incr(p, zlen))
  IN  [buf |-> q.alloced + 1, avail |-> len, offset |-> 0,
       sav |-> q.sav, sav_avail |-> q.sav_avail, sav_offset |-> q.sav_offset,
       alloced |-> q.alloced + 1]

Freed(p) == [p EXCEPT !.alloced = 0]

FreeAlloced_NoPop(p) == Freed(p)
FreeAlloced(p) == CASE p.alloced = 0 -> p
                    [] p.alloced # 0 /\ p.avail = 0 -> Popped(Freed(p))
                    [] p.alloced # 0 /\ p.avail # 0 -> Freed(p)
=============================================================================
