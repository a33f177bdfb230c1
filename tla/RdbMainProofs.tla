---------------------------- MODULE RdbMainProofs ----------------------------
(***************************************************************************)
(* For every set of well-formed inputs and every size of the window: the   *)
(* cursor is never left in a block that was freed, and the window is       *)
(* always the part of the input that main() says it is.                    *)
(***************************************************************************)
EXTENDS RdbReadProofs, RdbRoundTrip, WellFoundedInduction

(***************************************************************************)
(* The inductive invariant.  LiveBlocks says where the cursor may be, but  *)
(* not why: that free_alloced() finds all of a block read, or the cursor   *)
(* back in the main buffer, rests on how much of a block may be left at    *)
(* each place in the decoder.  WindowTracks rests on it, too: what is left *)
(* of the window is moved by the cursor's offset, which only counts if the *)
(* cursor is in the window.                                                *)
(***************************************************************************)
PcOK == /\ pc \in {"hdr", "len", "start", "body", "keydone", "error", "done"}
        /\ rc \in Codes
        /\ rc # "ok" => pc \in {"error", "done"}

DecOK == /\ DOMAIN dec = {"data", "filter", "type", "key", "key_block", "rlen",
                          "opened", "is_rdb_file"}
         /\ dec.type \in Types \cup {"bad"}
         /\ dec.data \in BOOLEAN
         /\ IsSize(dec.rlen)
         /\ dec.key_block \in Int

LoopOK == /\ DOMAIN loop = {"num", "cnt", "part", "entry", "group", "pend",
                            "cons", "conp"}
          /\ loop.cnt \in Nat /\ loop.num \in Nat

(* The window is what of the input is behind start_offset, and rest is     *)
(* what is behind the window.  Until stdin is at its end it is full.       *)
WindowInv == /\ input \in Inputs
             /\ start_offset \in Nat
             /\ Len(win) \in Nat
             /\ start_offset + Len(win) <= Len(input.cells)
             /\ win = SubSeq(input.cells, start_offset + 1, start_offset + Len(win))
             /\ rest = SubSeq(input.cells, start_offset + Len(win) + 1, Len(input.cells))
             /\ input_eof \in BOOLEAN
             /\ ~ input_eof => Len(win) = BufSize

CursorInv == /\ GoodHeap(heap)
             /\ \E e \in 0 .. Len(win) : /\ ~ input_eof => e = Len(win)
                                         /\ GoodCursor(bptr, heap, e)

(* Until the file or the dump is opened nothing has been read.  A window   *)
(* that does not begin as a file does holds a whole dump.                  *)
OpenInv == ~ dec.opened =>
             /\ bptr = NewBufptr(Len(win)) /\ heap = <<>>
             /\ pc \in {"hdr", "error", "done"}
             /\ win # <<>> /\ win[1][1] # "magic" => input_eof /\ win = input.cells

(* What may be left of a block: all of it, when it is the value itself,    *)
(* and a cell for each element still to be read, if a damaged input has a  *)
(* compressed string in place of the number of elements.                   *)
WholeValue == /\ dec.rlen[1] = "lzf" /\ bptr.offset = 0
              /\ bptr.avail = LenOf(dec.rlen)

PlaceInv ==
  /\ pc # "done" => bptr.buf # Null
  /\ pc \in {"hdr", "len", "keydone"} => Within(bptr, 0)
  /\ pc = "start" => Within(bptr, 0) \/ WholeValue
  /\ pc = "body" =>
       /\ Within(bptr, 0) \/ dec.type \in Loops \cup Streams \/ WholeValue
       /\ Within(bptr, loop.cnt) \/ dec.type \notin Loops \cup Streams
       /\ Within(bptr, 0) \/ loop.part = "blocks"
       /\ dec.type \in Modules => dec.rlen[1] = "len"

(* The key of a dump is not in it. *)
KeyInv == /\ ~ dec.is_rdb_file => dec.key_block = 0
          /\ pc \in {"start", "body", "keydone"} => dec.key_block <= Len(heap)

IInv == /\ PcOK /\ DecOK /\ LoopOK /\ WindowInv /\ CursorInv
        /\ OpenInv /\ PlaceInv /\ KeyInv

-----------------------------------------------------------------------------
(* The window. *)

(* What a part of a sequence holds.                                        *)
LEMMA PartOf ==
  ASSUME NEW S, NEW s \in Seq(S), NEW i \in Nat, NEW j \in Nat, i + j <= Len(s)
  PROVE  /\ SubSeq(s, i + 1, i + j) \in Seq(S)
         /\ Len(SubSeq(s, i + 1, i + j)) = j
         /\ \A k \in 1 .. j : SubSeq(s, i + 1, i + j)[k] = s[i + k]
  <1>1. \A k \in i + 1 .. i + j : s[k] \in S
    OBVIOUS
  <1>2. (IF i + 1 <= i + j THEN (i + j) - (i + 1) + 1 ELSE 0) = j
    OBVIOUS
  <1>3. i + 1 \in Int /\ i + j \in Int /\ (i + j) - (i + 1) + 1 = j
    OBVIOUS
  <1>4. \A k \in 1 .. j : (i + 1) + k - 1 = i + k
    OBVIOUS
  <1> QED  BY <1>1, <1>2, <1>3, <1>4, SubSeqProperties

(* Any part of a well-formed input is well-formed. *)
LEMMA WellFormedPart ==
  ASSUME NEW s, WellFormed(s), NEW i \in Nat, NEW j \in Nat, i + j <= Len(s)
  PROVE  WellFormed(SubSeq(s, i + 1, i + j))
  <1> DEFINE S == {s[k] : k \in DOMAIN s}
             t == SubSeq(s, i + 1, i + j)
  <1>1. s \in Seq(S) /\ Len(s) \in Nat
    BY DEF WellFormed, Cells
  <1> HIDE DEF S
  <1>2. /\ t \in Seq(S) /\ Len(t) = j
        /\ \A k \in 1 .. j : t[k] = s[i + k]
    BY <1>1, PartOf
  <1> HIDE DEF t
  <1>3. t \in Seq({t[k] : k \in DOMAIN t})
    BY <1>2, SeqOfItsOwn
  <1>4. \A k \in 1 .. j : i + k \in 1 .. Len(s)
    BY <1>1
  <1>5. \A k \in 1 .. j - 1 : /\ i + k \in 1 .. Len(s) - 1 /\ k \in 1 .. j
                              /\ k + 1 \in 1 .. j /\ i + (k + 1) = (i + k) + 1
    BY <1>1
  <1>6. \A k \in 1 .. Len(s) : CellOK(s[k])
    BY DEF WellFormed, Cells
  <1>7. \A k \in 1 .. Len(s) - 1 :
          s[k][1] = "lzf" /\ s[k + 1][1] = "zip" =>
            BlockOK(s[k + 1][2]) /\ Len(s[k + 1][2]) = s[k][3]
    BY DEF WellFormed
  <1>8. \A k \in 1 .. j : CellOK(t[k])
    BY <1>2, <1>4, <1>6
  <1>9. \A k \in 1 .. j - 1 :
          t[k][1] = "lzf" /\ t[k + 1][1] = "zip" =>
            BlockOK(t[k + 1][2]) /\ Len(t[k + 1][2]) = t[k][3]
    <2> SUFFICES ASSUME NEW k \in 1 .. j - 1, t[k][1] = "lzf", t[k + 1][1] = "zip"
                 PROVE  BlockOK(t[k + 1][2]) /\ Len(t[k + 1][2]) = t[k][3]
      OBVIOUS
    <2> DEFINE n == i + k
    <2>1. n \in 1 .. Len(s) - 1 /\ k \in 1 .. j /\ k + 1 \in 1 .. j /\ i + (k + 1) = n + 1
      BY <1>5
    <2> HIDE DEF n
    <2>2. t[k] = s[n] /\ t[k + 1] = s[n + 1]
      BY <1>2, <2>1 DEF n
    <2> QED  BY <1>7, <2>1, <2>2
  <1> QED  BY <1>2, <1>3, <1>8, <1>9 DEF WellFormed, Cells, t

(* The window and its input are well-formed.                               *)
LEMMA WindowOK ==
  ASSUME WindowInv
  PROVE  WellFormed(win) /\ WellFormed(input.cells) /\ Footed(input.cells)
  <1>1. WellFormed(input.cells) /\ Footed(input.cells)
    BY InputsAssumption DEF WindowInv
  <1> QED  BY <1>1, WellFormedPart DEF WindowInv

-----------------------------------------------------------------------------
(* The first states. *)

(* In the first window nothing has been read.                              *)
LEMMA InitIInv == Init => IInv
  <1> SUFFICES ASSUME Init PROVE IInv
    OBVIOUS
  <1> DEFINE c == input.cells
             n == FirstFill(input)
  <1>1. input \in Inputs /\ WellFormed(c)
    BY InputsAssumption DEF Init
  <1>2. c \in Seq({c[i] : i \in DOMAIN c}) /\ Len(c) \in Nat
    BY <1>1 DEF WellFormed, Cells
  <1>3. /\ n \in Nat /\ n <= Len(c)
        /\ IsFile(c) /\ n # Len(c) => n = BufSize
        /\ ~ IsFile(c) => n = Len(c)
        /\ IsFile(c) => n # 0
    <2>1. BufSize \in Nat /\ BufSize # 0
      BY MainAssumption
    <2>2. IsFile(c) => Len(c) # 0
      BY <1>2 DEF IsFile
    <2> HIDE DEF c
    <2> QED  BY <1>2, <2>1, <2>2 DEF FirstFill, Smaller, c
  <1>4. /\ win = SubSeq(c, 1, n)
        /\ rest = SubSeq(c, n + 1, Len(c))
        /\ input_eof = ~ (input.stdin /\ IsFile(c) /\ n = BufSize)
        /\ bptr = NewBufptr(n)
    BY Zenon DEF Init
  <1>5. /\ heap = <<>> /\ dec = NewDecode(input.filter) /\ loop = NewLoop(0)
        /\ pc = "hdr" /\ rc = "ok" /\ start_offset = 0
    BY DEF Init
  <1> HIDE DEF n, c
  <1>6. Len(win) = n /\ (n # 0 => win[1] = c[1]) /\ win = SubSeq(c, 0 + 1, 0 + n)
    <2>1. 0 + n <= Len(c) /\ 0 \in Nat
      BY <1>2, <1>3
    <2> DEFINE z == 0
    <2>2. z \in Nat /\ z + n <= Len(c)
      BY <2>1
    <2> HIDE DEF z
    <2>3. Len(SubSeq(c, z + 1, z + n)) = n
          /\ \A k \in 1 .. n : SubSeq(c, z + 1, z + n)[k] = c[z + k]
      BY <1>2, <1>3, <2>2, PartOf
    <2> QED  BY <1>3, <1>4, <2>3 DEF z
  <1>7. WindowInv
    <2>1. input_eof \in BOOLEAN /\ (~ input_eof => n = BufSize)
      BY <1>4
    <2>2. win = SubSeq(c, 0 + 1, 0 + Len(win)) /\ 0 + Len(win) <= Len(c)
      BY <1>2, <1>3, <1>6
    <2>3. rest = SubSeq(c, 0 + Len(win) + 1, Len(c))
      BY <1>3, <1>4, <1>6
    <2> QED  BY <1>1, <1>3, <1>5, <1>6, <2>1, <2>2, <2>3 DEF WindowInv, c
  <1>8. CursorInv
    <2>1. GoodCursor(bptr, heap, n)
      BY <1>3, <1>4, <1>5 DEF GoodCursor, NewBufptr, Bufptr, Null, Main
    <2> QED  BY <1>3, <1>5, <1>6, <2>1, NoBlocks DEF CursorInv
  <1>9. OpenInv
    <2>1. ASSUME win # <<>>, win[1][1] # "magic" PROVE input_eof /\ win = c
      <3>1. ~ IsFile(c)
        BY <1>3, <1>6, <2>1 DEF IsFile
      <3>2. n = Len(c)
        BY <1>3, <3>1
      <3>3. SubSeq(c, 1, Len(c)) = c
        BY <1>2
      <3> QED  BY <1>4, <3>1, <3>2, <3>3
    <2> QED  BY <1>4, <1>5, <1>6, <2>1 DEF OpenInv, c
  <1>10. PcOK /\ LoopOK
    BY <1>5 DEF PcOK, LoopOK, Codes, NewLoop
  <1>11. DecOK
    BY <1>5 DEF DecOK, NewDecode, IsSize, LenOf, NoSize
  <1>12. PlaceInv /\ KeyInv
    BY <1>4, <1>5 DEF PlaceInv, KeyInv, Within, NewBufptr, NewDecode, Null, Main
  <1> QED  BY <1>7, <1>8, <1>9, <1>10, <1>11, <1>12 DEF IInv

-----------------------------------------------------------------------------
(* The steps of the decoder.  They leave the window and the rest of stdin  *)
(* alone.                                                                  *)
Aside == UNCHANGED <<win, input, rest, input_eof, start_offset>>

(* A read begins where the last step ended. *)
LEMMA StartReady ==
  ASSUME IInv, pc # "done", NEW e, GoodCursor(bptr, heap, e), NEW n \in Nat,
         Within(bptr, n), NEW size
  PROVE  /\ Ready(Start(size), e, n, Len(heap))
         /\ Start(size).vals = <<>> /\ Start(size).rc = "ok"
         /\ Start(size).len = size
         /\ Start(size).p = bptr /\ Start(size).heap = heap
  <1>1. GoodHeap(heap) /\ bptr.buf # Null
    BY DEF IInv, CursorInv, PlaceInv
  <1>2. Len(heap) \in Nat
    BY <1>1 DEF GoodHeap
  <1> QED  BY <1>1, <1>2 DEF Start, Ready, Core, Codes

(* What a step leaves in good order wherever its read ended. *)
LEMMA Moved ==
  ASSUME IInv, Aside, NEW r, NEW to \in {"hdr", "len", "start", "body", "keydone"},
         NEW e \in 0 .. Len(win), ~ input_eof => e = Len(win),
         Core(r, e, Len(heap)), Return(r, to),
         dec'.opened
  PROVE  /\ WindowInv' /\ CursorInv' /\ OpenInv' /\ PcOK'
         /\ bptr' = r.p /\ bptr'.buf # Null /\ Len(heap) <= Len(heap')
         /\ pc' = (IF r.rc = "ok" THEN to ELSE "error")
         /\ bptr' \in Bufptr
  <1>1. WindowInv'
    BY DEF Aside, IInv, WindowInv
  <1>2. /\ bptr' = r.p /\ heap' = r.heap /\ rc' = r.rc
        /\ pc' = (IF r.rc = "ok" THEN to ELSE "error")
    BY DEF Return
  <1>3. /\ GoodCursor(r.p, r.heap, e) /\ GoodHeap(r.heap) /\ r.p.buf # Null
        /\ r.rc \in Codes /\ Len(heap) <= Len(r.heap)
    BY DEF Core
  <1>4. CursorInv'
    BY <1>2, <1>3 DEF Aside, CursorInv
  <1>5. OpenInv'
    BY DEF OpenInv
  <1>6. PcOK'
    BY <1>2, <1>3 DEF PcOK
  <1> QED  BY <1>1, <1>2, <1>3, <1>4, <1>5, <1>6 DEF GoodCursor

(* A step to a place where nothing may be left of a block. *)
LEMMA Rests ==
  ASSUME IInv, Aside, NEW r, NEW to \in {"hdr", "len", "keydone"},
         NEW e \in 0 .. Len(win), ~ input_eof => e = Len(win),
         Core(r, e, Len(heap)), Return(r, to),
         r.rc = "ok" => Within(r.p, 0),
         to = "keydone" => pc = "body",
         dec.opened, dec'.opened = dec.opened, dec'.key_block = dec.key_block,
         dec'.is_rdb_file = dec.is_rdb_file, DecOK', loop' = loop
  PROVE  IInv'
  <1>1. /\ WindowInv' /\ CursorInv' /\ OpenInv' /\ PcOK'
        /\ bptr' = r.p /\ bptr'.buf # Null /\ Len(heap) <= Len(heap')
        /\ pc' = (IF r.rc = "ok" THEN to ELSE "error")
    BY Moved
  <1>2. PlaceInv'
    BY <1>1 DEF PlaceInv
  <1>3. KeyInv'
    <2>1. ASSUME pc' = "keydone" PROVE dec.key_block <= Len(heap)
      BY <1>1, <2>1 DEF IInv, KeyInv
    <2>2. Len(heap) \in Nat /\ Len(heap') \in Nat
      BY <1>1 DEF IInv, CursorInv, GoodHeap
    <2>3. dec.key_block \in Int
      BY DEF IInv, DecOK
    <2>4. ~ dec'.is_rdb_file => dec'.key_block = 0
      BY DEF IInv, KeyInv
    <2> QED  BY <1>1, <2>1, <2>2, <2>3, <2>4 DEF KeyInv
  <1>4. LoopOK'
    BY DEF IInv, LoopOK
  <1> QED  BY <1>1, <1>2, <1>3, <1>4 DEF IInv

(* A step of a loop over elements. *)
LEMMA GoesOn ==
  ASSUME IInv, Aside, NEW r, NEW e \in 0 .. Len(win), ~ input_eof => e = Len(win),
         Core(r, e, Len(heap)), Return(r, "body"), pc = "body",
         r.rc = "ok" => \/ Within(r.p, 0)
                        \/ /\ dec.type \in Loops \cup Streams
                           /\ loop'.part = "blocks" /\ Within(r.p, loop'.cnt),
         LoopOK', dec' = dec
  PROVE  IInv'
  <1>0. dec.opened
    BY DEF IInv, OpenInv
  <1>1. /\ WindowInv' /\ CursorInv' /\ OpenInv' /\ PcOK'
        /\ bptr' = r.p /\ bptr'.buf # Null /\ Len(heap) <= Len(heap')
        /\ pc' = (IF r.rc = "ok" THEN "body" ELSE "error")
        /\ bptr' \in Bufptr
    BY <1>0, Moved
  <1>2. PlaceInv'
    <2>1. Within(bptr', 0) => Within(bptr', loop'.cnt)
      BY <1>1 DEF Within, LoopOK, Bufptr
    <2>2. dec.type \in Modules => dec.rlen[1] = "len"
      BY DEF IInv, PlaceInv
    <2> QED  BY <1>1, <2>1, <2>2 DEF PlaceInv
  <1>3. KeyInv'
    <2>1. dec.key_block <= Len(heap)
      BY DEF IInv, KeyInv
    <2>2. Len(heap) \in Nat /\ Len(heap') \in Nat
      BY <1>1 DEF IInv, CursorInv, GoodHeap
    <2>3. dec.key_block \in Int
      BY DEF IInv, DecOK
    <2>4. ~ dec.is_rdb_file => dec.key_block = 0
      BY DEF IInv, KeyInv
    <2> QED  BY <1>1, <2>1, <2>2, <2>3, <2>4 DEF KeyInv
  <1>4. DecOK'
    BY DEF IInv, DecOK
  <1> QED  BY <1>1, <1>2, <1>3, <1>4 DEF IInv


(* The end of the buffer, as the decoder has it. *)
LEMMA SomeEnd ==
  ASSUME IInv
  PROVE  /\ \E e \in 0 .. Len(win) : /\ ~ input_eof => e = Len(win)
                                     /\ GoodCursor(bptr, heap, e)
         /\ Len(win) \in Nat /\ Len(heap) \in Nat /\ bptr \in Bufptr
         /\ WellFormed(win)
  <1>1. WellFormed(win)
    BY WindowOK DEF IInv
  <1>2. Len(heap) \in Nat
    BY DEF IInv, CursorInv, GoodHeap
  <1> QED  BY <1>1, <1>2 DEF IInv, CursorInv, WindowInv, GoodCursor

(* A read of an element.  It may begin with n cells of a block, whatever n *)
(* is, and if it is not refused it has taken one of them.                  *)
TakesOne(r) ==
  \A e \in 0 .. Len(win), n \in Nat :
    Ready(Start(NoSize), e, n, Len(heap)) =>
      /\ Ready(r, e, n, Len(heap))
      /\ r.rc = "ok" => Within(r.p, Less(n))

(* An element that took a cell leaves no more of a block than elements.    *)
LEMMA ElementKeeps ==
  ASSUME IInv, Aside, NEW r, TakesOne(r), pc = "body",
         dec.type \in Loops \cup Streams, loop.cnt > 0,
         Return(r, "body"), dec' = dec, LoopOK',
         r.rc = "ok" => loop'.cnt = loop.cnt - 1 /\ loop'.part = loop.part
  PROVE  IInv'
  <1>1. PICK e \in 0 .. Len(win) : /\ ~ input_eof => e = Len(win)
                                   /\ GoodCursor(bptr, heap, e)
    BY SomeEnd
  <1>2. loop.cnt \in Nat /\ 0 \in Nat
    BY DEF IInv, LoopOK
  <1>3. Within(bptr, loop.cnt) /\ (Within(bptr, 0) \/ loop.part = "blocks")
    BY DEF IInv, PlaceInv
  <1>4. CASE Within(bptr, 0)
    <2>1. Ready(Start(NoSize), e, 0, Len(heap))
      <3> DEFINE z == 0
      <3>1. z \in Nat /\ Within(bptr, z) /\ pc # "done"
        BY <1>4
      <3> HIDE DEF z
      <3>2. Ready(Start(NoSize), e, z, Len(heap))
        BY <1>1, <3>1, StartReady
      <3> QED  BY <3>2 DEF z
    <2>2. Ready(r, e, 0, Len(heap))
      BY <1>2, <2>1 DEF TakesOne
    <2>3. Core(r, e, Len(heap)) /\ Within(r.p, 0)
      BY <2>2 DEF Ready
    <2> QED  BY <1>1, <2>3, GoesOn
  <1>5. CASE loop.part = "blocks"
    <2>1. Ready(Start(NoSize), e, loop.cnt, Len(heap))
      BY <1>1, <1>2, <1>3, StartReady
    <2>2. /\ Ready(r, e, loop.cnt, Len(heap))
          /\ r.rc = "ok" => Within(r.p, Less(loop.cnt))
      BY <1>2, <2>1 DEF TakesOne
    <2>3. Less(loop.cnt) = loop.cnt - 1
      BY <1>2 DEF Less
    <2>4. Core(r, e, Len(heap))
      BY <2>2 DEF Ready
    <2> QED  BY <1>1, <1>5, <2>2, <2>3, <2>4, GoesOn
  <1> QED  BY <1>3, <1>4, <1>5


(* What main() keeps is not touched by the decoder. *)
Outside == UNCHANGED <<input, rest, input_eof, start_offset>>

(* A read of one element, and of two in a row. *)
LEMMA ReadElement ==
  ASSUME IInv
  PROVE  /\ TakesOne(decode_rlen(Start(NoSize)))
         /\ TakesOne(decode_rlen(decode_rlen(Start(NoSize))))
         /\ TakesOne(Score(decode_rlen(Start(NoSize))))
  <1> DEFINE s == Start(NoSize)
             r == decode_rlen(s)
  <1> SUFFICES ASSUME NEW e \in 0 .. Len(win), NEW n \in Nat, Ready(s, e, n, Len(heap))
               PROVE  /\ Ready(r, e, n, Len(heap))
                      /\ r.rc = "ok" => Within(r.p, Less(n))
                      /\ Ready(decode_rlen(r), e, n, Len(heap))
                      /\ decode_rlen(r).rc = "ok" => Within(decode_rlen(r).p, Less(n))
                      /\ Ready(Score(r), e, n, Len(heap))
                      /\ Score(r).rc = "ok" => Within(Score(r).p, Less(n))
    BY DEF TakesOne
  <1> HIDE DEF s
  <1>1. Len(heap) \in Nat /\ WellFormed(win)
    BY SomeEnd
  <1>2. /\ Ready(r, e, n, Len(heap))
        /\ r.rc = "ok" => Within(r.p, Less(n))
    BY <1>1, decode_rlenKeeps
  <1>3. Less(n) \in Nat
    BY DEF Less
  <1> HIDE DEF r
  <1>4. CASE r.rc = "ok"
    <2>1. Ready(r, e, Less(n), Len(heap))
      BY <1>2, <1>4 DEF Ready
    <2>2. Ready(decode_rlen(r), e, Less(n), Len(heap))
      BY <1>1, <1>3, <2>1, decode_rlenKeeps
    <2>3. Ready(Score(r), e, Less(n), Len(heap))
      BY <1>1, <1>3, <2>1, ScoreKeeps
    <2>4. Ready(decode_rlen(r), e, n, Len(heap))
      BY <1>1, <1>2, decode_rlenKeeps
    <2>5. Ready(Score(r), e, n, Len(heap))
      BY <1>1, <1>2, ScoreKeeps
    <2> QED  BY <1>2, <2>2, <2>3, <2>4, <2>5 DEF Ready
  <1>5. CASE r.rc # "ok"
    <2>1. Score(r) = r
      BY <1>5, ScoreStops
    <2>2. /\ Ready(decode_rlen(r), e, n, Len(heap))
          /\ decode_rlen(r).rc # "ok"
      BY <1>1, <1>2, <1>5, decode_rlenKeeps
    <2> QED  BY <1>2, <1>5, <2>1, <2>2
  <1> QED  BY <1>4, <1>5

(* An element of a loop over the value.                                    *)
LEMMA ElementIInv ==
  ASSUME IInv, Outside, HashEntry \/ SetMember \/ ListElem \/ ZSetMember
  PROVE  IInv'
  <1> DEFINE s == Start(NoSize)
             Took(r) == /\ pc = "body" /\ UNCHANGED <<win, dec>>
                        /\ dec.type \in Loops
                        /\ loop.cnt > 0
                        /\ Return(r, "body")
                        /\ loop' = [loop EXCEPT !.cnt = @ - 1, !.num = @ + 1]
  <1>1. \/ Took(decode_rlen(s)) \/ Took(decode_rlen(decode_rlen(s)))
        \/ Took(Score(decode_rlen(s)))
    BY DEF HashEntry, SetMember, ListElem, ZSetMember, Element, Body, Loops
  <1>2. ASSUME NEW r, Took(r), TakesOne(r) PROVE IInv'
    <2>1. loop'.cnt = loop.cnt - 1 /\ loop'.part = loop.part /\ LoopOK'
      BY <1>2 DEF IInv, LoopOK
    <2>2. Aside
      BY <1>2 DEF Aside, Outside
    <2> QED  BY <1>2, <2>1, <2>2, ElementKeeps
  <1> HIDE DEF Took
  <1> QED  BY <1>1, <1>2, ReadElement DEF s


(* What a read begins with does not depend on the length in hand. *)
LEMMA StartAnyLength ==
  ASSUME NEW e, NEW n, NEW m, NEW a, NEW b, Ready(Start(a), e, n, m)
  PROVE  Ready(Start(b), e, n, m)
  BY DEF Ready, Core, Start

(* A node of a quicklist is one string, packed or, in the older form,      *)
(* always so.  How many elements it had is known when it has been read.    *)
LEMMA QuickIInv ==
  ASSUME IInv, Outside, QuickNode
  PROVE  IInv'
  <1> DEFINE s == Start(NoSize)
             c == IF dec.type = "list_quicklist_2" THEN Length(s) ELSE Start(<<"len", 2>>)
             b == consume(Length(c))
             r == IF LenOf(c.len) = 2 THEN Listed(b)
                  ELSE Then(b, LAMBDA q : Failed(q, "notsup"))
             m == Len(IF r.rc = "ok" THEN Tail(r.vals[1][2]) ELSE <<>>)
  <1>1. /\ pc = "body" /\ UNCHANGED <<win, dec>>
        /\ dec.type \in Quick /\ loop.cnt > 0
        /\ Return(r, "body")
        /\ loop' = [loop EXCEPT !.cnt = @ - 1, !.num = IF m > 0 THEN @ + m - 1 ELSE @]
    BY DEF QuickNode, Body
  <1>2. \/ r = b /\ (b.rc = "ok" => init(b.vals[1][2]))
        \/ r = Failed(b, "notsup") \/ r = Failed(b, "trunc")
    <2>1. CASE LenOf(c.len) = 2
      <3>1. r = Listed(b)
        BY <2>1
      <3> HIDE DEF r, b
      <3> QED  BY <3>1, ListedIs
    <2>2. CASE LenOf(c.len) # 2
      <3>1. r = Then(b, LAMBDA q : Failed(q, "notsup"))
        BY <2>2
      <3> HIDE DEF r, b
      <3> QED  BY <3>1, SMT DEF Then
    <2> QED  BY <2>1, <2>2
  <1>3. b = Name(c)
    BY DEF Name
  <1>4. c = Length(s) \/ c = Start(<<"len", 2>>)
    OBVIOUS
  <1> HIDE DEF r, b, c, s
  <1>5. ASSUME NEW e \in 0 .. Len(win), NEW n \in Nat, Ready(s, e, n, Len(heap))
        PROVE  /\ Ready(r, e, n, Len(heap))
               /\ r.rc = "ok" => Within(r.p, Less(n)) /\ m \in Nat
    <2>1. Len(heap) \in Nat /\ WellFormed(win)
      BY SomeEnd
    <2>2. s.vals = <<>> /\ Start(<<"len", 2>>).vals = <<>>
      BY DEF s, Start
    <2>3. Ready(c, e, n, Len(heap)) /\ c.vals = <<>>
      <3>1. CASE c = Length(s)
        BY <1>5, <2>1, <2>2, <3>1, LengthKeeps
      <3>2. CASE c = Start(<<"len", 2>>)
        BY <1>5, <2>2, <3>2, StartAnyLength DEF s
      <3> QED  BY <1>4, <3>1, <3>2
    <2>4. /\ Ready(b, e, n, Len(heap))
          /\ b.rc = "ok" => Within(b.p, Less(n)) /\ OneMore(c, b)
      BY <1>3, <2>1, <2>3, NameKeeps
    <2>5. ASSUME NEW f \in {"notsup", "trunc"}, r = Failed(b, f)
          PROVE  Ready(r, e, n, Len(heap)) /\ r.rc # "ok"
      <3>1. f \in Codes /\ f # "ok"
        BY DEF Codes
      <3>2. Core(b, e, Len(heap)) /\ Within(b.p, n)
        BY <2>4 DEF Ready
      <3>3. Core(r, e, Len(heap)) /\ r.p = b.p /\ r.rc = f
        BY <2>5, <3>1, <3>2, FailedKeeps
      <3> QED  BY <3>1, <3>2, <3>3 DEF Ready
    <2>6. CASE r = b /\ (b.rc = "ok" => init(b.vals[1][2]))
      <3>2. ASSUME r.rc = "ok" PROVE m \in Nat
        <4>1. PICK x : x \in Seq({x[i] : i \in DOMAIN x}) /\ r.vals = Append(<<>>, <<"str", x>>)
          BY <2>3, <2>4, <2>6, <3>2 DEF OneMore
        <4>2. r.vals[1][2] = x
          BY <4>1
        <4>3. x # <<>>
          BY <2>6, <3>2, <4>2 DEF init
        <4>4. Len(Tail(x)) \in Nat
          BY <4>1, <4>3
        <4> QED  BY <3>2, <4>2, <4>4
      <3> QED  BY <2>4, <2>6, <3>2
    <2> QED  BY <1>2, <2>5, <2>6
  <1>6. TakesOne(r)
    BY <1>5 DEF TakesOne, s
  <1>7. m \in Nat
    <2>1. PICK e \in 0 .. Len(win) : GoodCursor(bptr, heap, e)
      BY SomeEnd
    <2>2. Within(bptr, loop.cnt) /\ loop.cnt \in Nat
      BY <1>1 DEF IInv, PlaceInv, LoopOK, Loops
    <2>3. Ready(s, e, loop.cnt, Len(heap))
      BY <1>1, <2>1, <2>2, StartReady DEF s
    <2>4. r.rc # "ok" => m = 0
      OBVIOUS
    <2> QED  BY <1>5, <2>2, <2>3, <2>4
  <1> HIDE DEF m
  <1>8. loop'.cnt = loop.cnt - 1 /\ loop'.part = loop.part /\ LoopOK'
    BY <1>1, <1>7 DEF IInv, LoopOK
  <1>9. Aside
    BY <1>1 DEF Aside, Outside
  <1> QED  BY <1>1, <1>6, <1>8, <1>9, ElementKeeps DEF Loops


-----------------------------------------------------------------------------
(* Streams. *)

(* A read that leaves no more of a block than it found. *)
Sound(r) ==
  \A e \in 0 .. Len(win), n \in Nat :
    Ready(Start(NoSize), e, n, Len(heap)) => Ready(r, e, n, Len(heap))

(* What the steps of a stream read leaves nothing of a block behind.       *)
LEMMA SoundReads ==
  ASSUME IInv
  PROVE  /\ Sound(Start(NoSize))
         /\ \A r : Sound(r) => Sound(Name(r)) /\ Sound(Count(r)) /\ Sound(Field(r))
         /\ \A r, c : Sound(r) /\ c \in Codes => Sound(Failed(r, c))
  <1>1. Len(heap) \in Nat /\ WellFormed(win)
    BY SomeEnd
  <1>2. ASSUME NEW r, Sound(r) PROVE Sound(Name(r)) /\ Sound(Count(r)) /\ Sound(Field(r))
    <2> SUFFICES ASSUME NEW e \in 0 .. Len(win), NEW n \in Nat,
                        Ready(Start(NoSize), e, n, Len(heap))
                 PROVE  /\ Ready(Name(r), e, n, Len(heap))
                        /\ Ready(Count(r), e, n, Len(heap))
                        /\ Ready(Field(r), e, n, Len(heap))
      BY DEF Sound
    <2>1. Ready(r, e, n, Len(heap))
      BY <1>2 DEF Sound
    <2> QED  BY <1>1, <2>1, NameKeeps, CountKeeps, FieldKeeps
  <1>3. ASSUME NEW r, Sound(r), NEW c \in Codes PROVE Sound(Failed(r, c))
    <2> SUFFICES ASSUME NEW e \in 0 .. Len(win), NEW n \in Nat,
                        Ready(Start(NoSize), e, n, Len(heap))
                 PROVE  Ready(Failed(r, c), e, n, Len(heap))
      BY DEF Sound
    <2>1. Core(r, e, Len(heap)) /\ Within(r.p, n)
      BY <1>3 DEF Sound, Ready
    <2> QED  BY <2>1, FailedKeeps DEF Ready
  <1> QED  BY <1>2, <1>3 DEF Sound

(* A step with nothing left of a block. *)
LEMMA RestStep ==
  ASSUME IInv, Aside, NEW r, Sound(r), pc = "body", Within(bptr, 0),
         Return(r, "body"), dec' = dec, LoopOK'
  PROVE  IInv'
  <1>1. PICK e \in 0 .. Len(win) : /\ ~ input_eof => e = Len(win)
                                   /\ GoodCursor(bptr, heap, e)
    BY SomeEnd
  <1> DEFINE z == 0
  <1>2. z \in Nat /\ Within(bptr, z) /\ pc # "done"
    OBVIOUS
  <1> HIDE DEF z
  <1>3. Ready(Start(NoSize), e, z, Len(heap))
    BY <1>1, <1>2, StartReady
  <1>4. Ready(r, e, z, Len(heap))
    BY <1>2, <1>3 DEF Sound
  <1>5. Core(r, e, Len(heap)) /\ Within(r.p, 0)
    BY <1>4 DEF Ready, z
  <1> QED  BY <1>1, <1>5, GoesOn

(* A listpack of a stream.                                                 *)
LEMMA StreamBlockIInv ==
  ASSUME IInv, Outside, StreamBlock
  PROVE  IInv'
  <1> DEFINE a == Start(NoSize)
             b == Name(a)
             r == Name(b)
             list == r.vals[2][2]
             f == [loop.entry EXCEPT !.id = Id(r.vals[1][2][1]), !.list = list]
             h == IF list = <<>> THEN f ELSE read_header(f)
             s == IF r.rc = "ok" /\ ~ h.ok THEN Failed(r, "hdr") ELSE r
  <1>1. /\ pc = "body" /\ UNCHANGED <<win, dec>> /\ dec.type \in Streams
        /\ loop.part = "blocks" /\ loop.cnt > 0
        /\ Return(s, "body")
        /\ loop' = IF s.rc = "ok" THEN [loop EXCEPT !.cnt = @ - 1, !.entry = h] ELSE loop
    BY DEF StreamBlock, Part, Body
  <1> HIDE DEF h, list, f
  <1>2. s = r \/ s = Failed(r, "hdr")
    OBVIOUS
  <1> HIDE DEF s, r, b, a
  <1>3. TakesOne(s)
    <2> SUFFICES ASSUME NEW e \in 0 .. Len(win), NEW n \in Nat, Ready(a, e, n, Len(heap))
                 PROVE  /\ Ready(s, e, n, Len(heap))
                        /\ s.rc = "ok" => Within(s.p, Less(n))
      BY DEF TakesOne, a
    <2>1. Len(heap) \in Nat /\ WellFormed(win)
      BY SomeEnd
    <2>2. Ready(b, e, n, Len(heap))
      BY <2>1, NameKeeps DEF b
    <2>3. /\ Ready(r, e, n, Len(heap))
          /\ r.rc = "ok" => Within(r.p, Less(n))
      BY <2>1, <2>2, NameKeeps DEF r
    <2>4. Core(r, e, Len(heap)) /\ Within(r.p, n)
      BY <2>3 DEF Ready
    <2>5. CASE s = Failed(r, "hdr")
      <3>1. Core(s, e, Len(heap)) /\ s.p = r.p /\ s.rc = "hdr"
        BY <2>4, <2>5, FailedKeeps DEF Codes
      <3> QED  BY <2>4, <3>1 DEF Ready
    <2> QED  BY <1>2, <2>3, <2>5
  <1>4. LoopOK' /\ (s.rc = "ok" => loop'.cnt = loop.cnt - 1 /\ loop'.part = loop.part)
    BY <1>1 DEF IInv, LoopOK
  <1>5. Aside
    BY <1>1 DEF Aside, Outside
  <1> QED  BY <1>1, <1>3, <1>4, <1>5, ElementKeeps

(* An entry is taken out of a listpack that has been read. *)
LEMMA StreamEntryIInv ==
  ASSUME IInv, Outside, StreamEntry
  PROVE  IInv'
  <1> DEFINE g == read_entry([loop.entry EXCEPT !.items = @ - 1])
             s == Start(NoSize)
             r == IF g.ok THEN s ELSE Failed(s, "trunc")
             live == ~ Flag(g, DELETED)
  <1>1. /\ pc = "body" /\ UNCHANGED <<win, dec>> /\ dec.type \in Streams
        /\ loop.part = "blocks"
        /\ Return(r, "body")
        /\ loop' = [loop EXCEPT !.entry = g, !.num = IF live THEN @ + 1 ELSE @]
    BY DEF StreamEntry, Part, Body
  <1> HIDE DEF g, live
  <1>2. r = s \/ r = Failed(s, "trunc")
    OBVIOUS
  <1> HIDE DEF r
  <1>3. Sound(r)
    BY <1>2, SoundReads DEF Codes
  <1>4. PICK e \in 0 .. Len(win) : /\ ~ input_eof => e = Len(win)
                                   /\ GoodCursor(bptr, heap, e)
    BY SomeEnd
  <1>5. loop.cnt \in Nat /\ Within(bptr, loop.cnt)
    BY <1>1 DEF IInv, LoopOK, PlaceInv
  <1>6. Ready(s, e, loop.cnt, Len(heap))
    BY <1>1, <1>4, <1>5, StartReady
  <1>7. Core(r, e, Len(heap)) /\ Within(r.p, loop.cnt)
    BY <1>3, <1>5, <1>6 DEF Sound, Ready
  <1>8. LoopOK' /\ loop'.cnt = loop.cnt /\ loop'.part = "blocks"
    BY <1>1 DEF IInv, LoopOK
  <1>9. Aside
    BY <1>1 DEF Aside, Outside
  <1> QED  BY <1>1, <1>4, <1>7, <1>8, <1>9, GoesOn


(* Past the listpacks nothing is left of a block. *)
LEMMA StreamRests ==
  ASSUME IInv, pc = "body", dec.type \in Streams,
         loop.part # "blocks" \/ loop.cnt = 0
  PROVE  Within(bptr, 0)
  BY DEF IInv, PlaceInv

(* Its counts and last id.                                                 *)
LEMMA StreamInfoIInv ==
  ASSUME IInv, Outside, StreamInfo
  PROVE  IInv'
  <1> DEFINE s == Start(NoSize)
             old == dec.type = "stream_listpack"
             c == Count(Count2(s))
             r == Count(IF old THEN c ELSE Count(Count2(Count2(c))))
             groups == r.vals[Len(r.vals)]
  <1>1. /\ pc = "body" /\ UNCHANGED <<win, dec>> /\ dec.type \in Streams
        /\ loop.cnt = 0
        /\ Return(r, "body")
        /\ loop' = IF r.rc = "ok" THEN [loop EXCEPT !.part = "groups", !.entry = NewEntry,
                                                    !.group = NewCount(groups)]
                   ELSE loop
    BY DEF StreamInfo, Part, Body
  <1> HIDE DEF groups, old
  <1>2. Sound(c)
    BY SoundReads DEF Count2
  <1> HIDE DEF c
  <1>3. Sound(Count(Count2(Count2(c))))
    BY <1>2, SoundReads DEF Count2
  <1>4. Sound(r)
    BY <1>2, <1>3, SoundReads
  <1> HIDE DEF r
  <1>5. LoopOK'
    BY <1>1 DEF IInv, LoopOK
  <1>6. Aside
    BY <1>1 DEF Aside, Outside
  <1> QED  BY <1>1, <1>4, <1>5, <1>6, StreamRests, RestStep

(* A consumer group.                                                       *)
LEMMA StreamGroupIInv ==
  ASSUME IInv, Outside, StreamGroup
  PROVE  IInv'
  <1> DEFINE name == Name(Start(NoSize))
             last == Count2(name)
             r == Count(IF dec.type = "stream_listpack" THEN last ELSE Count(last))
             pending == r.vals[Len(r.vals)]
  <1>1. /\ pc = "body" /\ UNCHANGED <<win, dec>> /\ dec.type \in Streams
        /\ loop.part = "groups"
        /\ Return(r, "body")
        /\ loop' = IF r.rc = "ok" THEN [loop EXCEPT !.part = "pend", !.pend = NewCount(pending)]
                   ELSE loop
    BY DEF StreamGroup, Part, Body
  <1> HIDE DEF pending
  <1>2. Sound(last) /\ Sound(Count(last))
    BY SoundReads DEF Count2
  <1> HIDE DEF last
  <1>3. Sound(r)
    BY <1>2, SoundReads
  <1> HIDE DEF r
  <1>4. LoopOK'
    BY <1>1 DEF IInv, LoopOK
  <1>5. Aside
    BY <1>1 DEF Aside, Outside
  <1> QED  BY <1>1, <1>3, <1>4, <1>5, StreamRests, RestStep

(* A pending entry of a group.                                             *)
LEMMA StreamPendIInv ==
  ASSUME IInv, Outside, StreamPend
  PROVE  IInv'
  <1> DEFINE r == Count(Field(Field(Start(NoSize))))
  <1>1. /\ pc = "body" /\ UNCHANGED <<win, dec>> /\ dec.type \in Streams
        /\ loop.part = "pend"
        /\ Return(r, "body")
        /\ loop' = [loop EXCEPT !.pend.num = @ + 1]
    BY DEF StreamPend, Part, Body
  <1>2. Sound(r)
    BY SoundReads
  <1> HIDE DEF r
  <1>3. LoopOK'
    BY <1>1 DEF IInv, LoopOK
  <1>4. Aside
    BY <1>1 DEF Aside, Outside
  <1> QED  BY <1>1, <1>2, <1>3, <1>4, StreamRests, RestStep

(* The number of its consumers.                                            *)
LEMMA StreamConsumersIInv ==
  ASSUME IInv, Outside, StreamConsumers
  PROVE  IInv'
  <1> DEFINE r == Count(Start(NoSize))
             n == r.vals[1]
  <1>1. /\ pc = "body" /\ UNCHANGED <<win, dec>> /\ dec.type \in Streams
        /\ loop.part = "pend"
        /\ Return(r, "body")
        /\ loop' = IF r.rc = "ok" THEN [loop EXCEPT !.part = "cons", !.cons = NewCount(n)]
                   ELSE loop
    BY DEF StreamConsumers, Part, Body
  <1> HIDE DEF n
  <1>2. Sound(r)
    BY SoundReads
  <1> HIDE DEF r
  <1>3. LoopOK'
    BY <1>1 DEF IInv, LoopOK
  <1>4. Aside
    BY <1>1 DEF Aside, Outside
  <1> QED  BY <1>1, <1>2, <1>3, <1>4, StreamRests, RestStep

(* A consumer.                                                             *)
LEMMA StreamConsIInv ==
  ASSUME IInv, Outside, StreamCons
  PROVE  IInv'
  <1> DEFINE r == Count(Field(Name(Start(NoSize))))
             n == r.vals[3]
  <1>1. /\ pc = "body" /\ UNCHANGED <<win, dec>> /\ dec.type \in Streams
        /\ loop.part = "cons"
        /\ Return(r, "body")
        /\ loop' = IF r.rc = "ok" THEN [loop EXCEPT !.part = "conp", !.conp = NewCount(n)]
                   ELSE loop
    BY DEF StreamCons, Part, Body
  <1> HIDE DEF n
  <1>2. Sound(r)
    BY SoundReads
  <1> HIDE DEF r
  <1>3. LoopOK'
    BY <1>1 DEF IInv, LoopOK
  <1>4. Aside
    BY <1>1 DEF Aside, Outside
  <1> QED  BY <1>1, <1>2, <1>3, <1>4, StreamRests, RestStep

(* A pending entry of a consumer.                                          *)
LEMMA StreamConsPendIInv ==
  ASSUME IInv, Outside, StreamConsPend
  PROVE  IInv'
  <1> DEFINE r == Field(Start(NoSize))
  <1>1. /\ pc = "body" /\ UNCHANGED <<win, dec>> /\ dec.type \in Streams
        /\ loop.part = "conp"
        /\ Return(r, "body")
        /\ loop' = [loop EXCEPT !.conp.num = @ + 1]
    BY DEF StreamConsPend, Part, Body
  <1>2. Sound(r)
    BY SoundReads
  <1> HIDE DEF r
  <1>3. LoopOK'
    BY <1>1 DEF IInv, LoopOK
  <1>4. Aside
    BY <1>1 DEF Aside, Outside
  <1> QED  BY <1>1, <1>2, <1>3, <1>4, StreamRests, RestStep

(* The ends of a consumer and of a group read nothing. *)
LEMMA StreamEndsIInv ==
  ASSUME IInv, Outside, EndCons \/ EndGroup
  PROVE  IInv'
  <1>1. /\ pc = "body" /\ UNCHANGED <<win, dec>> /\ dec.type \in Streams
        /\ loop.part # "blocks"
        /\ Return(Start(NoSize), "body")
    BY DEF EndCons, EndGroup, Part, Body
  <1>2. \/ loop' = [loop EXCEPT !.part = "cons", !.cons.num = @ + 1]
        \/ loop' = [loop EXCEPT !.part = "groups", !.group.num = @ + 1]
    BY DEF EndCons, EndGroup
  <1>3. LoopOK'
    BY <1>2 DEF IInv, LoopOK
  <1>4. Aside
    BY <1>1 DEF Aside, Outside
  <1> QED  BY <1>1, <1>3, <1>4, StreamRests, SoundReads, RestStep


-----------------------------------------------------------------------------
(* The end of a key's value. *)

(* A read that ends a value with nothing left of a block. *)
Ended(r) ==
  \A e \in 0 .. Len(win) :
    GoodCursor(bptr, heap, e) =>
      /\ Core(r, e, Len(heap))
      /\ r.rc = "ok" => Within(r.p, 0)

(* A value that was read leaves nothing of its block.                      *)
LEMMA KeyEnds ==
  ASSUME IInv, Outside, NEW r, Ended(r), pc = "body", UNCHANGED <<win, dec, loop>>,
         Return(r, "keydone")
  PROVE  IInv'
  <1>1. PICK e \in 0 .. Len(win) : /\ ~ input_eof => e = Len(win)
                                   /\ GoodCursor(bptr, heap, e)
    BY SomeEnd
  <1>2. Core(r, e, Len(heap)) /\ (r.rc = "ok" => Within(r.p, 0))
    BY <1>1 DEF Ended
  <1>3. Aside
    BY DEF Aside, Outside
  <1>4. dec.opened /\ DecOK'
    BY DEF IInv, OpenInv, DecOK
  <1> QED  BY <1>1, <1>2, <1>3, <1>4, Rests

(* A read outside a block ends outside it.                                 *)
LEMMA SoundEnds ==
  ASSUME IInv, pc = "body", Within(bptr, 0), NEW r, Sound(r)
  PROVE  Ended(r)
  <1> SUFFICES ASSUME NEW e \in 0 .. Len(win), GoodCursor(bptr, heap, e)
               PROVE  Core(r, e, Len(heap)) /\ Within(r.p, 0)
    BY DEF Ended
  <1> DEFINE z == 0
  <1>1. z \in Nat /\ Within(bptr, z) /\ pc # "done"
    OBVIOUS
  <1> HIDE DEF z
  <1>2. Ready(Start(NoSize), e, z, Len(heap))
    BY <1>1, StartReady
  <1>3. Ready(r, e, z, Len(heap))
    BY <1>1, <1>2 DEF Sound
  <1> QED  BY <1>3 DEF Ready, z

(* The loops end when all is read, or when a name cannot be. *)
LEMMA LoopEndIInv ==
  ASSUME IInv, Outside, EndLoop \/ EndStream \/ StreamNoName
  PROVE  IInv'
  <1> DEFINE s == Start(NoSize)
             r == Failed(Name(s), "ok")
  <1>1. Sound(s) /\ Sound(r)
    BY SoundReads DEF Codes
  <1>2. /\ pc = "body" /\ UNCHANGED <<win, dec, loop>>
        /\ dec.type \in Loops \cup Streams
        /\ loop.part # "blocks" \/ loop.cnt = 0
    BY DEF EndLoop, EndStream, StreamNoName, Part, Body
  <1>3. Return(s, "keydone") \/ Return(r, "keydone")
    BY DEF EndLoop, EndStream, StreamNoName, Failed
  <1>4. Within(bptr, 0)
    BY <1>2 DEF IInv, PlaceInv
  <1> HIDE DEF r, s
  <1>5. Ended(s) /\ Ended(r)
    BY <1>1, <1>2, <1>4, SoundEnds
  <1> QED  BY <1>2, <1>3, <1>5, KeyEnds

(* The values that are read in one piece: it is what is left of a block,   *)
(* or all of it is ahead of the block's end.                               *)
LEMMA PieceEnds ==
  ASSUME IInv, pc = "body", dec.type \notin Loops \cup Streams
  PROVE  LET s == Start(dec.rlen)
         IN  /\ Ended(decode_str(s)) /\ Ended(Data(s)) /\ Ended(Ints(Field(s)))
             /\ Ended(Listed(Data(s))) /\ Ended(Failed(Data(s), "trunc"))
  <1> DEFINE s == Start(dec.rlen)
  <1> SUFFICES ASSUME NEW e \in 0 .. Len(win), GoodCursor(bptr, heap, e)
               PROVE  /\ Core(decode_str(s), e, Len(heap)) /\ Within(decode_str(s).p, 0)
                      /\ Core(Data(s), e, Len(heap)) /\ Within(Data(s).p, 0)
                      /\ Core(Ints(Field(s)), e, Len(heap))
                      /\ Ints(Field(s)).rc = "ok" => Within(Ints(Field(s)).p, 0)
                      /\ Core(Listed(Data(s)), e, Len(heap)) /\ Within(Listed(Data(s)).p, 0)
                      /\ Core(Failed(Data(s), "trunc"), e, Len(heap))
                      /\ Within(Failed(Data(s), "trunc").p, 0)
    BY DEF Ended
  <1>1. /\ Core(s, e, Len(heap)) /\ s.vals = <<>> /\ s.rc = "ok"
        /\ s.len = dec.rlen /\ s.p = bptr
    <2>1. GoodHeap(heap) /\ bptr.buf # Null /\ Len(heap) \in Nat
      BY DEF IInv, CursorInv, PlaceInv, GoodHeap
    <2> QED  BY <2>1 DEF Start, Core, Codes
  <1>2. \/ Within(bptr, 0)
        \/ /\ dec.rlen[1] = "lzf" /\ bptr.offset = 0
           /\ bptr.avail = LenOf(dec.rlen)
    BY DEF IInv, PlaceInv, WholeValue
  <1>3. LenOf(s.len) \in Nat /\ Len(heap) \in Nat /\ WellFormed(win) /\ e \in Nat
    BY <1>1, SomeEnd DEF IInv, DecOK, IsSize
  <1> DEFINE z == 0
  <1>4. z \in Nat /\ (Within(s.p, z) \/ (s.len[1] = "lzf" /\ s.p.avail = LenOf(s.len)))
    BY <1>1, <1>2
  <1> HIDE DEF z, s
  <1>5. Ready(decode_str(s), e, z, Len(heap)) /\ Ready(Data(s), e, z, Len(heap))
    BY <1>1, <1>3, <1>4, decode_strKeeps, DataKeeps
  <1>6. /\ Core(Ints(Field(s)), e, Len(heap))
        /\ Ints(Field(s)).rc = "ok" => Within(Ints(Field(s)).p, 0)
    BY <1>1, <1>2, <1>3, IntsKeeps
  <1> DEFINE d == Data(s)
             f == Failed(d, "trunc")
  <1>7. Core(d, e, Len(heap)) /\ Within(d.p, 0)
    BY <1>5 DEF Ready, z
  <1> HIDE DEF d
  <1>8. Core(f, e, Len(heap)) /\ f.p = d.p
    BY <1>7, FailedKeeps DEF Codes
  <1> HIDE DEF f
  <1>9. Listed(d) = d \/ Listed(d) = f
    BY ListedIs DEF f
  <1> QED  BY <1>5, <1>6, <1>7, <1>8, <1>9 DEF Ready, z, d, f

(* The values that are one string.                                         *)
LEMMA PieceIInv ==
  ASSUME IInv, Outside, BodyString \/ ZipList \/ ZipMap \/ IntSet
  PROVE  IInv'
  <1> DEFINE s == Start(dec.rlen)
  <1>1. /\ pc = "body" /\ UNCHANGED <<win, dec, loop>>
        /\ dec.type \notin Loops \cup Streams
    BY DEF BodyString, ZipList, ZipMap, IntSet, Packed, Body, Loops, Streams, Zipped, Quick
  <1>2. \/ Return(decode_str(s), "keydone") \/ Return(Data(s), "keydone")
        \/ Return(Ints(Field(s)), "keydone")
        \/ Return(Listed(Data(s)), "keydone") \/ Return(Failed(Data(s), "trunc"), "keydone")
    BY DEF BodyString, ZipList, ZipMap, IntSet, Packed
  <1>3. /\ Ended(decode_str(s)) /\ Ended(Data(s)) /\ Ended(Ints(Field(s)))
        /\ Ended(Listed(Data(s))) /\ Ended(Failed(Data(s), "trunc"))
    BY <1>1, PieceEnds
  <1> HIDE DEF s
  <1> QED  BY <1>1, <1>2, <1>3, KeyEnds

(* The least of a set of numbers, where a module ends.                     *)
LEMMA LeastOf ==
  ASSUME NEW S \in SUBSET Nat, S # {}
  PROVE  \E n \in S : \A m \in S : n <= m
  <1> DEFINE R == {ss \in Nat \X Nat : ss[1] < ss[2]}
  <1>1. IsWellFoundedOn(R, Nat)
    BY NatLessThanWellFounded DEF OpToRel
  <1>2. \A x, y \in Nat : <<y, x>> \in R <=> y < x
    OBVIOUS
  <1> HIDE DEF R
  <1>3. PICK x \in S : \A y \in S : ~ (<<y, x>> \in R)
    <2>1. S \subseteq Nat
      OBVIOUS
    <2> QED  BY <1>1, <2>1, WFMin, Zenon
  <1>4. x \in Nat /\ \A y \in S : y \in Nat
    OBVIOUS
  <1>5. \A y \in S : ~ (y < x)
    BY <1>2, <1>3, <1>4, Zenon
  <1>6. \A y \in S : x <= y
    BY <1>4, <1>5
  <1> QED  BY <1>6

(* The first of some places, or the end, is not behind the end.            *)
LEMMA SkipsSome ==
  ASSUME NEW a \in Nat, NEW S, S \subseteq 1 .. a
  PROVE  LET n == IF S = {} THEN a ELSE CHOOSE n \in S : \A m \in S : n <= m
         IN  n \in Nat /\ n <= a
  <1> DEFINE l == CHOOSE n \in S : \A m \in S : n <= m
  <1>1. CASE S # {}
    <2>1. \E n \in S : \A m \in S : n <= m
      BY <1>1, LeastOf
    <2>2. l \in S
      BY <2>1, Zenon
    <2> HIDE DEF l
    <2>3. l \in Nat /\ l <= a
      BY <2>2
    <2> QED  BY <1>1, <2>3 DEF l
  <1> QED  BY <1>1

(* What is skipped of a module ends at its first zero byte, if there is    *)
(* one.                                                                    *)
LEMMA ModuleIInv ==
  ASSUME IInv, Outside, Module
  PROVE  IInv'
  <1> DEFINE s == Start(dec.rlen)
             ends == {n \in 1 .. bptr.avail : Bytes(s)[bptr.offset + n] = <<"zero">>}
             skip == IF ends = {} THEN bptr.avail
                     ELSE CHOOSE n \in ends : \A m \in ends : n <= m
             r == Skip(s, skip)
  <1>1. /\ pc = "body" /\ UNCHANGED <<win, dec, loop>> /\ dec.type \in Modules
        /\ Return(r, "keydone")
    BY DEF Module, Body
  <1>2. ends \subseteq 1 .. bptr.avail
    OBVIOUS
  <1> HIDE DEF ends
  <1>3. bptr.avail \in Nat
    BY SomeEnd DEF Bufptr
  <1>4. skip \in Nat /\ skip <= bptr.avail
    BY <1>2, <1>3, SkipsSome
  <1> HIDE DEF skip
  <1>5. Within(bptr, 0)
    BY <1>1 DEF IInv, PlaceInv, WholeValue, Modules, Loops, Streams, Quick
  <1>6. Ended(r)
    <2> SUFFICES ASSUME NEW e \in 0 .. Len(win), GoodCursor(bptr, heap, e)
                 PROVE  Core(r, e, Len(heap)) /\ Within(r.p, 0)
      BY DEF Ended
    <2>1. /\ Core(s, e, Len(heap)) /\ s.p = bptr
      <3>1. GoodHeap(heap) /\ bptr.buf # Null /\ Len(heap) \in Nat
        BY <1>1 DEF IInv, CursorInv, PlaceInv, GoodHeap
      <3> QED  BY <3>1 DEF Start, Core, Codes
    <2> HIDE DEF s
    <2>2. CanIncr(s.p, skip) /\ e \in Nat
      BY <1>4, <2>1, SomeEnd DEF CanIncr
    <2>3. /\ Core(r, e, Len(heap)) /\ r.p.buf = bptr.buf
          /\ r.p.avail = bptr.avail - skip
      BY <1>4, <2>1, <2>2, SkipKeeps
    <2> HIDE DEF r
    <2> QED  BY <1>3, <1>4, <1>5, <2>3 DEF Within
  <1> HIDE DEF r
  <1> QED  BY <1>1, <1>6, KeyEnds


-----------------------------------------------------------------------------
(* The opcodes and the type of a key, with nothing left of a block. *)
LEMMA SoundHeaders ==
  ASSUME IInv
  PROVE  /\ bptr.avail > 0 => Sound(Skip(Start(NoSize), 1))
         /\ \A r : Sound(r) => Sound(Number(r)) /\ Sound(Text(Length(r)))
  <1>1. Len(heap) \in Nat /\ WellFormed(win) /\ bptr \in Bufptr /\ Len(win) \in Nat
    BY SomeEnd
  <1>2. ASSUME bptr.avail > 0 PROVE Sound(Skip(Start(NoSize), 1))
    <2> DEFINE s == Start(NoSize)
               q == Skip(s, 1)
    <2> SUFFICES ASSUME NEW e \in 0 .. Len(win), NEW n \in Nat, Ready(s, e, n, Len(heap))
                 PROVE  Ready(q, e, n, Len(heap))
      BY DEF Sound
    <2>1. s.p = bptr
      BY DEF Start
    <2> HIDE DEF s
    <2>2. CanIncr(s.p, 1) /\ e \in Nat /\ Core(s, e, Len(heap))
      BY <1>1, <1>2, <2>1 DEF CanIncr, Bufptr, Ready
    <2>3. Core(q, e, Len(heap)) /\ q.p.buf = s.p.buf /\ q.p.avail = s.p.avail - 1
      BY <2>2, StepKeeps
    <2> HIDE DEF q
    <2>4. Within(s.p, n) /\ s.p.avail \in Nat
      BY <1>1, <2>1 DEF Ready, Bufptr
    <2>5. Within(q.p, n)
      BY <2>3, <2>4 DEF Within
    <2> QED  BY <2>3, <2>5 DEF Ready
  <1>3. ASSUME NEW r, Sound(r) PROVE Sound(Number(r)) /\ Sound(Text(Length(r)))
    <2> SUFFICES ASSUME NEW e \in 0 .. Len(win), NEW n \in Nat,
                        Ready(Start(NoSize), e, n, Len(heap))
                 PROVE  /\ Ready(Number(r), e, n, Len(heap))
                        /\ Ready(Text(Length(r)), e, n, Len(heap))
      BY DEF Sound
    <2>1. Ready(r, e, n, Len(heap))
      BY <1>3 DEF Sound
    <2>2. /\ Ready(Length(r), e, n, Len(heap))
          /\ Length(r).rc = "ok" => HeaderRead(Length(r))
      BY <1>1, <2>1, LengthKeeps
    <2> QED  BY <1>1, <2>1, <2>2, NumberKeeps, TextKeeps
  <1> QED  BY <1>2, <1>3

(* An opcode or the fields behind it.                                      *)
LEMMA HeaderStep ==
  ASSUME IInv, Outside, NEW r, Sound(r), pc = "hdr", dec.opened,
         NEW to \in {"hdr", "len"}, Return(r, to), UNCHANGED <<win, loop>>,
         DecOK', dec'.opened = dec.opened, dec'.key_block = dec.key_block,
         dec'.is_rdb_file = dec.is_rdb_file
  PROVE  IInv'
  <1>1. PICK e \in 0 .. Len(win) : /\ ~ input_eof => e = Len(win)
                                   /\ GoodCursor(bptr, heap, e)
    BY SomeEnd
  <1> DEFINE z == 0
  <1>2. z \in Nat /\ Within(bptr, z) /\ pc # "done"
    BY DEF IInv, PlaceInv
  <1> HIDE DEF z
  <1>3. Ready(Start(NoSize), e, z, Len(heap))
    BY <1>1, <1>2, StartReady
  <1>4. Ready(r, e, z, Len(heap))
    BY <1>2, <1>3 DEF Sound
  <1>5. Core(r, e, Len(heap)) /\ Within(r.p, 0)
    BY <1>4 DEF Ready, z
  <1>6. Aside
    BY DEF Aside, Outside
  <1> QED  BY <1>1, <1>5, <1>6, Rests

(* The opcodes, from the times of a key to the end of the file.            *)
LEMMA OpcodeIInv ==
  ASSUME IInv, Outside, (\E k \in Metas : Meta(k)) \/ ModuleAux \/ EofMark
  PROVE  IInv'
  <1> DEFINE s == Skip(Start(NoSize), 1)
             Went(r) == Return(r, "hdr")
  <1>1. /\ pc = "hdr" /\ dec.opened /\ bptr.avail > 0
        /\ UNCHANGED <<win, dec, loop>>
    BY DEF Meta, ModuleAux, EofMark, Opcode
  <1>2. \/ \E k \in Metas : Went(Operands(k))
        \/ Went(Failed(s, "notsup")) \/ Went(Failed(s, "eof"))
    BY DEF Meta, ModuleAux, EofMark
  <1>3. ASSUME NEW r, Sound(r), Went(r) PROVE IInv'
    <2>1. DecOK'
      BY <1>1 DEF IInv, DecOK
    <2> QED  BY <1>1, <1>3, <2>1, HeaderStep
  <1> HIDE DEF Went
  <1>4. Sound(s)
    BY <1>1, SoundHeaders
  <1>5. \A k : Operands(k) \in {Number(s), Number(Number(s)),
                               Text(Length(Text(Length(s)))), Field(s)}
    BY DEF Operands
  <1> HIDE DEF s
  <1>6. /\ Sound(Number(s)) /\ Sound(Number(Number(s)))
        /\ Sound(Text(Length(Text(Length(s))))) /\ Sound(Field(s))
        /\ Sound(Failed(s, "notsup")) /\ Sound(Failed(s, "eof"))
    BY <1>4, SoundHeaders, SoundReads DEF Codes
  <1> QED  BY <1>2, <1>3, <1>5, <1>6

(* The type of a key.                                                      *)
LEMMA KeyTypeIInv ==
  ASSUME IInv, Outside, KeyType
  PROVE  IInv'
  <1> DEFINE r == Start(NoSize)
             t == get_rdb_type(IF bptr.avail > 0 THEN Here(r) ELSE NoSize)
             s == CASE bptr.avail = 0 -> Failed(r, "trunc")
                    [] bptr.avail > 0 /\ t = "bad" -> Failed(r, "type")
                    [] bptr.avail > 0 /\ t # "bad" -> Skip(r, 1)
  <1>1. /\ pc = "hdr" /\ dec.opened /\ Return(s, "len") /\ UNCHANGED <<win, loop>>
        /\ dec' = [dec EXCEPT !.type = t]
    BY DEF KeyType
  <1>2. t \in Types \cup {"bad"}
    BY DEF get_rdb_type
  <1> HIDE DEF t, r
  <1>3. bptr.avail \in Nat
    BY SomeEnd DEF Bufptr
  <1>4. s \in {Failed(r, "trunc"), Failed(r, "type")} \/ (bptr.avail > 0 /\ s = Skip(r, 1))
    BY <1>3
  <1> HIDE DEF s
  <1>5. Sound(s)
    BY <1>4, SoundReads, SoundHeaders DEF r, Codes
  <1>6. /\ DecOK' /\ dec'.opened = dec.opened /\ dec'.key_block = dec.key_block
        /\ dec'.is_rdb_file = dec.is_rdb_file
    BY <1>1, <1>2 DEF IInv, DecOK
  <1> QED  BY <1>1, <1>5, <1>6, HeaderStep


-----------------------------------------------------------------------------
(* The key and the length of its value. *)

(* If the value is compressed, all of its block is left.  The block of the *)
(* key, if the key was compressed, too, is the one before it.              *)
LEMMA KeyHdrIInv ==
  ASSUME IInv, Outside, KeyHdr
  PROVE  IInv'
  <1> DEFINE s == Start(NoSize)
             k == Length(s)
             t == Text(k)
             r == Unzip(IF dec.is_rdb_file THEN Length(t) ELSE k)
  <1>1. /\ pc = "len" /\ Return(r, "start") /\ UNCHANGED <<win, loop>>
        /\ dec' = IF r.rc # "ok" THEN dec
                  ELSE IF dec.is_rdb_file
                  THEN [dec EXCEPT !.rlen = r.len, !.key = t.vals[1],
                                   !.key_block = IF k.len[1] = "lzf" THEN t.p.buf ELSE 0]
                  ELSE [dec EXCEPT !.rlen = r.len]
    BY DEF KeyHdr
  <1>2. PICK e \in 0 .. Len(win) : /\ ~ input_eof => e = Len(win)
                                   /\ GoodCursor(bptr, heap, e)
    BY SomeEnd
  <1>3. Len(heap) \in Nat /\ WellFormed(win)
    BY SomeEnd
  <1> DEFINE z == 0
  <1>4. z \in Nat /\ Within(bptr, z) /\ pc # "done" /\ Less(z) = z
    BY <1>1 DEF IInv, PlaceInv, Less
  <1>5. r = IF dec.is_rdb_file THEN Unzip(Length(t)) ELSE Unzip(Length(s))
    OBVIOUS
  <1> HIDE DEF z, r
  <1>6. Ready(s, e, z, Len(heap))
    BY <1>2, <1>4, StartReady
  <1>7. /\ Ready(k, e, z, Len(heap))
        /\ k.rc = "ok" => HeaderRead(k)
    BY <1>3, <1>4, <1>6, LengthKeeps
  <1>8. Ready(t, e, z, Len(heap))
    BY <1>3, <1>4, <1>7, TextKeeps
  <1>9. /\ t.p.buf \in Int /\ t.p.buf <= Len(t.heap)
        /\ Len(t.heap) \in Nat /\ Len(heap) <= Len(t.heap)
    <2>1. Len(t.heap) \in Nat /\ GoodCursor(t.p, t.heap, e) /\ Len(heap) <= Len(t.heap)
      BY <1>8 DEF Ready, Core, GoodHeap
    <2> HIDE DEF t
    <2> QED  BY <2>1 DEF GoodCursor, Bufptr, Null, Main
  <1>10. Ready(t, e, z, Len(t.heap))
    BY <1>8, <1>9 DEF Ready, Core
  <1>11. /\ Core(r, e, Len(heap))
         /\ dec.is_rdb_file => Core(r, e, Len(t.heap))
         /\ r.rc = "ok" =>
              /\ IsSize(r.len)
              /\ \/ Within(r.p, 0)
                 \/ r.len[1] = "lzf" /\ r.p.avail = LenOf(r.len) /\ r.p.offset = 0
    <2>1. CASE dec.is_rdb_file
      <3>1. r = Unzip(Length(t))
        BY <1>5, <2>1
      <3> HIDE DEF t
      <3>2. /\ Core(r, e, Len(t.heap)) /\ Core(r, e, Len(heap))
            /\ r.rc = "ok" =>
                 /\ IsSize(r.len)
                 /\ \/ Within(r.p, z)
                    \/ r.len[1] = "lzf" /\ r.p.avail = LenOf(r.len) /\ r.p.offset = 0
        BY <1>3, <1>4, <1>8, <1>9, <1>10, <3>1, SizeKeeps
      <3> QED  BY <3>2 DEF z
    <2>2. CASE ~ dec.is_rdb_file
      <3>1. r = Unzip(Length(s))
        BY <1>5, <2>2
      <3> HIDE DEF s
      <3>2. /\ Core(r, e, Len(heap))
            /\ r.rc = "ok" =>
                 /\ IsSize(r.len)
                 /\ \/ Within(r.p, z)
                    \/ r.len[1] = "lzf" /\ r.p.avail = LenOf(r.len) /\ r.p.offset = 0
        BY <1>3, <1>4, <1>6, <3>1, SizeKeeps
      <3> QED  BY <2>2, <3>2 DEF z
    <2> QED  BY <2>1, <2>2
  <1> HIDE DEF t, k
  <1>12. /\ DecOK' /\ dec'.opened /\ dec'.is_rdb_file = dec.is_rdb_file
         /\ ~ dec.is_rdb_file => dec'.key_block = dec.key_block
         /\ r.rc # "ok" => dec' = dec
         /\ r.rc = "ok" => /\ dec'.rlen = r.len
                           /\ dec.is_rdb_file => dec'.key_block \in {0, t.p.buf}
    <2>1. dec.opened
      BY <1>1 DEF IInv, OpenInv
    <2> QED  BY <1>1, <1>9, <1>11, <2>1 DEF IInv, DecOK
  <1>13. Aside
    BY <1>1 DEF Aside, Outside
  <1>14. /\ WindowInv' /\ CursorInv' /\ OpenInv' /\ PcOK'
         /\ bptr' = r.p /\ bptr'.buf # Null /\ Len(heap) <= Len(heap')
         /\ pc' = (IF r.rc = "ok" THEN "start" ELSE "error")
    BY <1>1, <1>2, <1>11, <1>12, <1>13, Moved
  <1>15. PlaceInv'
    BY <1>11, <1>12, <1>14 DEF PlaceInv, WholeValue
  <1>16. KeyInv'
    <2>1. ~ dec'.is_rdb_file => dec'.key_block = 0
      BY <1>12 DEF IInv, KeyInv
    <2>2. heap' = r.heap
      BY <1>1 DEF Return
    <2>3. Len(heap') \in Nat
      BY <1>11, <2>2 DEF Core, GoodHeap
    <2>4. ASSUME dec.is_rdb_file, r.rc = "ok" PROVE dec'.key_block <= Len(heap')
      <3>1. Len(t.heap) <= Len(heap')
        BY <1>11, <2>2, <2>4 DEF Core
      <3>2. dec'.key_block \in {0, t.p.buf}
        BY <1>12, <2>4
      <3> QED  BY <1>9, <2>3, <3>1, <3>2
    <2>5. pc' = "start" \/ pc' = "error"
      BY <1>14
    <2> QED  BY <1>12, <1>14, <2>1, <2>3, <2>4, <2>5 DEF KeyInv
  <1>17. LoopOK'
    BY <1>1 DEF IInv, LoopOK
  <1> QED  BY <1>12, <1>14, <1>15, <1>16, <1>17 DEF IInv

(* The loop over a value begins: its length is the number of its elements, *)
(* and if it is the length of a compressed string instead, so much is left *)
(* of the block.                                                           *)
LEMMA StartKeyIInv ==
  ASSUME IInv, Outside, StartKey
  PROVE  IInv'
  <1> DEFINE s == Start(dec.rlen)
             r == IF dec.type \in Modules /\ dec.rlen[1] # "len" THEN Failed(s, "hdr") ELSE s
             match == match_key(dec.filter, dec.key)
  <1>1. /\ pc = "start" /\ Return(r, "body") /\ UNCHANGED win
        /\ dec' = IF r.rc = "ok" THEN [dec EXCEPT !.data = match] ELSE dec
        /\ loop' = NewLoop(LenOf(dec.rlen))
    BY DEF StartKey
  <1>2. match \in BOOLEAN
    BY Zenon DEF match_key
  <1> HIDE DEF match
  <1>3. PICK e \in 0 .. Len(win) : /\ ~ input_eof => e = Len(win)
                                   /\ GoodCursor(bptr, heap, e)
    BY SomeEnd
  <1>4. Core(s, e, Len(heap)) /\ s.p = bptr /\ s.rc = "ok" /\ s.heap = heap
    <2>1. GoodHeap(heap) /\ bptr.buf # Null /\ Len(heap) \in Nat
      BY <1>1 DEF IInv, CursorInv, PlaceInv, GoodHeap
    <2> QED  BY <1>3, <2>1 DEF Start, Core, Codes
  <1>5. \/ r = s /\ (dec.type \in Modules => dec.rlen[1] = "len")
        \/ r = Failed(s, "hdr")
    OBVIOUS
  <1> HIDE DEF r, s
  <1>6. /\ Core(r, e, Len(heap)) /\ r.p = bptr /\ r.heap = heap
        /\ r.rc = "ok" => (dec.type \in Modules => dec.rlen[1] = "len")
    BY <1>4, <1>5, FailedKeeps DEF Codes
  <1>7. /\ DecOK' /\ dec'.opened /\ dec'.is_rdb_file = dec.is_rdb_file
        /\ dec'.key_block = dec.key_block /\ dec'.rlen = dec.rlen /\ dec'.type = dec.type
    <2>1. dec.opened
      BY <1>1 DEF IInv, OpenInv
    <2> QED  BY <1>1, <1>2, <2>1 DEF IInv, DecOK
  <1>8. Aside
    BY <1>1 DEF Aside, Outside
  <1>9. /\ WindowInv' /\ CursorInv' /\ OpenInv' /\ PcOK'
        /\ bptr' = r.p /\ bptr'.buf # Null
        /\ pc' = (IF r.rc = "ok" THEN "body" ELSE "error")
        /\ bptr' \in Bufptr
    BY <1>1, <1>3, <1>6, <1>7, <1>8, Moved
  <1>10. loop'.cnt = LenOf(dec.rlen) /\ loop'.part = "blocks" /\ LoopOK'
    BY <1>1 DEF IInv, DecOK, IsSize, LoopOK, NewLoop
  <1>11. PlaceInv'
    <2>1. Within(bptr, 0) \/ WholeValue
      BY <1>1 DEF IInv, PlaceInv
    <2>2. bptr.avail \in Nat /\ loop'.cnt \in Nat /\ bptr' = bptr
      BY <1>6, <1>9, <1>10 DEF Bufptr, LoopOK
    <2>3. Within(bptr, 0) \/ WholeValue'
      BY <1>7, <2>1, <2>2 DEF WholeValue
    <2>4. Within(bptr, loop'.cnt)
      BY <1>10, <2>1, <2>2 DEF Within, WholeValue
    <2> QED  BY <1>6, <1>7, <1>9, <1>10, <2>2, <2>3, <2>4 DEF PlaceInv
  <1>12. KeyInv'
    <2>1. heap' = heap
      BY <1>1, <1>6 DEF Return
    <2> QED  BY <1>1, <1>7, <2>1 DEF IInv, KeyInv
  <1> QED  BY <1>7, <1>9, <1>10, <1>11, <1>12 DEF IInv


-----------------------------------------------------------------------------
(* Opening the file or the dump. *)

(* What a step keeps that moves at most the cursor. *)
LEMMA OpenKeeps ==
  ASSUME IInv, Outside, UNCHANGED <<win, heap, loop>>, pc = "hdr",
         NEW e \in 0 .. Len(win), ~ input_eof => e = Len(win),
         GoodCursor(bptr', heap, e), bptr'.buf = Main,
         pc' \in {"hdr", "error"}, rc' \in Codes, rc' # "ok" => pc' = "error",
         DecOK', dec'.key_block = dec.key_block,
         dec'.is_rdb_file = dec.is_rdb_file \/ dec'.is_rdb_file,
         OpenInv'
  PROVE  IInv'
  <1>1. PcOK'
    BY DEF PcOK
  <1>2. WindowInv' /\ LoopOK'
    BY DEF IInv, Outside, WindowInv, LoopOK
  <1>3. CursorInv'
    BY DEF IInv, Outside, CursorInv
  <1>4. PlaceInv'
    BY DEF PlaceInv, Within, Null, Main
  <1>5. KeyInv'
    BY DEF IInv, KeyInv
  <1> QED  BY <1>1, <1>2, <1>3, <1>4, <1>5 DEF IInv

(* The file or the dump that is opened.                                    *)
LEMMA OpenIInv ==
  ASSUME IInv, Outside, Open
  PROVE  IInv'
  <1> DEFINE n == Len(win)
  <1>1. /\ pc = "hdr" /\ ~ dec.opened /\ UNCHANGED <<win, heap, loop>>
    BY DEF Open
  <1>2. /\ bptr = NewBufptr(n) /\ heap = <<>> /\ n \in Nat
        /\ win # <<>> /\ win[1][1] # "magic" => input_eof /\ win = input.cells
    BY <1>1, SomeEnd DEF IInv, OpenInv
  <1> HIDE DEF n
  <1>3. /\ bptr \in Bufptr /\ bptr.buf = Main /\ bptr.avail = n /\ bptr.offset = 0
        /\ bptr.sav = Null /\ bptr.sav_avail = 0 /\ bptr.sav_offset = 0
        /\ bptr.alloced = 0
    BY <1>2 DEF NewBufptr, Bufptr, Null, Main
  <1>4. GoodCursor(bptr, heap, n)
    BY <1>2, <1>3 DEF GoodCursor, Null, Main
  <1>5. n \in 0 .. Len(win) /\ n = Len(win)
    BY <1>2 DEF n
  <1>6. ASSUME pc' = "error", rc' \in Codes, UNCHANGED <<bptr, dec>> PROVE IInv'
    <2>1. DecOK'
      BY <1>6 DEF IInv, DecOK
    <2>2. OpenInv'
      BY <1>1, <1>6 DEF IInv, Outside, OpenInv
    <2> QED  BY <1>1, <1>3, <1>4, <1>5, <1>6, <2>1, <2>2, OpenKeeps
  <1>7. CASE bptr.avail < 2
    <2>1. rc' = "trunc" /\ pc' = "error" /\ UNCHANGED <<bptr, dec>>
      BY <1>2, <1>3, <1>7 DEF Open
    <2> QED  BY <1>6, <2>1 DEF Codes
  <1>8. CASE bptr.avail >= 2 /\ OpenFile
    <2>1. /\ dec' = [dec EXCEPT !.opened = TRUE, !.is_rdb_file = TRUE]
          /\ \/ bptr' = Incr(bptr, 1) /\ rc' = "ok" /\ pc' = "hdr"
             \/ bptr' = bptr /\ rc' = "version" /\ pc' = "error"
      BY <1>8 DEF OpenFile
    <2>2. /\ DecOK' /\ dec'.key_block = dec.key_block /\ dec'.is_rdb_file
          /\ dec'.opened
      BY <2>1 DEF IInv, DecOK
    <2>3. OpenInv'
      BY <2>2 DEF OpenInv
    <2> DEFINE k == 1
    <2>4. k \in Nat /\ CanIncr(bptr, k) /\ bptr.buf # Null
      BY <1>2, <1>3, <1>8 DEF CanIncr, Null, Main
    <2>5. bptr' = Incr(bptr, k) \/ bptr' = bptr
      BY <2>1
    <2> HIDE DEF k
    <2>6. GoodCursor(Incr(bptr, k), heap, n) /\ Incr(bptr, k).buf = Main
      BY <1>2, <1>3, <1>4, <2>4, IncrGood
    <2>7. GoodCursor(bptr', heap, n) /\ bptr'.buf = Main
      BY <1>3, <1>4, <2>5, <2>6
    <2> QED  BY <1>1, <1>5, <2>1, <2>2, <2>3, <2>7, OpenKeeps DEF Codes
  <1>9. CASE bptr.avail >= 2 /\ OpenDump
    <2>1. win[1][1] # "magic"
      BY <1>9 DEF OpenDump
    <2>2. input_eof /\ win = input.cells
      <3>1. win # <<>>
        BY <1>2, <1>3, <1>9 DEF n
      <3> QED  BY <1>2, <2>1, <3>1
    <2> DEFINE d == IF Newline THEN 3 ELSE 2
    <2>3. d \in {2, 3} /\ (d = 3 => Newline)
      OBVIOUS
    <2>4. d <= n
      <3>1. Newline /\ n = 2 => win[2] \in {<<"nl">>, <<"crc", "good 0a">>}
        BY <1>3 DEF Newline
      <3>2. n = 2 => win[2] \notin {<<"nl">>, <<"crc", "good 0a">>}
        BY <2>2, WindowOK DEF IInv, Footed, n
      <3> HIDE DEF d
      <3>3. d = 3 => n # 2
        BY <2>3, <3>1, <3>2
      <3>4. n \in Nat /\ n >= 2
        BY <1>2, <1>3, <1>9
      <3> HIDE DEF n
      <3> QED  BY <2>3, <3>3, <3>4
    <2>5. \/ /\ bptr' = [bptr EXCEPT !.avail = @ - d]
             /\ dec' = [dec EXCEPT !.opened = TRUE]
             /\ UNCHANGED <<pc, rc>>
          \/ rc' = "crc" /\ pc' = "error" /\ UNCHANGED <<bptr, dec>>
      BY <1>9 DEF OpenDump
    <2> HIDE DEF d
    <2>6. CASE /\ bptr' = [bptr EXCEPT !.avail = @ - d]
               /\ dec' = [dec EXCEPT !.opened = TRUE]
               /\ UNCHANGED <<pc, rc>>
      <3>1. n - d \in Nat /\ n - d \in 0 .. Len(win)
        BY <1>2, <1>5, <2>3, <2>4
      <3>2. /\ bptr' \in Bufptr /\ bptr'.buf = Main /\ bptr'.avail = n - d
            /\ bptr'.offset = 0 /\ bptr'.sav = Null /\ bptr'.sav_avail = 0
            /\ bptr'.sav_offset = 0 /\ bptr'.alloced = 0
        BY <1>3, <2>6, <3>1 DEF Bufptr
      <3>3. GoodCursor(bptr', heap, n - d)
        BY <1>2, <3>1, <3>2 DEF GoodCursor, Null, Main
      <3>4. /\ DecOK' /\ dec'.key_block = dec.key_block
            /\ dec'.is_rdb_file = dec.is_rdb_file /\ dec'.opened
        BY <2>6 DEF IInv, DecOK
      <3>5. OpenInv'
        BY <3>4 DEF OpenInv
      <3>6. rc = "ok" /\ pc' = "hdr" /\ rc' = rc
        BY <1>1, <2>6 DEF IInv, PcOK
      <3> QED  BY <1>1, <2>2, <3>1, <3>2, <3>3, <3>4, <3>5, <3>6, OpenKeeps DEF Codes
    <2>7. CASE rc' = "crc" /\ pc' = "error" /\ UNCHANGED <<bptr, dec>>
      BY <1>6, <2>7 DEF Codes
    <2> QED  BY <2>5, <2>6, <2>7
  <1>10. \/ bptr.avail < 2
         \/ bptr.avail >= 2 /\ OpenFile
         \/ bptr.avail >= 2 /\ OpenDump
    BY DEF Open
  <1> QED  BY <1>7, <1>8, <1>9, <1>10


-----------------------------------------------------------------------------
(* Between two keys. *)

(* A part of a sequence, and a part of that part. *)
LEMMA Cut ==
  ASSUME NEW S, NEW s \in Seq(S), NEW m \in 1 .. Len(s) + 1, NEW n \in m - 1 .. Len(s)
  PROVE  /\ SubSeq(s, m, n) \in Seq(S)
         /\ Len(SubSeq(s, m, n)) = n - m + 1
         /\ \A k \in 1 .. n - m + 1 : SubSeq(s, m, n)[k] = s[m + k - 1]
  <1>1. \A k \in m .. n : s[k] \in S
    OBVIOUS
  <1>2. m \in Int /\ n \in Int /\ (IF m <= n THEN n - m + 1 ELSE 0) = n - m + 1
    OBVIOUS
  <1> QED  BY <1>1, <1>2, SubSeqProperties

(* A part of a part.                                                       *)
LEMMA CutOfCut ==
  ASSUME NEW S, NEW s \in Seq(S), NEW i \in Nat, NEW d \in Nat, NEW g \in Nat, NEW e \in Nat,
         i <= d, d <= g, g <= e, e <= Len(s),
         NEW t, t = SubSeq(s, i + 1, e),
         NEW k, k = d - i + 1, NEW l, l = g - i
  PROVE  SubSeq(t, k, l) = SubSeq(s, d + 1, g)
  <1> DEFINE u == SubSeq(t, k, l)
             v == SubSeq(s, d + 1, g)
             h == g - d
             m == i + 1
             f == d + 1
  <1>1. /\ m \in 1 .. Len(s) + 1 /\ e \in m - 1 .. Len(s) /\ e - m + 1 = e - i
        /\ f \in 1 .. Len(s) + 1 /\ g \in f - 1 .. Len(s) /\ g - f + 1 = h
    OBVIOUS
  <1>2. k \in 1 .. (e - i) + 1 /\ l \in k - 1 .. e - i /\ l - k + 1 = h
    OBVIOUS
  <1>3. \A j \in 1 .. h : k + j - 1 \in 1 .. e - i /\ m + (k + j - 1) - 1 = f + j - 1
    OBVIOUS
  <1>4. t = SubSeq(s, m, e) /\ v = SubSeq(s, f, g)
    OBVIOUS
  <1> HIDE DEF m, f, h, v
  <1>5. /\ t \in Seq(S) /\ Len(t) = e - i
        /\ \A j \in 1 .. e - i : t[j] = s[m + j - 1]
    BY <1>1, <1>4, Cut
  <1>6. /\ u \in Seq(S) /\ Len(u) = h
        /\ \A j \in 1 .. h : u[j] = t[k + j - 1]
    BY <1>2, <1>5, Cut
  <1> HIDE DEF u
  <1>7. /\ v \in Seq(S) /\ Len(v) = h
        /\ \A j \in 1 .. h : v[j] = s[f + j - 1]
    BY <1>1, <1>4, Cut
  <1>8. \A j \in 1 .. h : u[j] = v[j]
    BY <1>3, <1>5, <1>6, <1>7
  <1>9. u = v
    BY <1>6, <1>7, <1>8, SeqEqual
  <1> QED  BY <1>9 DEF u, v

(* A window that is moved on is a window on the same input: from d to g    *)
(* where it was from i to e.                                               *)
LEMMA RefillKeeps ==
  ASSUME IInv, ~ input_eof, NEW p, GoodCursor(p, <<>>, Len(win)), p.buf = Main,
         Refill(p), input' = input
  PROVE  /\ WindowInv'
         /\ GoodCursor(bptr', <<>>, Len(win')) /\ bptr'.buf = Main
         /\ bptr'.avail = Len(win')
  <1> DEFINE c == input.cells
             S == {c[j] : j \in DOMAIN c}
             L == Len(c)
             i == start_offset
             n == Smaller(BufSize - Len(Kept(p)), Len(rest))
             d == i + p.offset
             e == i + Len(win)
             g == e + n
  <1>1. /\ win' = Kept(p) \o SubSeq(rest, 1, n)
        /\ rest' = SubSeq(rest, n + 1, Len(rest))
        /\ input_eof' = (Len(win') < BufSize)
        /\ start_offset' = d
        /\ bptr' = [p EXCEPT !.offset = 0, !.avail = Len(win')]
    BY Zenon DEF Refill
  <1>2. /\ input \in Inputs /\ i \in Nat /\ Len(win) \in Nat /\ Len(win) = BufSize
        /\ e <= L
    BY DEF IInv, WindowInv
  <1>3. win = SubSeq(c, i + 1, e) /\ rest = SubSeq(c, e + 1, L)
    BY DEF IInv, WindowInv
  <1>4. c \in Seq(S) /\ L \in Nat /\ L = Len(c)
    BY WindowOK DEF IInv, WellFormed, Cells
  <1>5. /\ p.offset \in Nat /\ p.avail \in Nat /\ p.offset + p.avail = Len(win)
        /\ p \in Bufptr /\ p.sav = Null /\ p.sav_avail = 0 /\ p.sav_offset = 0
        /\ p.alloced = 0
    BY DEF GoodCursor, Bufptr, Null, Main
  <1>6. /\ d \in Nat /\ e \in Nat /\ i <= d /\ d <= e
        /\ p.offset + 1 = d - i + 1 /\ p.offset + p.avail = e - i /\ e - d = p.avail
    <2> DEFINE o == p.offset
               a == p.avail
               w == Len(win)
    <2>1. /\ d = i + o /\ e = i + w /\ w \in Nat /\ i \in Nat
          /\ o \in Nat /\ a \in Nat /\ o + a = w
      BY <1>2, <1>5
    <2> HIDE DEF d, e, i, n, c, S, L, g, o, a, w
    <2>2. /\ d \in Nat /\ e \in Nat /\ i <= d /\ d <= e
          /\ o + 1 = d - i + 1 /\ o + a = e - i /\ e - d = a
      BY <2>1
    <2> QED  BY <2>2 DEF o, a
  <1>7. input'.cells = c
    OBVIOUS
  <1> HIDE DEF c, S, L, i, n, d, e, g
  <1>8. Kept(p) = SubSeq(c, d + 1, e) /\ Len(Kept(p)) = p.avail
    <2> DEFINE k == p.offset + 1
               l == p.offset + p.avail
               f == d + 1
    <2>1. k = d - i + 1 /\ l = e - i /\ e <= e
          /\ f \in 1 .. L + 1 /\ e \in f - 1 .. L /\ e - f + 1 = p.avail
      BY <1>2, <1>4, <1>6
    <2>2. Kept(p) = SubSeq(win, k, l)
      BY DEF Kept
    <2>3. f = d + 1
      OBVIOUS
    <2> HIDE DEF k, l, f
    <2>4. SubSeq(win, k, l) = SubSeq(c, d + 1, e)
      BY <1>2, <1>3, <1>4, <1>6, <2>1, CutOfCut
    <2>5. Len(SubSeq(c, f, e)) = p.avail
      BY <1>4, <2>1, Cut
    <2> QED  BY <2>2, <2>3, <2>4, <2>5
  <1>9. Len(rest) = L - e /\ L - e \in Nat
    <2> DEFINE f == e + 1
    <2>1. f \in 1 .. L + 1 /\ L \in f - 1 .. L /\ L - f + 1 = L - e /\ L - e \in Nat
      BY <1>2, <1>4, <1>6
    <2>2. rest = SubSeq(c, f, L)
      BY <1>3
    <2> HIDE DEF f
    <2>3. Len(rest) = L - f + 1
      BY <1>4, <2>1, <2>2, Cut
    <2> QED  BY <2>1, <2>3
  <1>10. n \in Nat /\ n <= L - e /\ p.avail + n <= BufSize
    <2>1. BufSize - p.avail \in Nat
      BY <1>2, <1>5
    <2>2. n = Smaller(BufSize - p.avail, L - e)
      BY <1>8, <1>9 DEF n
    <2> QED  BY <1>2, <1>5, <1>9, <2>1, <2>2 DEF Smaller
  <1>11. /\ g \in Nat /\ e <= g /\ g <= L /\ g - d = p.avail + n
         /\ n = g - e /\ n + 1 = g - e + 1
    BY <1>4, <1>5, <1>6, <1>9, <1>10 DEF g
  <1>12. SubSeq(rest, 1, n) = SubSeq(c, e + 1, g)
    <2> DEFINE k == 1
    <2>1. k = e - e + 1 /\ e <= e /\ L <= L /\ k = 1
      BY <1>4, <1>6
    <2> HIDE DEF k
    <2>2. SubSeq(rest, k, n) = SubSeq(c, e + 1, g)
      BY <1>3, <1>4, <1>6, <1>11, <2>1, CutOfCut
    <2> QED  BY <2>1, <2>2
  <1>13. SubSeq(rest, n + 1, Len(rest)) = SubSeq(c, g + 1, L)
    <2> DEFINE k == n + 1
    <2>1. k = g - e + 1 /\ L <= L
      BY <1>4, <1>11
    <2> HIDE DEF k
    <2>2. SubSeq(rest, k, Len(rest)) = SubSeq(c, g + 1, L)
      BY <1>3, <1>4, <1>6, <1>9, <1>11, <2>1, CutOfCut
    <2> QED  BY <2>2 DEF k
  <1>14. win' = SubSeq(c, d + 1, g) /\ Len(win') = g - d
    <2> DEFINE f == d + 1
    <2>1. /\ f \in 1 .. L + 1 /\ e \in f - 1 .. L /\ g \in e .. L /\ g \in f - 1 .. L
          /\ g - f + 1 = g - d
      BY <1>4, <1>6, <1>11
    <2>2. win' = SubSeq(c, f, e) \o SubSeq(c, e + 1, g)
      BY <1>1, <1>8, <1>12
    <2> HIDE DEF f
    <2>3. win' = SubSeq(c, f, g)
      BY <1>4, <2>1, <2>2, ConcatAdjacentSubSeq
    <2>4. Len(SubSeq(c, f, g)) = g - f + 1
      BY <1>4, <2>1, Cut
    <2> QED  BY <2>1, <2>3, <2>4 DEF f
  <1>15. /\ Len(win') \in Nat /\ d + Len(win') = g /\ Len(win') <= BufSize
    BY <1>4, <1>6, <1>10, <1>11, <1>14
  <1>16. input_eof' \in BOOLEAN /\ (~ input_eof' => Len(win') = BufSize)
    <2> DEFINE short == Len(win') < BufSize
    <2>1. input_eof' \in BOOLEAN /\ (~ input_eof' => ~ (Len(win') < BufSize))
      <3>1. short \in BOOLEAN
        BY <1>2, <1>15
      <3>2. input_eof' = short
        BY <1>1
      <3> HIDE DEF short
      <3>3. input_eof' \in BOOLEAN /\ (~ input_eof' => ~ short)
        BY <3>1, <3>2, Zenon
      <3> QED  BY <3>3 DEF short
    <2>2. ~ (Len(win') < BufSize) => Len(win') = BufSize
      BY <1>2, <1>15
    <2> QED  BY <2>1, <2>2
  <1>17. WindowInv'
    <2>1. /\ win' = SubSeq(c, d + 1, d + Len(win'))
          /\ rest' = SubSeq(c, d + Len(win') + 1, L)
          /\ d + Len(win') <= L
      BY <1>1, <1>11, <1>13, <1>14, <1>15
    <2> QED  BY <1>1, <1>2, <1>4, <1>6, <1>7, <1>15, <1>16, <2>1, Zenon DEF WindowInv
  <1>18. /\ bptr' \in Bufptr /\ bptr'.buf = Main /\ bptr'.offset = 0
         /\ bptr'.avail = Len(win') /\ bptr'.sav = Null /\ bptr'.sav_avail = 0
         /\ bptr'.sav_offset = 0 /\ bptr'.alloced = 0
    BY <1>1, <1>5, <1>15 DEF Bufptr
  <1>19. GoodCursor(bptr', <<>>, Len(win'))
    BY <1>15, <1>18 DEF GoodCursor, Null, Main
  <1> QED  BY <1>17, <1>18, <1>19


(* A key is done: its blocks are freed, and the window may move on.        *)
LEMMA KeyDoneIInv ==
  ASSUME IInv, KeyDone
  PROVE  IInv'
  <1> DEFINE p == FreeAlloced(bptr)
             moves == ~ input_eof /\ HalfBehind(p)
  <1>1. /\ pc = "keydone" /\ heap' = <<>> /\ UNCHANGED <<dec, loop, rc, input>>
        /\ pc' = "done" \/ (pc' = "hdr" /\ bptr'.avail # 0)
    BY DEF KeyDone, Finish
  <1>2. \/ moves /\ Refill(p)
        \/ bptr' = p /\ UNCHANGED <<win, rest, input_eof, start_offset>>
    BY DEF KeyDone
  <1>3. PICK e \in 0 .. Len(win) : /\ ~ input_eof => e = Len(win)
                                   /\ GoodCursor(bptr, heap, e)
    BY SomeEnd
  <1>4. GoodCursor(p, <<>>, e) /\ p.buf \in {Null, Main}
    <2>1. Within(bptr, 0)
      BY <1>1 DEF IInv, PlaceInv
    <2>2. Len(heap) \in Nat /\ e \in Nat
      BY SomeEnd
    <2> QED  BY <1>3, <2>1, <2>2, FreeGood
  <1> HIDE DEF p
  <1>5. rc = "ok" /\ dec.opened
    BY <1>1 DEF IInv, PcOK, OpenInv
  <1>6. /\ WindowInv' /\ CursorInv'
        /\ bptr'.buf \in {Null, Main} /\ (bptr'.buf = Null => bptr'.avail = 0)
    <2>1. CASE moves /\ Refill(p)
      <3>1. p.buf = Main
        <4>1. BufSize \in Nat
          BY MainAssumption
        <4>2. p.offset > BufSize \div 2
          BY <2>1 DEF HalfBehind
        <4>3. ~ (0 > BufSize \div 2)
          BY <4>1
        <4>4. p.buf = Null => p.offset = 0
          BY <1>4 DEF GoodCursor
        <4> QED  BY <1>4, <4>2, <4>3, <4>4
      <3>2. ~ input_eof /\ GoodCursor(p, <<>>, Len(win))
        BY <1>3, <1>4, <2>1
      <3>3. /\ WindowInv' /\ GoodCursor(bptr', <<>>, Len(win')) /\ bptr'.buf = Main
        BY <1>1, <2>1, <3>1, <3>2, RefillKeeps
      <3>4. Len(win') \in Nat
        BY <3>3 DEF WindowInv
      <3>5. CursorInv'
        BY <1>1, <3>3, <3>4, NoBlocks DEF CursorInv
      <3> QED  BY <3>3, <3>5 DEF Null, Main
    <2>2. CASE bptr' = p /\ UNCHANGED <<win, rest, input_eof, start_offset>>
      <3>1. WindowInv'
        BY <1>1, <2>2 DEF IInv, WindowInv
      <3>2. CursorInv'
        BY <1>1, <1>3, <1>4, <2>2, NoBlocks DEF CursorInv
      <3> QED  BY <1>4, <2>2, <3>1, <3>2 DEF GoodCursor
    <2> QED  BY <1>2, <2>1, <2>2
  <1>7. PcOK'
    BY <1>1, <1>5 DEF PcOK, Codes
  <1>8. DecOK' /\ LoopOK' /\ OpenInv'
    BY <1>1, <1>5 DEF IInv, DecOK, LoopOK, OpenInv
  <1>9. PlaceInv'
    BY <1>1, <1>6 DEF PlaceInv, Within, Null, Main
  <1>10. KeyInv'
    BY <1>1 DEF IInv, KeyInv
  <1> QED  BY <1>6, <1>7, <1>8, <1>9, <1>10 DEF IInv

(* The end of the program.                                                 *)
LEMMA FinishIInv ==
  ASSUME IInv, EndOfFile \/ Error
  PROVE  IInv'
  <1>1. /\ pc = "error" /\ pc' = "done"
        /\ UNCHANGED <<win, bptr, heap, dec, loop, rc>> /\ UNCHANGED main_vars
    BY DEF EndOfFile, Error, Finish
  <1>2. PcOK' /\ DecOK' /\ LoopOK' /\ WindowInv' /\ CursorInv'
    BY <1>1 DEF IInv, PcOK, DecOK, LoopOK, WindowInv, CursorInv, main_vars
  <1>3. OpenInv' /\ PlaceInv' /\ KeyInv'
    BY <1>1 DEF IInv, OpenInv, PlaceInv, KeyInv, main_vars
  <1> QED  BY <1>2, <1>3 DEF IInv

(* Every step of the decoder.                                              *)
LEMMA DecodeIInv ==
  ASSUME IInv, DecodeStep
  PROVE  IInv'
  <1>1. Decode /\ Outside
    BY DEF DecodeStep, Outside
  <1>2. CASE Open
    BY <1>1, <1>2, OpenIInv
  <1>3. CASE (\E k \in Metas : Meta(k)) \/ ModuleAux \/ EofMark
    BY <1>1, <1>3, OpcodeIInv
  <1>4. CASE KeyType
    BY <1>1, <1>4, KeyTypeIInv
  <1>5. CASE KeyHdr
    BY <1>1, <1>5, KeyHdrIInv
  <1>6. CASE StartKey
    BY <1>1, <1>6, StartKeyIInv
  <1>7. CASE HashEntry \/ SetMember \/ ListElem \/ ZSetMember
    BY <1>1, <1>7, ElementIInv
  <1>8. CASE BodyString \/ ZipList \/ ZipMap \/ IntSet
    BY <1>1, <1>8, PieceIInv
  <1>9. CASE EndLoop \/ EndStream \/ StreamNoName
    BY <1>1, <1>9, LoopEndIInv
  <1>10. CASE QuickNode
    BY <1>1, <1>10, QuickIInv
  <1>11. CASE Module
    BY <1>1, <1>11, ModuleIInv
  <1>12. CASE StreamBlock \/ StreamEntry \/ StreamInfo
    BY <1>1, <1>12, StreamBlockIInv, StreamEntryIInv, StreamInfoIInv
  <1>13. CASE StreamGroup \/ StreamPend \/ StreamConsumers
    BY <1>1, <1>13, StreamGroupIInv, StreamPendIInv, StreamConsumersIInv
  <1>14. CASE StreamCons \/ StreamConsPend \/ EndCons \/ EndGroup
    BY <1>1, <1>14, StreamConsIInv, StreamConsPendIInv, StreamEndsIInv
  <1> QED  BY <1>1, <1>2, <1>3, <1>4, <1>5, <1>6, <1>7, <1>8, <1>9, <1>10, <1>11,
              <1>12, <1>13, <1>14 DEF Decode, DecodeStream

(* Nothing happens.                                                        *)
LEMMA StutterIInv == IInv /\ UNCHANGED vars => IInv'
  <1> SUFFICES ASSUME IInv, UNCHANGED vars PROVE IInv'
    OBVIOUS
  <1>1. UNCHANGED <<win, bptr, heap, dec, loop, pc, rc>>
        /\ UNCHANGED <<input, rest, input_eof, start_offset>>
    BY DEF vars, decode_vars, main_vars
  <1>2. PcOK' /\ DecOK' /\ LoopOK' /\ WindowInv' /\ CursorInv'
    BY <1>1 DEF IInv, PcOK, DecOK, LoopOK, WindowInv, CursorInv
  <1>3. OpenInv' /\ PlaceInv' /\ KeyInv'
    BY <1>1 DEF IInv, OpenInv, PlaceInv, WholeValue, KeyInv
  <1> QED  BY <1>2, <1>3 DEF IInv

(* Every step.                                                             *)
LEMMA StepIInv == IInv /\ [Next]_vars => IInv'
  <1> SUFFICES ASSUME IInv, [Next]_vars PROVE IInv'
    OBVIOUS
  <1>1. CASE DecodeStep
    BY <1>1, DecodeIInv
  <1>2. CASE KeyDone
    BY <1>2, KeyDoneIInv
  <1>3. CASE EndOfFile \/ Error
    BY <1>3, FinishIInv
  <1>4. CASE UNCHANGED vars
    BY <1>4, StutterIInv
  <1> QED  BY <1>1, <1>2, <1>3, <1>4 DEF Next, Step, Exited

-----------------------------------------------------------------------------
(* The inductive invariant holds whatever the inputs are. *)
THEOREM Invariance == Spec => []IInv
  <1>1. Init => IInv
    BY InitIInv
  <1>2. IInv /\ [Next]_vars => IInv'
    BY StepIInv
  <1> QED  BY <1>1, <1>2, PTL DEF Spec

(* No cursor into a block that was freed, no block entered but the last,   *)
(* and the key in hand is in a live one until its command is due:          *)
(* decompress(), free_alloced() and show_error() rely on it.               *)
THEOREM BlocksStayLive == Spec => []LiveBlocks
  <1>1. IInv => LiveBlocks
    BY DEF IInv, CursorInv, GoodCursor, KeyInv, LiveBlocks
  <1> QED  BY <1>1, Invariance, PTL

(* fill_buf_stdin() loses nothing and repeats nothing: the window and what *)
(* is still to be read of stdin are the input from start_offset on.        *)
THEOREM WindowIsInput == Spec => []WindowTracks
  <1>1. ASSUME IInv PROVE WindowTracks
    <2> DEFINE c == input.cells
               S == {c[j] : j \in DOMAIN c}
               L == Len(c)
               m == start_offset + 1
               e == start_offset + Len(win)
    <2>1. c \in Seq(S) /\ L \in Nat /\ L = Len(c)
      BY <1>1, WindowOK DEF IInv, WellFormed, Cells
    <2>2. /\ start_offset \in Nat /\ Len(win) \in Nat /\ e <= L
          /\ win = SubSeq(c, m, e) /\ rest = SubSeq(c, e + 1, L)
      BY <1>1 DEF IInv, WindowInv
    <2>3. m \in 1 .. L + 1 /\ e \in m - 1 .. L /\ L \in e .. L
      BY <2>1, <2>2
    <2> HIDE DEF c, S, L, m, e
    <2>4. SubSeq(c, m, e) \o SubSeq(c, e + 1, L) = SubSeq(c, m, L)
      BY <2>1, <2>3, ConcatAdjacentSubSeq
    <2> QED  BY <2>2, <2>4 DEF WindowTracks, c, L, m
  <1> QED  BY <1>1, Invariance, PTL

(* The type invariant of the program: the cursor counts no cells that are  *)
(* not there, and an error code is seen only where main() looks at it.     *)
THEOREM TypeCorrect == Spec => []TypeOK
  <1>1. ASSUME IInv PROVE TypeOK
    <2>1. /\ bptr \in Bufptr /\ bptr.buf \in {Null, Main, Len(heap)}
          /\ Len(heap) \in Nat
      BY <1>1 DEF IInv, CursorInv, GoodCursor, GoodHeap
    <2>2. bptr.buf \in Null .. Len(heap) /\ bptr.sav \in {Null, Main}
      BY <2>1 DEF Bufptr, Null, Main
    <2>3. {bptr.avail, bptr.offset, bptr.sav_avail, start_offset} \subseteq Nat
      BY <1>1, <2>1 DEF IInv, WindowInv, Bufptr
    <2>4. input_eof \in BOOLEAN /\ dec.data \in BOOLEAN
      BY <1>1 DEF IInv, WindowInv, DecOK
    <2> QED  BY <1>1, <2>2, <2>3, <2>4
             DEF IInv, PcOK, Codes, DecOK, LoopOK, TypeOK
  <1> QED  BY <1>1, Invariance, PTL


-----------------------------------------------------------------------------
(* A dump that is damaged. *)

(* A damaged dump is never opened: nothing but the refusal is reported, so *)
(* no later step can find something of it to report.                       *)
Refused == /\ ~ dec.opened /\ win = input.cells
           /\ \/ pc = "hdr" /\ evs = <<>>
              \/ pc = "error" /\ rc # "eof" /\ evs = <<>>
              \/ pc = "done" /\ evs = <<<<"d_finish", 0, <<FALSE>>>>>>
CrcInv == Damaged(input) => Refused

(* All of a dump is in the window from the start. *)
LEMMA InitCrcInv == Init => CrcInv
  <1> SUFFICES ASSUME Init, Damaged(input) PROVE Refused
    BY DEF CrcInv
  <1> DEFINE c == input.cells
             S == {c[i] : i \in DOMAIN c}
  <1>1. input \in Inputs /\ ~ IsFile(c)
    BY DamageAssumption DEF Init
  <1>2. win = SubSeq(c, 1, Len(c))
    BY <1>1 DEF Init, FirstFill
  <1>3. c \in Seq(S)
    BY <1>1, InputsAssumption DEF WellFormed, Cells
  <1>4. ~ dec.opened /\ pc = "hdr" /\ evs = <<>>
    BY DEF Init, NewDecode
  <1>5. win = c
    <2> HIDE DEF c, S
    <2> QED  BY <1>2, <1>3
  <1> QED  BY <1>4, <1>5 DEF Refused

(* The places that decode_hdr() looks for the checksum in are cells of the *)
(* dump, or hold what is no checksum.                                      *)
LEMMA OpenCrcInv ==
  ASSUME IInv, Refused, Damaged(input), Open, UNCHANGED input
  PROVE  Refused'
  <1> DEFINE n == Len(win)
  <1>1. /\ pc = "hdr" /\ ~ dec.opened /\ UNCHANGED <<win, evs>>
        /\ win = input.cells /\ evs = <<>>
    BY DEF Open, Refused
  <1>2. bptr.avail = n /\ n \in Nat
    BY <1>1, SomeEnd DEF IInv, OpenInv, NewBufptr
  <1>3. input \in Inputs /\ ~ IsFile(win) /\ \A i \in 1 .. n : win[i] \notin Checksums
    BY <1>1, DamageAssumption DEF IInv, WindowInv
  <1> HIDE DEF n
  <1>4. CASE bptr.avail < 2
    <2>1. rc' = "trunc" /\ pc' = "error" /\ UNCHANGED dec
      BY <1>2, <1>4 DEF Open
    <2> QED  BY <1>1, <2>1 DEF Refused
  <1>5. CASE bptr.avail >= 2 /\ OpenFile
    <2>1. win # <<>> /\ win[1][1] = "magic"
      BY <1>2, <1>5 DEF OpenFile, n
    <2> QED  BY <1>3, <2>1 DEF IsFile
  <1>6. CASE bptr.avail >= 2 /\ OpenDump
    <2>1. n - 1 \in 1 .. n /\ n \in 1 .. n
      BY <1>2, <1>6
    <2>2. win[bptr.avail] \notin Checksums /\ win[bptr.avail - 1] \notin Checksums
      BY <1>2, <1>3, <2>1
    <2>3. <<"crc", "bad">> \notin Checksums
      BY DEF Checksums
    <2>4. Checksum \notin Checksums
      BY <2>2, <2>3 DEF Checksum
    <2>5. rc' = "crc" /\ pc' = "error" /\ UNCHANGED dec
      BY <1>6, <2>4 DEF OpenDump, Checksums
    <2> QED  BY <1>1, <2>5 DEF Refused
  <1> QED  BY <1>4, <1>5, <1>6 DEF Open

(* Of the steps of the decoder only Open is taken before the dump is       *)
(* opened, and none once it is refused.                                    *)
LEMMA StepCrcInv == IInv /\ CrcInv /\ [Next]_vars => CrcInv'
  <1> SUFFICES ASSUME IInv, CrcInv, [Next]_vars, Damaged(input)' PROVE Refused'
    BY DEF CrcInv
  <1>1. UNCHANGED input
    BY DEF Next, Step, DecodeStep, KeyDone, EndOfFile, Error, Exited, vars, main_vars
  <1>2. Damaged(input) /\ Refused
    BY <1>1 DEF CrcInv
  <1>3. pc \in {"hdr", "error", "done"} /\ ~ dec.opened
    BY <1>2 DEF Refused
  <1>4. CASE DecodeStep
    <2>1. Decode
      BY <1>4 DEF DecodeStep
    <2>2. ~ ((\E k \in Metas : Meta(k)) \/ ModuleAux \/ EofMark)
      BY <1>3, ZenonT(30) DEF Meta, ModuleAux, EofMark, Opcode
    <2>3. ~ (KeyType \/ KeyHdr \/ StartKey)
      BY <1>3 DEF KeyType, KeyHdr, StartKey
    <2>4. \A types : ~ Body(types)
      BY <1>3 DEF Body
    <2>5. ~ (BodyString \/ HashEntry \/ SetMember \/ ListElem \/ ZSetMember \/ EndLoop)
      BY <2>4, ZenonT(30) DEF BodyString, HashEntry, SetMember, ListElem, ZSetMember,
                              Element, EndLoop
    <2>6. ~ (ZipList \/ ZipMap \/ IntSet \/ QuickNode \/ Module)
      BY <2>4, ZenonT(30) DEF ZipList, ZipMap, IntSet, QuickNode, Module
    <2>7. \A part : ~ Part(part)
      BY <2>4 DEF Part
    <2>8. ~ (StreamBlock \/ StreamEntry \/ StreamInfo \/ StreamNoName \/ StreamGroup)
      BY <2>7, ZenonT(30) DEF StreamBlock, StreamEntry, StreamInfo, StreamNoName, StreamGroup
    <2>9. ~ (StreamPend \/ StreamConsumers \/ StreamCons \/ StreamConsPend)
      BY <2>7, ZenonT(30) DEF StreamPend, StreamConsumers, StreamCons, StreamConsPend
    <2>10. ~ (EndCons \/ EndGroup \/ EndStream)
      BY <2>7, ZenonT(30) DEF EndCons, EndGroup, EndStream
    <2>11. Open
      BY <2>1, <2>2, <2>3, <2>5, <2>6, <2>8, <2>9, <2>10 DEF Decode, DecodeStream
    <2> QED  BY <1>1, <1>2, <2>11, OpenCrcInv
  <1>5. CASE KeyDone
    BY <1>3, <1>5 DEF KeyDone
  <1>6. CASE EndOfFile
    BY <1>2, <1>6 DEF EndOfFile, Refused
  <1>7. CASE Error
    <2>1. /\ pc = "error" /\ pc' = "done"
          /\ evs' = Append(evs, <<"d_finish", 0, <<FALSE>>>>)
          /\ UNCHANGED <<win, dec, input>>
      BY <1>7 DEF Error, Finish, main_vars
    <2>2. evs = <<>>
      BY <1>2, <2>1 DEF Refused
    <2>3. evs' = <<<<"d_finish", 0, <<FALSE>>>>>>
      BY <2>1, <2>2
    <2> QED  BY <1>2, <2>1, <2>3 DEF Refused
  <1>8. CASE UNCHANGED vars
    BY <1>2, <1>8 DEF vars, decode_vars, main_vars, Refused
  <1> QED  BY <1>4, <1>5, <1>6, <1>7, <1>8 DEF Next, Step, Exited

(* The checksum that decode_hdr() verifies: whatever a damaged dump holds, *)
(* d_finish(false) is the only call made for it.                           *)
THEOREM DamageUnread == Spec => []CrcGuards
  <1>1. IInv /\ CrcInv /\ [Next]_vars => CrcInv'
    BY StepCrcInv
  <1>2. CrcInv => CrcGuards
    BY DEF CrcInv, Refused, CrcGuards
  <1> QED  BY <1>1, <1>2, InitCrcInv, Invariance, PTL DEF Spec
=============================================================================
