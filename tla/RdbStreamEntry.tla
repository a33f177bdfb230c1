---------------------------- MODULE RdbStreamEntry ----------------------------
(***************************************************************************)
(* struct RdbStreamEntry: the header of a stream's listpack and the        *)
(* entries behind it, as operators on a record with its fields.            *)
(*                                                                         *)
(* Field names and values are gathered in tables.  A table is in tmp, at   *)
(* an offset, while there is room, and otherwise in a block of its own.    *)
(* An entry with the same fields as the header's master shares its table.  *)
(* A listpack is a sequence of cells, <<"num", n>> for an integer and      *)
(* <<"byte", x>> for a string, list is what next() has left of it, and     *)
(* items the number of entries left.                                       *)
(***************************************************************************)
EXTENDS Integers, Sequences

CONSTANT TMP_SIZE  \* values that tmp has room for

ASSUME StreamEntryAssumption == TMP_SIZE \in Nat

NoTable == <<"null">>
Tmp(i) == <<"tmp", i>>
Block(k) == <<"block", k>>

Nothing == <<"nothing">>

NewEntry == [list |-> <<>>, items |-> 0, id |-> <<0, 0>>, diff |-> <<0, 0>>, flags |-> 0,
             master |-> NoTable, master_count |-> 0,
             fields |-> NoTable, values |-> NoTable, count |-> 0,
             tmp |-> [i \in 1 .. TMP_SIZE |-> Nothing], blocks |-> <<>>, ok |-> TRUE]

IsNum(c) == c[1] = "num"
(* RdbListValue::ival, which of a string is its length. *)
Ival(c) == IF IsNum(c) THEN c[2] ELSE 1

Invalid(e) == [e EXCEPT !.ok = FALSE]
Drop(e, n) == [e EXCEPT !.list = SubSeq(@, n + 1, Len(@))]

(* A table of n values: what is in it now, and with cells put in it. *)
Table(e, t, n) ==
  [i \in 1 .. n |-> CASE t[1] = "tmp"   -> e.tmp[t[2] + i]
                      [] t[1] = "block" -> IF e.blocks[t[2]] = Nothing THEN Nothing
                                           ELSE e.blocks[t[2]][i]]
Put(e, t, cells) ==
  IF t[1] = "tmp"
  THEN [e EXCEPT !.tmp = [i \in DOMAIN @ |-> IF i - t[2] \in 1 .. Len(cells)
                                             THEN cells[i - t[2]] ELSE @[i]]]
  ELSE [e EXCEPT !.blocks[t[2]] = cells]

malloc(e) == [e EXCEPT !.blocks = Append(@, <<>>)]
release(e, t) == IF t[1] = "block" THEN [e EXCEPT !.blocks[t[2]] = Nothing] ELSE e

(* The header: three counts, the names of the master fields, and a zero.   *)
(* The master of the listpack before is forgotten, not released.           *)
MasterTable(e, n) == IF n <= TMP_SIZE THEN [e EXCEPT !.master = Tmp(0)]
                     ELSE [malloc(e) EXCEPT !.master = Block(Len(e.blocks) + 1)]

read_header(e) ==
  IF Len(e.list) < 3 \/ \E i \in 1 .. 3 : ~ IsNum(e.list[i]) THEN Invalid(e)
  ELSE LET n == e.list[3][2]
           h == MasterTable([e EXCEPT !.items = e.list[1][2], !.master_count = n], n)
       IN  IF Len(e.list) < 4 + n THEN Invalid(h)
           ELSE Drop(Put(h, h.master, SubSeq(e.list, 4, 3 + n)), 4 + n)

-----------------------------------------------------------------------------
(* An entry: its flags, the difference of its id, and its fields, which    *)
(* may be the master's.                                                    *)

SAMEFIELDS == 2
DELETED == 1
Flag(e, f) == (e.flags \div f) % 2 = 1

(* Room in tmp behind a master that is there, too. *)
TmpBase(e) == IF e.master = Tmp(0) THEN e.master_count ELSE 0
Place(e, base, n) == IF base + n <= TMP_SIZE THEN [at |-> Tmp(base), e |-> e, end |-> base + n]
                     ELSE [at |-> Block(Len(e.blocks) + 1), e |-> malloc(e), end |-> base]

(* Each operator named after another one, as in Tables_Overlap, is that    *)
(* operator with one mistake in it, to test the properties with.           *)
Tables_Overlap(e, n) ==
  LET f == Place(e, TmpBase(e), n)
      v == Place(f.e, TmpBase(e), n)
  IN  IF Flag(e, SAMEFIELDS) THEN [v.e EXCEPT !.fields = e.master, !.values = v.at]
      ELSE [v.e EXCEPT !.fields = f.at, !.values = v.at]

Tables(e, n) ==
  LET f == Place(e, TmpBase(e), n)
      v == Place(f.e, f.end, n)
      w == Place(e, TmpBase(e), n)
  IN  IF Flag(e, SAMEFIELDS) THEN [w.e EXCEPT !.fields = e.master, !.values = w.at]
      ELSE [v.e EXCEPT !.fields = f.at, !.values = v.at]

(* n values, with their names before each of them or without; then the     *)
(* number of elements that the entry has, which must be right.             *)
Fill(e, cells, n) ==
  LET w == IF Flag(e, SAMEFIELDS) THEN 1 ELSE 2
      t == [Tables(e, n) EXCEPT !.count = n]
      names == Put(t, t.fields, [i \in 1 .. n |-> cells[2 * i - 1]])
  IN  IF Len(cells) <= w * n \/ Ival(cells[w * n + 1]) # (IF w = 1 THEN 3 ELSE 4) + w * n
      THEN Invalid(t)
      ELSE Put(IF w = 1 THEN t ELSE names, t.values, [i \in 1 .. n |-> cells[w * i]])

read_entry(e) ==
  IF Len(e.list) < 4 \/ \E i \in 1 .. 3 : ~ IsNum(e.list[i]) THEN Invalid(e)
  ELSE LET r == release(release([e EXCEPT !.flags = e.list[1][2],
                                          !.diff = <<e.list[2][2], e.list[3][2]>>],
                                e.fields), e.values)
           same == Flag(r, SAMEFIELDS)
           n == IF same THEN e.master_count ELSE Ival(e.list[4])
           k == IF same THEN 3 ELSE 4
           w == IF same THEN 1 ELSE 2
       IN  IF ~ same /\ ~ IsNum(e.list[4]) THEN Invalid(r)
           ELSE Drop(Fill(r, SubSeq(e.list, k + 1, Len(e.list)), n), k + w * n + 1)

(* What JsonOutput::d_stream_entry makes of it. *)
EntryId(e) == <<e.id[1] + e.diff[1], e.id[2] + e.diff[2]>>
Fields(e) == Table(e, e.fields, e.count)
FieldValues(e) == Table(e, e.values, e.count)
=============================================================================
