----------------------------- MODULE RdbRoundTrip -----------------------------
(***************************************************************************)
(* The program of RdbMain fed with what RdbWire writes, whole or damaged:  *)
(* what it must report, restore and refuse.                                *)
(***************************************************************************)
EXTENDS RdbMain, SequencesExt

W == INSTANCE RdbWire
J == INSTANCE RdbJson
T == INSTANCE JsonText
G == INSTANCE Glob

(* -e asks for the keys that match a glob, -v for the others, -i for those *)
(* that match in some mix of cases.  A key stored as an integer matches    *)
(* nothing.                                                                *)
LowerAll(s) == [i \in DOMAIN s |-> Lower(s[i])]
Chars(key) == [i \in DOMAIN key[2] |-> key[2][i][2]]
Asked(filter, key) ==
  /\ key[1] = "str"
  /\ filter.expr # <<>>
  /\ IF filter.ign_case THEN G!Matches(LowerAll(filter.expr), LowerAll(Chars(key)))
     ELSE G!Matches(filter.expr, Chars(key))
Wanted(filter, key) == Asked(filter, key) # filter.invert

(* The calls that are due for an item: all of them, or those for its data. *)
DataDue(item, key, filter) ==
  IF ~ W!IsKey(item) THEN <<>>
  ELSE IF Wanted(filter, key) THEN W!ValueEvents(item, key)
  ELSE <<<<"d_start_type", <<item.type>>>>>>

AllDue(item, key, filter) == W!MetaEvents(item) \o DataDue(item, key, filter)

(* The command due for a key, but for the time to live. *)
RestoreDue(item, key) ==
  [key |-> key, body |-> <<<<"type", item.type>>>> \o W!ValueCells(item.type, item.value)]

(* The meta data that a RESTORE of the key should go by. *)
MetaOf(item, k) == LET ms == SelectSeq(item.meta, LAMBDA m : m[1] = k)
                   IN  IF ms = <<>> THEN 0 ELSE ms[1][2]
Own(item) == [ttl_ms |-> MetaOf(item, "d_expired_ms") + 1000 * MetaOf(item, "d_expired"),
              idle |-> MetaOf(item, "d_idle"), freq |-> MetaOf(item, "d_freq")]

(* The inputs: a file, or what is left of it when it is cut, which loses   *)
(* nothing if it is only the checksum; a dump, with its version and        *)
(* checksum, which is cut too, if only by the newline.  With each input    *)
(* goes what the program owes for it.                                      *)
KeyOf(item) == IF W!IsKey(item) THEN W!StrValue(item.key[1]) ELSE NoKey

File(items, filter, stdin, cut) ==
  LET c == W!FileCells(items)
      n == Len(items)
      wanted == SelectSeq(items, LAMBDA item : W!IsKey(item) /\ Wanted(filter, KeyOf(item)))
  IN  [form |-> "file", cells |-> SubSeq(c, 1, Len(c) - cut),
       filter |-> filter, stdin |-> stdin, intact |-> cut <= 1,
       data |-> W!Concat(LAMBDA i : DataDue(items[i], KeyOf(items[i]), filter), n),
       all  |-> W!Concat(LAMBDA i : AllDue(items[i], KeyOf(items[i]), filter), n),
       cmds |-> [i \in 1 .. Len(wanted) |-> RestoreDue(wanted[i], KeyOf(wanted[i]))],
       own  |-> [i \in 1 .. Len(wanted) |-> Own(wanted[i])],
       raw_keys |-> {i \in 1 .. Len(wanted) : wanted[i].key[1][1] = "raw"},
       (* where the file may be cut without losing part of a key *)
       key_ends |-> {Len(W!FileCells(SubSeq(items, 1, i))) - 2 :
                       i \in {j \in 1 .. n : W!IsKey(items[j])}}]

Dump(item, ver, crc, newline, stdin, cut) ==
  LET c == W!DumpCells(item, ver, crc, newline)
  IN  [form |-> "dump", cells |-> SubSeq(c, 1, Len(c) - cut),
       filter |-> NoFilter, stdin |-> stdin,
       intact |-> crc # "bad" /\ cut <= IF newline THEN 1 ELSE 0,
       data |-> W!ValueEvents(item, NoKey), all |-> W!ValueEvents(item, NoKey),
       cmds |-> <<RestoreDue(item, Garbage)>>, own |-> <<Own(item)>>, raw_keys |-> {}, key_ends |-> {}]

-----------------------------------------------------------------------------
Plain(e) == <<e[1], e[3]>>
NotFinish(e) == e[1] # "d_finish"
NotMeta(e) == e[1] \notin Metas \cup {"d_finish"}

Called(test(_)) == LET es == SelectSeq(evs, test)
                   IN  [i \in 1 .. Len(es) |-> Plain(es[i])]

Finished == pc = "done"
Succeeded == Finished /\ evs[Len(evs)][3][1]

-----------------------------------------------------------------------------
(* Type invariant. *)
TypeOK ==
  /\ bptr.buf \in Null .. Len(heap) /\ bptr.sav \in {Null, Main}
  /\ {bptr.avail, bptr.offset, bptr.sav_avail, start_offset} \subseteq Nat
  /\ pc \in {"hdr", "len", "start", "body", "keydone", "error", "done"}
  /\ rc \in {"ok", "eof", "trunc", "version", "crc", "type", "hdr", "lzf", "notsup"}
  /\ rc # "ok" => pc \in {"error", "done"}
  /\ dec.type \in Types \cup {"bad"} /\ loop.cnt \in Nat /\ loop.num \in Nat
  /\ dec.data \in BOOLEAN /\ input_eof \in BOOLEAN

(* Whatever is compressed, filtered or cut off, the values reported are    *)
(* those written, in their order: no element is invented, repeated,        *)
(* misread or attributed to another key.                                   *)
NoneWrong == IsPrefix(Called(NotMeta), input.data)

(* d_finish(true) means that every key there was has been reported in      *)
(* full, and an intact input ends in d_finish(true).                       *)
Verdict ==
  Finished =>
    /\ input.intact => Succeeded
    /\ Succeeded => IF input.intact
                    THEN Called(NotMeta) = input.data
                    ELSE Len(input.cells) \in input.key_ends

(* Meta data is reported, too, and in its place: after the key before it   *)
(* and ahead of the key it was written with.                               *)
MetaInPlace == IsPrefix(Called(NotFinish), input.all)

(* "meta info, the idle, freq, expired belong to the next key": when the   *)
(* command of a key is due, RestoreOutput holds the times of that key, and *)
(* no other key's.                                                         *)
OwnMeta == pc = "keydone" /\ restore.is_matched =>
             LET own == input.own[Len(Called(LAMBDA e : e[1] = "d_start_key"))]
             IN  /\ restore.ttl_ms = own.ttl_ms
                 /\ restore.idle = own.idle /\ restore.freq = own.freq

(* The elements of a key are numbered from 0, one by one.  "num is the     *)
(* current element or field".                                              *)
Numbered ==
  \A i \in 2 .. Len(evs) :
    evs[i][1] \in {"d_hash", "d_set", "d_zset", "d_list",
                  "d_stream_entry", "d_stream_pend", "d_stream_cons_pend"} =>
      evs[i][2] = IF evs[i - 1][1] = evs[i][1] THEN evs[i - 1][2] + 1 ELSE 0

(* With -r a file gives one command for every key wanted: the key, and the *)
(* bytes that a DUMP of it would have, however many blocks the value was   *)
(* expanded in.                                                            *)
Restored(which) ==
  input.form = "file" =>
    /\ Len(cmds) <= Len(input.cmds)
    /\ \A i \in (1 .. Len(cmds)) \cap which :
         cmds[i].key = input.cmds[i].key /\ cmds[i].body = input.cmds[i].body
    /\ Finished /\ input.intact => Len(cmds) = Len(input.cmds)

RawKeysRestored == Restored(input.raw_keys)

(* As long as all of the input fits in the window. *)
RestoredInWindow == ~ input.stdin \/ Len(input.cells) <= BufSize => RawKeysRestored

(* The same of keys that Redis stored as integers or compressed: "write    *)
(* restore command, key, and data".                                        *)
AllKeysRestored == Restored(1 .. Len(input.cmds))

(* A command is a type of the input and, up to where the next key begins,  *)
(* what is behind it, less the key of the command and its length.          *)
CutOut(cmd, next) ==
  \E i \in 1 .. Len(input.cells) :
    LET n == IF dec.is_rdb_file THEN 1 + Len(cmd.key[2]) ELSE 0
        cells(j, k) == SubSeq(input.cells, j, k)
    IN  /\ input.cells[i][1] = "type" /\ input.cells[i][2] = dec.type
        /\ dec.is_rdb_file => /\ input.cells[i + 1][1] = "len"
                              /\ input.cells[i + 1][2] = Len(cmd.key[2])
                              /\ cells(i + 2, i + n) = cmd.key[2]
        /\ cmd.body = <<input.cells[i]>> \o cells(i + n + 1, next)

(* write_restore_cmd() finds the value a second time.  Until the window has*)
(* moved it takes each command from between two keys of the input, whatever*)
(* the input is, unless the key was compressed or an integer: those of a   *)
(* file are not in the input as they are.                                  *)
CutFromInput ==
  [][cmds' # cmds /\ start_offset = 0 =>
       LET cmd == cmds'[Len(cmds')]
       IN  \/ dec.is_rdb_file /\ cmd.key = Garbage
           \/ CutOut(cmd, start_offset' + bptr'.offset)]_vars

(* The cursor never points into a block that was freed, and in no other    *)
(* than the last one, which is where show_error() looks for it.  The key   *)
(* in hand is in a live block until its command is due.                    *)
LiveBlocks == /\ bptr.buf \in {Null, Main, Len(heap)} /\ bptr.alloced = Len(heap)
              /\ pc \in {"start", "body", "keydone"} => dec.key_block <= Len(heap)

(* What a damaged dump holds is not reported at all: it is no file, and    *)
(* nothing in it is taken for the checksum that it should have had.        *)
Damaged(in) == in.form = "dump" /\ ~ in.intact
Checksums == {<<"crc", c>> : c \in {"good", "good 0a", "zero"}}

ASSUME DamageAssumption ==
  \A in \in Inputs : Damaged(in) => /\ ~ IsFile(in.cells)
                                   /\ \A i \in 1 .. Len(in.cells) : in.cells[i] \notin Checksums

CrcGuards == Damaged(input) => evs = <<>> \/ evs = <<<<"d_finish", 0, <<FALSE>>>>>>

(* The window is a contiguous part of the input and nothing between it and *)
(* stdin is lost.                                                          *)
WindowTracks == win \o rest = SubSeq(input.cells, start_offset + 1, Len(input.cells))

(* The loop is left without an end-of-file mark only when there is "no     *)
(* data left".                                                             *)
NoDataLeft == Finished /\ rc = "ok" => rest = <<>>

(* "default is to print json of matching data": with or without meta data, *)
(* what is printed is one JSON text, or the beginning of one if the input  *)
(* was refused.                                                            *)
JsonDocument ==
  Finished => \A show_meta \in BOOLEAN :
                LET out == J!Printed(evs, show_meta)
                IN  IF Succeeded THEN T!IsText(out) ELSE T!IsBeginning(out)

(* "count of stream entries": as many entries of a stream are reported as  *)
(* its info says there are.                                                *)
EntriesBefore(i) ==
  LET start == Max({j \in 1 .. i : evs[j][1] = "d_start_key"})
  IN  Cardinality({j \in start .. i : evs[j][1] = "d_stream_entry"})
StreamCounts == \A i \in 1 .. Len(evs) :
                  evs[i][1] = "d_stream_info" => EntriesBefore(i) = evs[i][3][1]

(* Every input is finished with. *)
Terminates == <>Finished

(* What is left to do: cells of the input, then cells of the block that    *)
(* the cursor is in, then stages of the key in hand.                       *)
MainLeft(p) == IF p.buf = Main THEN p.avail ELSE p.sav_avail
BlockLeft(p) == IF p.buf = Main THEN 0 ELSE p.avail
Stage == CASE pc = "done" -> 0
           [] pc = "error" -> 1
           [] pc \in {"hdr", "len"} -> 2
           [] pc = "keydone" -> 3
           [] pc = "start" -> 5
           [] pc = "body" -> 4 + CASE loop.part = "blocks" -> loop.entry.items
                                   [] loop.part = "cons" -> 1
                                   [] loop.part = "conp" -> 2
                                   [] OTHER -> 0

(* No step is taken in vain, and no count in the input keeps a loop going  *)
(* when nothing is left to read: a step reads on, in the input or in the   *)
(* block, or it comes nearer to the end of the key.                        *)
ReadsOn(p, n, q, m) == \/ MainLeft(q) + m < MainLeft(p) + n
                       \/ /\ MainLeft(q) + m = MainLeft(p) + n
                          /\ BlockLeft(q) < BlockLeft(p)
StaysAt(p, n, q, m) == /\ MainLeft(q) + m = MainLeft(p) + n
                       /\ BlockLeft(q) = BlockLeft(p)
Progress == [][\/ ReadsOn(bptr, Len(rest), bptr', Len(rest'))
               \/ StaysAt(bptr, Len(rest), bptr', Len(rest')) /\ Stage' < Stage]_vars
=============================================================================
