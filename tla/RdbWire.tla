------------------------------- MODULE RdbWire -------------------------------
(***************************************************************************)
(* What Redis writes: the bytes of an rdb file or of a DUMP, and the calls *)
(* a reader of those bytes must make on its output.  Redis is not part of  *)
(* this repository: its side of the format is taken from what the decoders *)
(* read.                                                                   *)
(*                                                                         *)
(* The bytes are abstracted to cells, a cell being the least a decoder     *)
(* asks for at a time: an opcode, a type byte, a length header, a field of *)
(* fixed size, one byte of a string, one element of a packed list.         *)
(***************************************************************************)
EXTENDS Integers, Sequences, SequencesExt

Byte(x) == <<"byte", x>>
Size(n) == <<"len", n>>

(* A string as Redis may store it: raw, as an integer, or compressed to    *)
(* ZLen cells behind a header.                                             *)
Raw(s) == <<"raw", s>>
IntStr(i) == <<"int", i>>
Lzf(s) == <<"lzf", s>>

ZLen == 2

StrCells(s) ==
  CASE s[1] = "raw" -> <<Size(Len(s[2]))>> \o s[2]
    [] s[1] = "int" -> <<<<"int", s[2]>>>>
    [] s[1] = "lzf" -> <<<<"lzf", ZLen, Len(s[2])>>, <<"zip", s[2]>>, <<"zap">>>>

StrValue(s) == IF s[1] = "int" THEN s ELSE <<"str", s[2]>>

Concat(f(_), n) == FlattenSeq([i \in 1 .. n |-> f(i)])

-----------------------------------------------------------------------------
(* A stream: listpacks, each with the id that those of its entries are     *)
(* relative to and the names of the fields that most of them have; what    *)
(* Redis keeps of the whole; its groups and their consumers.               *)

Streams == {"stream_listpack", "stream_listpacks_2"}

Num(n) == <<"num", n>>
IdCell(id) == <<"id", id[1], id[2]>>
TimeCell(t) == <<"time", t>>
PairCells(f, g) == Concat(LAMBDA i : <<f[i], g[i]>>, Len(f))

EntryCells(e) ==
  LET n == Len(e.values)
  IN  <<Num((IF e.live THEN 0 ELSE 1) + (IF e.same THEN 2 ELSE 0)),
        Num(e.diff[1]), Num(e.diff[2])>> \o
      (IF e.same THEN e.values \o <<Num(3 + n)>>
       ELSE <<Num(n)>> \o PairCells(e.names, e.values) \o <<Num(4 + 2 * n)>>)

Live(p) == SelectSeq(p.entries, LAMBDA e : e.live)
Elements(v) == Concat(LAMBDA i : Live(v.packs[i]), Len(v.packs))

(* The entries that are deleted are counted apart. *)
PackCells(p) ==
  <<Num(Len(Live(p))), Num(Len(p.entries) - Len(Live(p))), Num(Len(p.master))>> \o
  p.master \o <<Num(0)>> \o Concat(LAMBDA i : EntryCells(p.entries[i]), Len(p.entries))

ConsCells(c) == StrCells(c.name) \o <<TimeCell(c.seen), Size(Len(c.pending))>> \o
                [i \in 1 .. Len(c.pending) |-> IdCell(c.pending[i])]

GroupCells(t, g) ==
  StrCells(g.name) \o <<Size(g.last[1]), Size(g.last[2])>> \o
  (IF t = "stream_listpack" THEN <<>> ELSE <<Size(4)>>) \o <<Size(Len(g.pending))>> \o
  Concat(LAMBDA i : <<IdCell(g.pending[i][1]), TimeCell(g.pending[i][2]),
                      Size(g.pending[i][3])>>, Len(g.pending)) \o
  <<Size(Len(g.consumers))>> \o
  Concat(LAMBDA i : ConsCells(g.consumers[i]), Len(g.consumers))

(* The second version also has the first id, the greatest that was deleted,*)
(* and how many entries were ever added.                                   *)
StreamCells(t, v) ==
  <<Size(Len(v.packs))>> \o
  Concat(LAMBDA i : StrCells(Raw(<<IdCell(v.packs[i].id)>>)) \o
                    StrCells(<<v.packs[i].form, PackCells(v.packs[i])>>), Len(v.packs)) \o
  <<Size(Len(Elements(v))), Size(v.last[1]), Size(v.last[2])>> \o
  (IF t = "stream_listpack" THEN <<>>
   ELSE <<Size(8), Size(9), Size(6), Size(5), Size(v.added)>>) \o
  <<Size(Len(v.groups))>> \o
  Concat(LAMBDA i : GroupCells(t, v.groups[i]), Len(v.groups))

(* The calls that report it: every list that is not empty is opened and    *)
(* closed, and so are a group and a consumer, by their own call.           *)
Listed(part, calls) == IF calls = <<>> THEN <<>>
                       ELSE <<<<"d_stream_start", <<part>>>>>> \o calls \o
                            <<<<"d_stream_end", <<part>>>>>>

EntryCall(p, e) == <<"d_stream_entry", <<<<p.id[1] + e.diff[1], p.id[2] + e.diff[2]>>,
                                         IF e.same THEN p.master ELSE e.names, e.values>>>>

ConsCalls(c) ==
  <<<<"d_stream_cons", <<StrValue(c.name), c.seen, Len(c.pending)>>>>>> \o
  Listed("consumer_pending_list",
         [i \in 1 .. Len(c.pending) |-> <<"d_stream_cons_pend", <<c.pending[i]>>>>]) \o
  <<<<"d_stream_end", <<"consumer">>>>>>

GroupCalls(g) ==
  <<<<"d_stream_group", <<StrValue(g.name), g.last, Len(g.pending)>>>>>> \o
  Listed("pending_list",
         [i \in 1 .. Len(g.pending) |-> <<"d_stream_pend", g.pending[i]>>]) \o
  Listed("consumer_list", Concat(LAMBDA i : ConsCalls(g.consumers[i]), Len(g.consumers))) \o
  <<<<"d_stream_end", <<"group">>>>>>

StreamCalls(v) ==
  Listed("entry_list", Concat(LAMBDA i : LET p == v.packs[i] IN
                                [j \in 1 .. Len(Live(p)) |-> EntryCall(p, Live(p)[j])],
                              Len(v.packs))) \o
  <<<<"d_stream_info", <<Len(Elements(v)), v.last, Len(v.groups)>>>>>> \o
  Listed("group_list", Concat(LAMBDA i : GroupCalls(v.groups[i]), Len(v.groups)))

-----------------------------------------------------------------------------
(* The value of each type, after the type byte and the key. *)

Counted == {"hash", "set", "list", "zset", "zset_2"}
Packed  == {"hash_zipmap", "hash_ziplist", "hash_listpack", "zset_ziplist",
            "zset_listpack", "list_ziplist", "set_intset"}
Nodes   == {"list_quicklist", "list_quicklist_2"}

(* The call that reports an element, and the strings that make one. *)
Call(t) == CASE t \in {"hash", "hash_zipmap", "hash_ziplist", "hash_listpack"}
                  -> "d_hash"
             [] t \in {"zset", "zset_2", "zset_ziplist", "zset_listpack"}
                  -> "d_zset"
             [] t \in {"list", "list_ziplist"} \cup Nodes -> "d_list"
             [] t \in {"set", "set_intset"} -> "d_set"
             [] t = "string" -> "d_string"
             [] t = "module_2" -> "d_module"

Width(t) == IF Call(t) \in {"d_hash", "d_zset"} THEN 2 ELSE 1

(* The score of a zset_2 is a binary double, that of a zset the length of  *)
(* its digits and the digits, or one byte for an infinity.                 *)
Infinity == <<"special", "inf">>
ScoreCells(t, s) == CASE t = "zset_2" -> <<<<"dbl", s>>>>
                      [] t = "zset" /\ s = Infinity -> <<s>>
                      [] t = "zset" /\ s # Infinity -> <<Size(1), s>>
ScoreValue(t, s) == CASE t = "zset_2" -> <<"dbl", s>>
                      [] t = "zset" /\ s = Infinity -> s
                      [] t = "zset" /\ s # Infinity -> <<"str", <<s>>>>

ElemCells(t, e) == StrCells(e[1]) \o
  CASE t \in {"set", "list"} -> <<>>
    [] t = "hash"            -> StrCells(e[2])
    [] OTHER                 -> ScoreCells(t, e[2])

ElemValue(t, e) == <<StrValue(e[1])>> \o
  CASE t \in {"set", "list"} -> <<>>
    [] t = "hash"            -> <<StrValue(e[2])>>
    [] OTHER                 -> <<ScoreValue(t, e[2])>>

(* A packed blob is stored as a string; a zipmap starts with a count and   *)
(* ends with a mark, an intset starts with the size and the number of its  *)
(* integers, every other list with a header.                               *)
Lead(t, n) == CASE t = "hash_zipmap" -> <<<<"count", n \div 2>>>>
                [] t = "set_intset"  -> <<<<"ints", n>>>>
                [] OTHER             -> <<<<"head">>>>
EndMark(t) == IF t = "hash_zipmap" THEN <<<<"end">>>> ELSE <<>>
Blob(t, s) == <<s[1], Lead(t, Len(s[2])) \o s[2] \o EndMark(t)>>

(* The elements of a packed list, w cells to each. *)
Groups(cells, w) == [i \in 1 .. Len(cells) \div w |->
                       [j \in 1 .. w |-> <<"str", <<cells[w * (i - 1) + j]>>>>]]

Node(t, s) == (IF t = "list_quicklist_2" THEN <<Size(2)>> ELSE <<>>) \o StrCells(Blob(t, s))

ValueCells(t, v) ==
  CASE t = "string"   -> StrCells(v)
    [] t = "module_2" -> <<Size(v[1])>> \o v[2] \o <<<<"zero">>>>
    [] t \in Counted  -> <<Size(Len(v))>> \o
                           Concat(LAMBDA i : ElemCells(t, v[i]), Len(v))
    [] t \in Packed   -> StrCells(Blob(t, v))
    [] t \in Nodes    -> <<Size(Len(v))>> \o
                           Concat(LAMBDA i : Node(t, v[i]), Len(v))
    [] t \in Streams  -> StreamCells(t, v)

Values(t, v) ==
  CASE t = "string"   -> <<<<StrValue(v)>>>>
    [] t = "module_2" -> <<<<v[1]>>>>
    [] t \in Counted  -> [i \in 1 .. Len(v) |-> ElemValue(t, v[i])]
    [] t \in Packed   -> Groups(v[2], Width(t))
    [] t \in Nodes    -> Groups(Concat(LAMBDA i : v[i][2], Len(v)), 1)

-----------------------------------------------------------------------------
(* A document is a file, whose items are keys, with their meta data, and   *)
(* notes that belong to no key; or the DUMP of one value.                  *)

MetaCells(m) == <<<<"op", m[1]>>>> \o
  CASE m[1] \in {"d_idle", "d_dbselect"} -> <<Size(m[2])>>
    [] m[1] = "d_dbresize" -> <<Size(m[2]), Size(m[2])>>
    [] m[1] = "d_aux"      -> StrCells(m[2]) \o StrCells(m[2])
    [] OTHER               -> <<<<"fix", m[2]>>>>

MetaEvent(m) == <<m[1], CASE m[1] = "d_aux" -> <<StrValue(m[2]), StrValue(m[2])>>
                          [] m[1] = "d_dbresize" -> <<m[2], m[2]>>
                          [] OTHER -> <<m[2]>>>>

Key(ms, k, t, v) == [meta |-> ms, key |-> <<k>>, type |-> t, value |-> v]
Note(m) == [meta |-> <<m>>, key |-> <<>>]
IsKey(item) == item.key # <<>>

(* What follows the key is what a RESTORE of it must send. *)
ItemCells(item) ==
  Concat(LAMBDA i : MetaCells(item.meta[i]), Len(item.meta)) \o
  IF IsKey(item)
  THEN <<<<"type", item.type>>>> \o StrCells(item.key[1]) \o
       ValueCells(item.type, item.value)
  ELSE <<>>

FileCells(items) == <<<<"magic", TRUE>>>> \o
                    Concat(LAMBDA i : ItemCells(items[i]), Len(items)) \o
                    <<<<"op", "eof">>, <<"crc", "good">>>>

(* A DUMP has no key and no opcodes.  redis-cli adds a newline. *)
DumpCells(item, ver, crc, newline) ==
  <<<<"type", item.type>>>> \o ValueCells(item.type, item.value) \o
  <<<<"ver", ver>>, <<"crc", crc>>>> \o (IF newline THEN <<<<"nl">>>> ELSE <<>>)

(* The calls that report an item: its meta data, its type, its elements.   *)
MetaEvents(item) == [i \in 1 .. Len(item.meta) |-> MetaEvent(item.meta[i])]

ValueCalls(t, v) == IF t \in Streams THEN StreamCalls(v)
                    ELSE [i \in 1 .. Len(Values(t, v)) |-> <<Call(t), Values(t, v)[i]>>]

ValueEvents(item, key) ==
  <<<<"d_start_type", <<item.type>>>>, <<"d_start_key", <<key>>>>>> \o
  ValueCalls(item.type, item.value) \o <<<<"d_end_key", <<>>>>>>
=============================================================================
