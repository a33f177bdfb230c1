------------------------------ MODULE RdbDecode ------------------------------
(***************************************************************************)
(* struct RdbDecode: decode_hdr() and decode_body() over the buffer in     *)
(* hand.                                                                   *)
(*                                                                         *)
(* The bytes are cells (see RdbWire); win[offset + 1] is the one that the  *)
(* cursor points at in the main buffer, heap[k][offset + 1] in the k-th    *)
(* expanded block.  The loops of the two functions are unrolled: a step is *)
(* an opcode, a header, a key, one element, one packed node, one part of a *)
(* stream.                                                                 *)
(***************************************************************************)
EXTENDS RdbCursor, RdbStreamEntry, RdbPcre

VARIABLES win,    \* the main buffer
          bptr,   \* the cursor
          heap,   \* the blocks expanded since the last free_alloced()
          dec,    \* the fields of struct RdbDecode
          loop,   \* cnt and num of the loop over the elements; for a stream
                  \* also its entry and its loops over groups and below
          evs,    \* history: the calls made on data_out, <<call, num, values>>
          pc,     \* where in the two functions the decoder is
          rc      \* "ok", "eof" or the RDB_ERR code

decode_vars == <<win, bptr, heap, dec, loop, evs, pc, rc>>

Modules == {"module", "module_2"}
Zipped  == {"hash_ziplist", "zset_ziplist", "list_ziplist",
            "hash_listpack", "zset_listpack"}
Quick   == {"list_quicklist", "list_quicklist_2"}
Streams == {"stream_listpack", "stream_listpacks_2"}
Types   == {"string", "hash", "set", "list", "zset", "zset_2", "hash_zipmap",
            "set_intset"} \cup Zipped \cup Quick \cup Streams \cup Modules

NoKey  == <<"none">>
NoSize == <<"len", 0>>

NewDecode(options) == [data |-> TRUE, filter |-> set_filter_expr(options), type |-> "bad",
                      key |-> NoKey, key_block |-> 0, rlen |-> NoSize,
                      opened |-> FALSE, is_rdb_file |-> FALSE]

NewCount(n) == [num |-> 0, cnt |-> n]
NewLoop(n) == [num |-> 0, cnt |-> n, part |-> "blocks", entry |-> NewEntry,
               group |-> NewCount(0), pend |-> NewCount(0),
               cons |-> NewCount(0), conp |-> NewCount(0)]

-----------------------------------------------------------------------------
(* A read in progress: the cursor, the blocks, the last length header, the *)
(* values read so far and the first error.                                 *)

Start(size) == [p |-> bptr, heap |-> heap, len |-> size, vals |-> <<>>, rc |-> "ok"]

Failed(r, e) == [r EXCEPT !.rc = e]

(* What Op makes of r, unless an error has stopped the read before.  (The  *)
(* set has one member; it is there for TLC, which then evaluates r once.)  *)
Then(r, Op(_)) ==
  CHOOSE s \in {IF q.rc = "ok" THEN Op(q) ELSE q : q \in {r}} : TRUE

Bytes(r) == IF r.p.buf = Main THEN win ELSE r.heap[r.p.buf]
Here(r) == Bytes(r)[r.p.offset + 1]
Ahead(r, n) == SubSeq(Bytes(r), r.p.offset + 1, r.p.offset + n)
Skip(r, n) == [r EXCEPT !.p = Incr(@, n)]
Value(r, v) == [r EXCEPT !.vals = Append(@, v)]

LenOf(h) == CASE h[1] = "len" -> h[2] [] h[1] = "int" -> 0 [] h[1] = "lzf" -> h[3]

(* RdbLength::decode *)
Header(r) == CASE ~ CanIncr(r.p, 1) -> Failed(r, "trunc")
               [] CanIncr(r.p, 1) /\ Here(r)[1] \in {"len", "int", "lzf"} ->
                    [Skip(r, 1) EXCEPT !.len = Here(r)]
               [] OTHER -> Failed(r, "hdr")
Looked(r) == Then([r EXCEPT !.p = Look(@)], Header)
Length(r) == Then(r, Looked)

(* decompress(), if the length is an LZF one: the cursor is past a string  *)
(* that lzf_decompress() can make nothing of.                              *)
Expand(r) ==
  LET zlen == r.len[2]
  IN  CASE r.len[1] # "lzf" -> r
        [] r.len[1] = "lzf" /\ ~ CanIncr(r.p, zlen) -> Failed(r, "lzf")
        [] r.len[1] = "lzf" /\ CanIncr(r.p, zlen) /\ Here(r)[1] = "zip" ->
             [r EXCEPT !.p = Decompress(@, zlen, r.len[3]), !.heap = Append(@, Here(r)[2])]
        [] OTHER -> Failed(Skip(r, zlen), "lzf")
Unzip(r) == Then(r, Expand)

(* incr(n), and the n bytes it passed; a field of fixed size is one cell.  *)
Take(r, n) == IF CanIncr(r.p, n) THEN Skip(Value(r, <<"str", Ahead(r, n)>>), n)
              ELSE Failed(r, "trunc")
Fixed(r) == IF CanIncr(r.p, 1) THEN Skip(Value(r, Here(r)), 1) ELSE Failed(r, "trunc")
Field(r) == Then(r, Fixed)

Data(r) == Take(r, LenOf(r.len))
Integer(r) == Value(r, r.len)
IsInt(r) == r.len[1] = "int"

decode_str(r) == Then(r, LAMBDA q : IF IsInt(q) THEN Integer(q) ELSE Data(q))

(* Each operator named after another one, as in decode_rlen_NoUnzip, is    *)
(* that operator with one mistake in it, to test the properties with.      *)
decode_rlen_NoUnzip(r) == decode_str(Length(r))
decode_rlen(r) == decode_str(Unzip(Length(r)))

(* RdbLength::consume *)
consume(r) == Then(r, LAMBDA q : IF IsInt(q) THEN Failed(q, "hdr")
                                 ELSE Then(Expand(q), Data))

(* A key or an AUX string: an immediate integer, or data. *)
Text(r) == Then(r, LAMBDA q : IF IsInt(q) THEN Integer(q) ELSE consume(q))

(* A length that must not be a string's. *)
Number(r) == Then(Length(r), LAMBDA q : IF q.len[1] = "len" THEN Value(q, q.len[2])
                                        ELSE Failed(q, "hdr"))

(* The step ends where r got to, and goes on at `to'. *)
Return(r, to) == /\ bptr' = r.p /\ heap' = r.heap
                 /\ rc' = r.rc
                 /\ pc' = IF r.rc = "ok" THEN to ELSE "error"

Calls(r, es) == evs' = IF r.rc = "ok" THEN evs \o es ELSE evs

(* Calls through this->out are lost while it is the null output. *)
Out(r, es) == Calls(r, IF dec.data THEN es ELSE <<>>)

(* Calls of which the first ones are made before r can fail. *)
OutAfter(first, r, es) ==
  evs' = IF dec.data THEN evs \o first \o (IF r.rc = "ok" THEN es ELSE <<>>) ELSE evs

-----------------------------------------------------------------------------
(* decode_hdr() *)

(* The version and the checksum, once.  The checksum is the last thing in  *)
(* the buffer; of a dump it is cut off, with a newline that redis-cli put  *)
(* there.  A checksum that happens to end in the byte of a newline is      *)
(* taken for one when the version is not 9.                                *)
Newline == /\ win[bptr.avail - 1] # <<"ver", 9>>
           /\ win[bptr.avail] \in {<<"nl">>, <<"crc", "good 0a">>}
Checksum_Optional == IF win[bptr.avail] = <<"crc", "good">> THEN win[bptr.avail]
                     ELSE <<"crc", "zero">>
Checksum == IF Newline THEN IF win[bptr.avail] = <<"nl">> THEN win[bptr.avail - 1]
                            ELSE <<"crc", "bad">>
            ELSE win[bptr.avail]

OpenFile == /\ win[1][1] = "magic"
            /\ bptr' = IF win[1][2] THEN Incr(bptr, 1) ELSE bptr
            /\ rc' = IF win[1][2] THEN "ok" ELSE "version"
            /\ pc' = IF win[1][2] THEN "hdr" ELSE "error"
            /\ dec' = [dec EXCEPT !.opened = TRUE, !.is_rdb_file = TRUE]

OpenDump == /\ win[1][1] # "magic"
            /\ IF Checksum \in {<<"crc", c>> : c \in {"good", "good 0a", "zero"}}
               THEN /\ bptr' = [bptr EXCEPT !.avail = @ - IF Newline THEN 3 ELSE 2]
                    /\ dec' = [dec EXCEPT !.opened = TRUE]
                    /\ UNCHANGED <<pc, rc>>
               ELSE rc' = "crc" /\ pc' = "error" /\ UNCHANGED <<bptr, dec>>

Open == /\ pc = "hdr" /\ ~ dec.opened
        /\ \/ bptr.avail < 2 /\ rc' = "trunc" /\ pc' = "error"
              /\ UNCHANGED <<bptr, dec>>
           \/ bptr.avail >= 2 /\ (OpenFile \/ OpenDump)
        /\ UNCHANGED <<win, heap, loop, evs>>

(* The opcode at the cursor, which the loop reads without a look(). *)
Opcode(k) == /\ pc = "hdr" /\ dec.opened /\ dec.is_rdb_file
             /\ bptr.avail > 0
             /\ Here(Start(NoSize)) = <<"op", k>>

Operands_OneNumber(k) == LET r == Skip(Start(NoSize), 1)
                         IN  IF k = "d_aux" THEN Text(Length(Text(Length(r))))
                             ELSE IF k \in {"d_idle", "d_dbselect", "d_dbresize"}
                             THEN Number(r) ELSE Field(r)
Operands(k) ==
  LET r == Skip(Start(NoSize), 1)
  IN  CASE k \in {"d_idle", "d_dbselect"} -> Number(r)
        [] k = "d_dbresize" -> Number(Number(r))
        [] k = "d_aux" -> Text(Length(Text(Length(r))))
        [] OTHER -> Field(r)

(* The values reported: a field is the number in it. *)
Reported(k, vals) == IF k \in {"d_freq", "d_expired", "d_expired_ms"}
                     THEN <<vals[1][2]>> ELSE vals

Metas == {"d_idle", "d_freq", "d_aux", "d_dbresize", "d_dbselect",
          "d_expired", "d_expired_ms"}

Meta(k) == LET r == Operands(k)
           IN  /\ Opcode(k)
               /\ Return(r, "hdr")
               /\ Out(r, <<<<k, 0, Reported(k, r.vals)>>>>)
               /\ UNCHANGED <<win, dec, loop>>

ModuleAux == /\ Opcode("module_aux")
             /\ Return(Failed(Skip(Start(NoSize), 1), "notsup"), "hdr")
             /\ UNCHANGED <<win, dec, loop, evs>>

EofMark == /\ Opcode("eof")
           /\ Return(Failed(Skip(Start(NoSize), 1), "eof"), "hdr")
           /\ UNCHANGED <<win, dec, loop, evs>>

get_rdb_type_Unchecked(c) == IF c[1] = "type" THEN c[2] ELSE "bad"
get_rdb_type(c) == IF c[1] = "type" /\ c[2] \in Types THEN c[2] ELSE "bad"

(* Past the opcodes: the type, announced before the key is known. *)
KeyType ==
  LET r == Start(NoSize)
      t == get_rdb_type(IF bptr.avail > 0 THEN Here(r) ELSE NoSize)
      s == CASE bptr.avail = 0 -> Failed(r, "trunc")
             [] bptr.avail > 0 /\ t = "bad" -> Failed(r, "type")
             [] bptr.avail > 0 /\ t # "bad" -> Skip(r, 1)
  IN  /\ pc = "hdr" /\ dec.opened
      /\ ~ (dec.is_rdb_file /\ bptr.avail > 0 /\ Here(r)[1] = "op")
      /\ Return(s, "len")
      /\ Calls(s, <<<<"d_start_type", 0, <<t>>>>>>)
      /\ dec' = [dec EXCEPT !.type = t]
      /\ UNCHANGED <<win, loop>>

(* The key, if there is one, then the length of the value, which is        *)
(* expanded if it is compressed.  key_block is the block the key is in.    *)
KeyHdr ==
  LET k == Length(Start(NoSize))
      t == Text(k)
      r == Unzip(IF dec.is_rdb_file THEN Length(t) ELSE k)
  IN  /\ pc = "len"
      /\ Return(r, "start")
      /\ dec' = IF r.rc # "ok" THEN dec
                ELSE IF dec.is_rdb_file
                THEN [dec EXCEPT !.rlen = r.len, !.key = t.vals[1],
                                 !.key_block = IF k.len[1] = "lzf" THEN t.p.buf ELSE 0]
                ELSE [dec EXCEPT !.rlen = r.len]
      /\ UNCHANGED <<win, loop, evs>>

-----------------------------------------------------------------------------
(* decode_body() *)

(* Having no filter is the same as inverting one that nothing matches. *)
NoFilter == [expr |-> <<>>, ign_case |-> FALSE, invert |-> TRUE]

(* start_key(), which chooses the output, ahead of every type's loop. *)
StartKey ==
  LET r == IF dec.type \in Modules /\ dec.rlen[1] # "len"
           THEN Failed(Start(dec.rlen), "hdr") ELSE Start(dec.rlen)
      match == match_key(dec.filter, dec.key)
  IN  /\ pc = "start"
      /\ Return(r, "body")
      /\ Calls(r, IF match THEN <<<<"d_start_key", 0, <<dec.key>>>>>> ELSE <<>>)
      /\ dec' = IF r.rc = "ok" THEN [dec EXCEPT !.data = match] ELSE dec
      /\ loop' = NewLoop(LenOf(dec.rlen))
      /\ UNCHANGED win

Body(types) == pc = "body" /\ dec.type \in types /\ UNCHANGED <<win, dec>>

EndKey == <<"d_end_key", 0, <<>>>>

BodyString == LET r == decode_str(Start(dec.rlen))
              IN  /\ Body({"string"})
                  /\ Return(r, "keydone")
                  /\ Out(r, <<<<"d_string", 0, r.vals>>, EndKey>>)
                  /\ UNCHANGED loop

(* The score of a sorted set: eight bytes, or a length and digits. *)
Digits(r) ==
  LET c == Here(r)
      q == Fixed(r)
  IN  CASE q.rc # "ok" -> q
        [] q.rc = "ok" /\ c[1] = "len" -> Take(Skip(r, 1), c[2])
        [] OTHER -> q
Score(r) == Then(r, LAMBDA q : IF dec.type = "zset_2" THEN Fixed(q) ELSE Digits(q))

Element(types, call, read(_)) ==
  LET r == read(Start(NoSize))
  IN  /\ Body(types)
      /\ loop.cnt > 0
      /\ Return(r, "body")
      /\ Out(r, <<<<call, loop.num, r.vals>>>>)
      /\ loop' = [loop EXCEPT !.cnt = @ - 1, !.num = @ + 1]

HashEntry  == Element({"hash"}, "d_hash", LAMBDA r : decode_rlen(decode_rlen(r)))
SetMember  == Element({"set"}, "d_set", decode_rlen)
ListElem   == Element({"list"}, "d_list", decode_rlen)
ZSetMember == Element({"zset", "zset_2"}, "d_zset", LAMBDA r : Score(decode_rlen(r)))

Loops_NoQuick == {"hash", "set", "list", "zset", "zset_2"}
Loops == {"hash", "set", "list", "zset", "zset_2"} \cup Quick

EndLoop == LET r == Start(NoSize)
           IN  /\ Body(Loops)
               /\ loop.cnt = 0
               /\ Return(r, "keydone")
               /\ Out(r, <<EndKey>>)
               /\ UNCHANGED loop

(* The calls for the elements of a packed list, w of them to each.  An     *)
(* element left over is not reported.                                      *)
Report_SameNum(call, cells, w, num) ==
  [i \in 1 .. Len(cells) \div w |->
     <<call, num, [j \in 1 .. w |-> <<"str", <<cells[w * (i - 1) + j]>>>>]>>]
Report(call, cells, w, num) ==
  [i \in 1 .. Len(cells) \div w |->
     <<call, num + i - 1,
       [j \in 1 .. w |-> <<"str", <<cells[w * (i - 1) + j]>>>>]>>]

Packed(r, call, cells, w) == /\ Return(r, "keydone")
                             /\ Out(r, Append(Report(call, cells, w, 0), EndKey))
                             /\ UNCHANGED loop

ZipCall == CASE dec.type \in {"hash_ziplist", "hash_listpack"} -> "d_hash"
             [] dec.type \in {"zset_ziplist", "zset_listpack"} -> "d_zset"
             [] dec.type = "list_ziplist" -> "d_list"

(* RdbZipList::init and RdbListPack::init refuse a string that is shorter  *)
(* than the header of a list, or whose header counts less than a list with *)
(* its end mark.  (The list of a stream has no cell for its header: it is  *)
(* refused if it is empty.)                                                *)
init(cells) == cells # <<>> /\ cells[1] = <<"head">>
Listed(r) == Then(r, LAMBDA q : IF init(q.vals[1][2]) THEN q ELSE Failed(q, "trunc"))

ZipList == LET r == Listed(Data(Start(dec.rlen)))
           IN  /\ Body(Zipped)
               /\ Packed(r, ZipCall, Tail(r.vals[1][2]), IF ZipCall = "d_list" THEN 1 ELSE 2)

(* A zipmap ends at its mark or with its last byte, but only between two   *)
(* pairs.  A field or a value is refused if its length leads out of the    *)
(* map, and a mark in the place of a value is read as such a length.  The  *)
(* count that leads the map is not used to read it.                        *)
WholePairs(map) ==
  LET body == SubSeq(map, 2, Len(map))
      good == {n \in 0 .. Len(body) : \A i \in 1 .. n : body[i] \notin {<<"end">>, <<"far">>}}
  IN  SubSeq(body, 1, 2 * ((CHOOSE n \in good : \A m \in good : m <= n) \div 2))
Closed_AnyEnd(map) == TRUE
Closed(map) == LET next == 2 + Len(WholePairs(map))
               IN  next > Len(map) \/ map[next] = <<"end">>

ZipMap == LET r == Data(Start(dec.rlen))
              map == IF r.rc = "ok" THEN r.vals[1][2] ELSE <<>>
              s == IF Closed(map) THEN r ELSE Failed(r, "trunc")
          IN  /\ Body({"hash_zipmap"})
              /\ Return(s, "keydone")
              /\ OutAfter(Report("d_hash", WholePairs(map), 2, 0), s, <<EndKey>>)
              /\ UNCHANGED loop

(* An intset is read by its own count, not by the length of the string,    *)
(* once the size of its integers is one that there is.                     *)
Ints(r) == Then(r, LAMBDA q : IF q.vals[1][1] = "ints" THEN Take(q, q.vals[1][2])
                              ELSE Failed(q, "notsup"))
IntSet == LET r == Ints(Field(Start(dec.rlen)))
          IN  /\ Body({"set_intset"})
              /\ Packed(r, "d_set", r.vals[2][2], 1)

(* One node of a quicklist.  num is not advanced for a node's last         *)
(* element: the loop is left before its increment.                         *)
QuickNode ==
  LET c == IF dec.type = "list_quicklist_2" THEN Length(Start(NoSize))
           ELSE Start(<<"len", 2>>)
      b == consume(Length(c))
      r == IF LenOf(c.len) = 2 THEN Listed(b)
           ELSE Then(b, LAMBDA q : Failed(q, "notsup"))
      elements == IF r.rc = "ok" THEN Tail(r.vals[1][2]) ELSE <<>>
      m == Len(elements)
  IN  /\ Body(Quick)
      /\ loop.cnt > 0
      /\ Return(r, "body")
      /\ Out(r, Report("d_list", elements, 1, loop.num))
      /\ loop' = [loop EXCEPT !.cnt = @ - 1, !.num = IF m > 0 THEN @ + m - 1 ELSE @]

(* The contents of a module are skipped, up to a zero byte. *)
Module ==
  LET r == Start(dec.rlen)
      ends == {n \in 1 .. bptr.avail : Bytes(r)[bptr.offset + n] = <<"zero">>}
      skip == IF ends = {} THEN bptr.avail
              ELSE CHOOSE n \in ends : \A m \in ends : n <= m
  IN  /\ Body(Modules)
      /\ Return(Skip(r, skip), "keydone")
      /\ Out(r, <<<<"d_module", 0, <<LenOf(dec.rlen)>>>>, EndKey>>)
      /\ UNCHANGED loop

-----------------------------------------------------------------------------
(* decode_stream(): the listpacks with the entries, what is known of the   *)
(* whole stream, then its groups, each with the entries pending in it and  *)
(* its consumers, each of these with those pending for it.                 *)

Part(part) == Body(Streams) /\ loop.part = part

Opens(part, some) == IF some THEN <<<<"d_stream_start", 0, <<part>>>>>> ELSE <<>>
Closes(part, some) == IF some THEN <<<<"d_stream_end", 0, <<part>>>>>> ELSE <<>>

(* A length of which only len is used. *)
Count(r) == Then(Length(r), LAMBDA q : Value(q, LenOf(q.len)))
Count2(r) == Count(Count(r))

Id(cell) == <<cell[2], cell[3]>>
Name(r) == consume(Length(r))

StreamBlock ==
  LET r    == Name(Name(Start(NoSize)))
      list == r.vals[2][2]
      e    == [loop.entry EXCEPT !.id = Id(r.vals[1][2][1]), !.list = list]
      h    == IF list = <<>> THEN e ELSE read_header(e)
      s    == IF r.rc = "ok" /\ ~ h.ok THEN Failed(r, "hdr") ELSE r
  IN  /\ Part("blocks") /\ loop.cnt > 0 /\ loop.entry.items = 0
      /\ Return(s, "body")
      /\ loop' = IF s.rc = "ok" THEN [loop EXCEPT !.cnt = @ - 1, !.entry = h] ELSE loop
      /\ UNCHANGED evs

StreamEntry ==
  LET e == read_entry([loop.entry EXCEPT !.items = @ - 1])
      r == IF e.ok THEN Start(NoSize) ELSE Failed(Start(NoSize), "trunc")
      n == loop.num
      live == ~ Flag(e, DELETED)
  IN  /\ Part("blocks") /\ loop.entry.items > 0
      /\ Return(r, "body")
      /\ Out(r, IF live
                THEN Opens("entry_list", n = 0) \o
                     <<<<"d_stream_entry", n, <<EntryId(e), Fields(e), FieldValues(e)>>>>>>
                ELSE <<>>)
      /\ loop' = [loop EXCEPT !.entry = e, !.num = IF live THEN @ + 1 ELSE @]

(* In a stream_listpacks_2 the count of the elements is taken twice, and   *)
(* the second one, of those that were ever added, is reported.             *)
StreamInfo ==
  LET old == dec.type = "stream_listpack"
      c == Count(Count2(Start(NoSize)))
      r == Count(IF old THEN c ELSE Count(Count2(Count2(c))))
      v == r.vals
      num_elems == IF old THEN v[1] ELSE v[8]
      groups == v[Len(v)]
  IN  /\ Part("blocks") /\ loop.cnt = 0 /\ loop.entry.items = 0
      /\ Return(r, "body")
      /\ OutAfter(Closes("entry_list", loop.num # 0), r,
                  <<<<"d_stream_info", 0, <<num_elems, <<v[2], v[3]>>, groups>>>>>> \o
                  Opens("group_list", groups # 0))
      /\ loop' = IF r.rc = "ok" THEN [loop EXCEPT !.part = "groups", !.entry = NewEntry,
                                                  !.group = NewCount(groups)]
                 ELSE loop

(* A name that cannot be read ends the stream, and nothing says so. *)
StreamNoName_GoesOn ==
  LET r == Name(Start(NoSize))
  IN  /\ \/ Part("groups") /\ loop.group.num < loop.group.cnt
         \/ Part("cons") /\ loop.cons.num < loop.cons.cnt
      /\ r.rc # "ok"
      /\ Return([r EXCEPT !.rc = "ok"], "body")
      /\ loop' = IF loop.part = "groups" THEN [loop EXCEPT !.group.num = @ + 1]
                 ELSE [loop EXCEPT !.cons.num = @ + 1]
      /\ UNCHANGED evs
StreamNoName ==
  LET r == Name(Start(NoSize))
  IN  /\ \/ Part("groups") /\ loop.group.num < loop.group.cnt
         \/ Part("cons") /\ loop.cons.num < loop.cons.cnt
      /\ r.rc # "ok"
      /\ Return([r EXCEPT !.rc = "ok"], "keydone")
      /\ UNCHANGED <<loop, evs>>

StreamGroup ==
  LET name == Name(Start(NoSize))
      last == Count2(name)
      r == Count(IF dec.type = "stream_listpack" THEN last ELSE Count(last))
      v == r.vals
      pending == v[Len(v)]
  IN  /\ Part("groups") /\ loop.group.num < loop.group.cnt /\ name.rc = "ok"
      /\ Return(r, "body")
      /\ Out(r, <<<<"d_stream_group", loop.group.num, <<v[1], <<v[2], v[3]>>, pending>>>>>> \o
                Opens("pending_list", pending # 0))
      /\ loop' = IF r.rc = "ok" THEN [loop EXCEPT !.part = "pend", !.pend = NewCount(pending)]
                 ELSE loop

StreamPend ==
  LET r == Count(Field(Field(Start(NoSize))))
      v == r.vals
  IN  /\ Part("pend") /\ loop.pend.num < loop.pend.cnt
      /\ Return(r, "body")
      /\ Out(r, <<<<"d_stream_pend", loop.pend.num, <<Id(v[1]), v[2][2], v[3]>>>>>>)
      /\ loop' = [loop EXCEPT !.pend.num = @ + 1]

StreamConsumers ==
  LET r == Count(Start(NoSize))
      n == r.vals[1]
  IN  /\ Part("pend") /\ loop.pend.num = loop.pend.cnt
      /\ Return(r, "body")
      /\ OutAfter(Closes("pending_list", loop.pend.cnt # 0), r,
                  Opens("consumer_list", n # 0))
      /\ loop' = IF r.rc = "ok" THEN [loop EXCEPT !.part = "cons", !.cons = NewCount(n)]
                 ELSE loop

(* The time behind the name is taken without a look(). *)
StreamCons ==
  LET name == Name(Start(NoSize))
      r == Count(Field(name))
      v == r.vals
  IN  /\ Part("cons") /\ loop.cons.num < loop.cons.cnt /\ name.rc = "ok"
      /\ Return(r, "body")
      /\ Out(r, <<<<"d_stream_cons", loop.cons.num, <<v[1], v[2][2], v[3]>>>>>> \o
                Opens("consumer_pending_list", v[3] # 0))
      /\ loop' = IF r.rc = "ok" THEN [loop EXCEPT !.part = "conp", !.conp = NewCount(v[3])]
                 ELSE loop

StreamConsPend ==
  LET r == Field(Start(NoSize))
  IN  /\ Part("conp") /\ loop.conp.num < loop.conp.cnt
      /\ Return(r, "body")
      /\ Out(r, <<<<"d_stream_cons_pend", loop.conp.num, <<Id(r.vals[1])>>>>>>)
      /\ loop' = [loop EXCEPT !.conp.num = @ + 1]

EndCons == /\ Part("conp") /\ loop.conp.num = loop.conp.cnt
           /\ Return(Start(NoSize), "body")
           /\ Out(Start(NoSize), Closes("consumer_pending_list", loop.conp.cnt # 0) \o
                                 Closes("consumer", TRUE))
           /\ loop' = [loop EXCEPT !.part = "cons", !.cons.num = @ + 1]

EndGroup == /\ Part("cons") /\ loop.cons.num = loop.cons.cnt
            /\ Return(Start(NoSize), "body")
            /\ Out(Start(NoSize), Closes("consumer_list", loop.cons.cnt # 0) \o
                                  Closes("group", TRUE))
            /\ loop' = [loop EXCEPT !.part = "groups", !.group.num = @ + 1]

EndStream == /\ Part("groups") /\ loop.group.num = loop.group.cnt
             /\ Return(Start(NoSize), "keydone")
             /\ Out(Start(NoSize), Append(Closes("group_list", loop.group.cnt # 0), EndKey))
             /\ UNCHANGED loop

DecodeStream == \/ StreamBlock \/ StreamEntry \/ StreamInfo \/ StreamNoName
                \/ StreamGroup \/ StreamPend \/ StreamConsumers \/ StreamCons
                \/ StreamConsPend \/ EndCons \/ EndGroup \/ EndStream

Decode == \/ Open \/ (\E k \in Metas : Meta(k)) \/ ModuleAux \/ EofMark
          \/ KeyType \/ KeyHdr \/ StartKey
          \/ BodyString \/ HashEntry \/ SetMember \/ ListElem \/ ZSetMember \/ EndLoop
          \/ ZipList \/ ZipMap \/ IntSet \/ QuickNode \/ Module \/ DecodeStream
=============================================================================
