------------------------------- MODULE RdbJson -------------------------------
(***************************************************************************)
(* struct JsonOutput: what it prints for a sequence of calls, as tokens    *)
(* (see JsonText).  d_cnt and show_meta are its own; type is the field of  *)
(* RdbDecode that it consults.  The characters of a string, its escapes    *)
(* and the layout are left out.                                            *)
(***************************************************************************)
EXTENDS Integers, Sequences, SequencesExt

NewJson(show_meta) == [out |-> <<>>, d_cnt |-> 0, show_meta |-> show_meta, type |-> "bad"]

P(x) == <<<<x>>>>
Str(x) == <<<<"str", x>>>>
Num(x) == <<<<"num", x>>>>

(* print_s(): what Redis stores as an integer or a double is printed as    *)
(* one, and only a string is quoted.                                       *)
print_s(v) == IF v[1] \in {"int", "dbl"} THEN Num(v[2]) ELSE Str(v)

Emit(j, tokens) == [j EXCEPT !.out = @ \o tokens]
Member(name, value) == Str(name) \o P(":") \o value

comma_nl(j) == [Emit(j, IF j.d_cnt # 0 THEN P(",") ELSE <<>>) EXCEPT !.d_cnt = @ + 1]
tab(num) == IF num # 0 THEN P(",") ELSE <<>>

(* The meta data, one member each. *)
MetaTokens(call, v) ==
  CASE call = "d_aux"      -> print_s(v[1]) \o P(":") \o print_s(v[2])
    [] call = "d_dbresize" -> Member(call, P("[") \o Num(v[1]) \o P(",") \o Num(v[2]) \o P("]"))
    [] OTHER               -> Member(call, Num(v[1]))
d_meta(j, call, v) == IF j.show_meta THEN Emit(comma_nl(j), MetaTokens(call, v)) ELSE j

(* A key is a member; its name is quoted whatever it is, and a dump, which *)
(* has none, gets its type's.                                              *)
Arrays  == {"list", "list_ziplist", "list_quicklist", "list_quicklist_2",
            "set", "set_intset"}
Objects == {"zset", "zset_2", "zset_ziplist", "zset_listpack", "hash", "hash_zipmap",
            "hash_ziplist", "hash_listpack", "stream_listpack", "stream_listpacks_2"}

d_start_key(j, key) ==
  Emit(comma_nl(j), Str(IF key[1] = "none" THEN j.type ELSE key) \o P(":") \o
                     (CASE j.type \in Arrays  -> P("[")
                        [] j.type \in Objects -> P("{")
                        [] OTHER              -> <<>>))
d_end_key(j) == Emit(j, CASE j.type \in Arrays  -> P("]")
                           [] j.type \in Objects -> P("}")
                           [] OTHER              -> <<>>)

-----------------------------------------------------------------------------
(* The parts of a stream. *)

Id(id) == Str(id)
Cell(c) == IF c[1] = "num" THEN Num(c[2]) ELSE Str(c)

d_stream_entry(num, id, fields, values) ==
  tab(num) \o P("{") \o Member("id", Id(id)) \o P(",") \o
  FlattenSeq([i \in 1 .. Len(fields) |-> (IF i > 1 THEN P(",") ELSE <<>>) \o
                                         Member(fields[i], Cell(values[i]))]) \o
  P("}")

d_stream_info(num_elems, last, num_cgroups) ==
  Member("last_id", Id(last)) \o P(",") \o Member("num_elems", Num(num_elems)) \o
  P(",") \o Member("num_cgroups", Num(num_cgroups))

(* A group and a consumer begin with their own record. *)
d_stream_start(part) == CASE part \in {"group", "consumer"} -> <<>>
                          [] part = "entry_list" -> Member(part, P("["))
                          [] OTHER               -> P(",") \o Member(part, P("["))

(* Each operator named after another one, as in d_stream_end_NoComma, is   *)
(* that operator with one mistake in it, to test the properties with.      *)
d_stream_end_NoComma(part) == IF part \in {"group", "consumer"} THEN P("}") ELSE P("]")
d_stream_end(part) == CASE part = "entry_list"            -> P("]") \o P(",")
                        [] part \in {"group", "consumer"} -> P("}")
                        [] OTHER                          -> P("]")

d_stream_group(num, name, last, pending) ==
  tab(num) \o P("{") \o Member("group", Str(name)) \o P(",") \o
  Member("pending", Num(pending)) \o P(",") \o Member("last_id", Id(last))
d_stream_pend(num, id, last_delivery, delivery_cnt) ==
  tab(num) \o P("{") \o Member("id", Id(id)) \o P(",") \o
  Member("last_d", Num(last_delivery)) \o P(",") \o Member("d_cnt", Num(delivery_cnt)) \o P("}")
d_stream_cons(num, name, last_seen, pending) ==
  tab(num) \o P("{") \o Member("name", Str(name)) \o P(",") \o
  Member("pending", Num(pending)) \o P(",") \o Member("last_seen", Num(last_seen))
d_stream_cons_pend(num, id) == tab(num) \o Id(id)

-----------------------------------------------------------------------------
(* A call <<call, num, values>>, as RdbDecode makes it. *)

Value(e) ==
  LET num == e[2]
      v == e[3]
  IN  CASE e[1] = "d_string"           -> print_s(v[1])
        [] e[1] = "d_module"           -> Str(v[1])
        [] e[1] \in {"d_hash", "d_zset"} -> tab(num) \o print_s(v[1]) \o P(":") \o print_s(v[2])
        [] e[1] \in {"d_list", "d_set"} -> tab(num) \o print_s(v[1])
        [] e[1] = "d_stream_entry"     -> d_stream_entry(num, v[1], v[2], v[3])
        [] e[1] = "d_stream_info"      -> d_stream_info(v[1], v[2], v[3])
        [] e[1] = "d_stream_start"     -> d_stream_start(v[1])
        [] e[1] = "d_stream_end"       -> d_stream_end(v[1])
        [] e[1] = "d_stream_group"     -> d_stream_group(num, v[1], v[2], v[3])
        [] e[1] = "d_stream_pend"      -> d_stream_pend(num, v[1], v[2], v[3])
        [] e[1] = "d_stream_cons"      -> d_stream_cons(num, v[1], v[2], v[3])
        [] e[1] = "d_stream_cons_pend" -> d_stream_cons_pend(num, v[1])

Metas == {"d_idle", "d_freq", "d_aux", "d_dbresize", "d_dbselect", "d_expired", "d_expired_ms"}

d_init(j) == Emit(j, P("{"))
d_finish(j, success) == IF success THEN Emit(j, P("}")) ELSE j

Hear(j, e) == CASE e[1] = "d_start_type" -> [j EXCEPT !.type = e[3][1]]
                [] e[1] = "d_start_key"  -> d_start_key(j, e[3][1])
                [] e[1] = "d_end_key"    -> d_end_key(j)
                [] e[1] = "d_finish"     -> d_finish(j, e[3][1])
                [] e[1] \in Metas        -> d_meta(j, e[1], e[3])
                [] OTHER                 -> Emit(j, Value(e))

(* All that is printed for the calls made. *)
Printed(calls, show_meta) == FoldLeft(Hear, d_init(NewJson(show_meta)), calls).out
=============================================================================
