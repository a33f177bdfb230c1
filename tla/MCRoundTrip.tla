----------------------------- MODULE MCRoundTrip -----------------------------
(***************************************************************************)
(* The inputs for the runs of RdbRoundTrip.                                *)
(***************************************************************************)
EXTENDS RdbRoundTrip

a == W!Byte("a")
b == W!Byte("b")
one == W!Byte("1")

Short  == W!Raw(<<a>>)
Empty  == W!Raw(<<>>)
Seven  == W!IntStr(7)
Zipped2 == W!Lzf(<<a, b>>)
Strings == {Short, Seven, Zipped2}

KeyA == W!Raw(<<a>>)
KeyB == W!Raw(<<b>>)

Seqs(S, n) == UNION {[1 .. m -> S] : m \in 1 .. n}
Vals(t, vs) == {<<t, v>> : v \in vs}

(* Streams.  Entries have the master's fields or more of their own than    *)
(* tmp has room for; one behind the others is deleted.                     *)
Entry(diff, same, names, values) ==
  [live |-> TRUE, diff |-> diff, same |-> same, names |-> names, values |-> values]
Same(diff, values) == Entry(diff, TRUE, <<>>, values)
Dead(e) == [e EXCEPT !.live = FALSE]
Pack(id, form, master, entries) ==
  [id |-> id, form |-> form, master |-> master, entries |-> entries]

PackA == Pack(<<5, 0>>, "raw", <<a>>,
              <<Same(<<0, 0>>, <<b>>), Entry(<<1, 0>>, FALSE, <<a, b>>, <<b, W!Num(4)>>),
                Same(<<2, 1>>, <<a>>)>>)
PackB == Pack(<<9, 1>>, "lzf", <<a, b>>,
              <<Same(<<0, 0>>, <<b, a>>), Entry(<<0, 3>>, FALSE, <<b>>, <<a>>),
                Dead(Same(<<0, 4>>, <<b, b>>))>>)

Consumer(name, pending) == [name |-> name, seen |-> 6, pending |-> pending]
Group(name, pending, consumers) ==
  [name |-> name, last |-> <<6, 1>>, pending |-> pending, consumers |-> consumers]

GroupA == Group(Short, <<>>, <<>>)
GroupB == Group(Zipped2, <<<<<<5, 0>>, 8, 1>>, <<<<6, 0>>, 9, 2>>>>,
                <<Consumer(Short, <<<<5, 0>>, <<6, 0>>>>), Consumer(KeyB, <<>>)>>)

Stream(packs, added, groups) ==
  [packs |-> packs, last |-> <<9, 4>>, added |-> added, groups |-> groups]

(* A few values of every type: none, one and two elements, each of them    *)
(* raw, an integer or compressed.  A sorted set with a compressed member is*)
(* left to a run of its own, and so are integers as the fields of a hash   *)
(* and the members of a sorted set.                                        *)
Values ==
       Vals("string", Strings \cup {Empty})
  \cup Vals("hash", {<<>>, <<<<Short, Zipped2>>>>, <<<<Zipped2, Seven>>, <<Short, Zipped2>>>>})
  \cup Vals("set", {<<>>, <<<<Zipped2>>, <<Short>>>>})
  \cup Vals("list", {<<<<Seven>>>>, <<<<Zipped2>>, <<Zipped2>>>>})
  \cup Vals("zset", {<<<<Short, one>>, <<KeyB, W!Infinity>>>>})
  \cup Vals("zset_2", {<<<<Short, one>>, <<KeyB, one>>>>})
  \cup Vals("hash_zipmap", {W!Raw(<<a, b>>), W!Lzf(<<a, b, b, a>>)})
  \cup Vals("hash_ziplist", {W!Raw(<<a, b>>), W!Lzf(<<a, b, b, a>>)})
  \cup Vals("hash_listpack", {W!Raw(<<b, a>>)})
  \cup Vals("zset_ziplist", {W!Lzf(<<b, one>>)})
  \cup Vals("zset_listpack", {W!Raw(<<>>), W!Lzf(<<a, b>>)})
  \cup Vals("list_ziplist", {W!Lzf(<<a, b>>)})
  \cup Vals("set_intset", {W!Raw(<<a>>), W!Lzf(<<a, b>>)})
  \cup Vals("list_quicklist", {<<W!Lzf(<<a, b>>)>>})
  \cup Vals("list_quicklist_2", {<<W!Raw(<<a, b>>)>>})
  \cup Vals("module_2", {<<3, <<a>>>>})
  \cup Vals("stream_listpack", {Stream(<<>>, 0, <<>>), Stream(<<PackA, PackB>>, 5, <<>>)})
  \cup Vals("stream_listpacks_2", {Stream(<<PackB>>, 2, <<GroupB, GroupA>>)})

Item(ms, k, tv) == W!Key(ms, k, tv[1], tv[2])

Idle    == <<"d_idle", 3>>
Expires == <<"d_expired", 2>>
Preamble  == <<W!Note(<<"d_aux", Short>>), W!Note(<<"d_dbselect", 0>>),
             W!Note(<<"d_dbresize", 2>>)>>
MetaSets == {<<>>, <<Expires, Idle>>, <<<<"d_expired_ms", 5>>, <<"d_freq", 1>>>>}

OnlyA == [expr |-> <<"a">>, ign_case |-> FALSE, invert |-> FALSE]
NotA  == [OnlyA EXCEPT !.invert = TRUE]

-----------------------------------------------------------------------------
(* Whole files of one key and of two, and every way to cut the former.  A  *)
(* module that is cut is taken for a whole one, and so is a stream cut at  *)
(* the name of a group: they are left out.                                 *)
Singles == {<<Item(ms, k, tv)>> : ms \in MetaSets, k \in Strings, tv \in Values}
Pairs   == {<<Item(<<>>, k, tv), Item(<<Idle>>, KeyB, uv)>> :
              k \in {Short, Zipped2}, tv \in Values, uv \in Values}

WholeFiles == {File(Preamble \o its, NoFilter, FALSE, 0) : its \in Singles}
         \cup {File(its, NoFilter, FALSE, 0) : its \in Pairs}

CutFiles == UNION {{File(its, NoFilter, FALSE, cut) :
                      cut \in 1 .. Len(W!FileCells(its)) - 1} :
                   its \in {<<Item(<<Idle>>, Zipped2, tv)>> :
                              tv \in {x \in Values : x[1] \notin {"module_2", "stream_listpacks_2"}}}}

Dumps == UNION {{Dump(Item(<<>>, KeyA, tv), ver[1], crc, ver[2], stdin, cut) :
                   ver \in {<<9, FALSE>>, <<10, TRUE>>},
                   crc \in {"good", "bad", "zero"},
                   stdin \in BOOLEAN, cut \in {0, 1, 2}} :
                tv \in Values}
(* A checksum whose last byte is that of a newline, which is one only to a *)
(* version that is not 9.                                                  *)
Ends0a == {Dump(Item(<<>>, KeyA, tv), 9, "good 0a", FALSE, stdin, 0) :
             tv \in Values, stdin \in BOOLEAN}

(* With a filter: three keys, of which only a string can match.  Only the  *)
(* first has meta data.                                                    *)
Triples == {<<Item(<<Expires, Idle>>, KeyA, tv), Item(<<>>, Seven, <<"set", <<<<Short>>>>>>),
              Item(<<>>, W!Raw(<<a, b>>), <<"string", Short>>)>> : tv \in Values}
Filtered == {File(its, filter, FALSE, 0) : its \in Triples, filter \in {OnlyA, NotA}}

(* Every glob of three characters, but for those with two stars in a row   *)
(* ahead of something else; and some with classes, escapes and a dot.      *)
Globs == {g \in Seqs({"a", "b", "*", "?"}, 3) :
            \A i \in 1 .. Len(g) - 2 : g[i] # "*" \/ g[i + 1] # "*"}
  \cup {<<"*", "[", "a", "b", "]">>, <<"[", "^", "b", "]", "*">>, <<"a", "\\", "*", "*">>,
        <<"?", "\\", "*">>, <<".", "*">>, <<"*", "b", "?", "a", "*">>, <<"a", "*", "b", "*", "a">>}
Named(k) == Item(<<>>, k, <<"string", Short>>)
Names == <<Named(KeyB), Named(Zipped2), Named(Seven), Named(W!Raw(<<a, W!Byte("*")>>)),
           Named(W!Raw(<<a, b, b, a>>)), Named(W!Raw(<<W!Byte("A")>>))>>
Matched == {File(Names, [expr |-> g, ign_case |-> i, invert |-> v], FALSE, 0) :
              g \in Globs, i \in BOOLEAN, v \in BOOLEAN}

(* Files in which one cell of structure is not what belongs there, or is   *)
(* of a kind that is not supported; a compressed string that does not      *)
(* expand is one of them, and a list without its header or its end.        *)
Structure == {"magic", "op", "type", "len", "int", "lzf", "zip", "head", "end"}
Wrong(c) == IF c[1] = "magic" THEN {<<"magic", FALSE>>}
            ELSE {<<"op", "module_aux">>, <<"type", "odd">>}
Spoil(f, i, c) == [f EXCEPT !.cells[i] = c, !.intact = FALSE]
SpoiltAt(f) == UNION {{Spoil(f, i, c) : c \in Wrong(f.cells[i])} :
                      i \in {j \in 1 .. Len(f.cells) : f.cells[j][1] \in Structure}}
Spoilt ==
  UNION {SpoiltAt(File(<<Item(<<Idle>>, KeyB, <<"string", Short>>), Item(<<Expires>>, k, tv)>>,
                       NoFilter, FALSE, 0)) :
         k \in Strings, tv \in Vals("hash", {<<<<Zipped2, Seven>>>>}) \cup
                              Vals("list_quicklist_2", {<<W!Lzf(<<a, b>>)>>}) \cup
                              {<<t, W!Raw(<<a, b, b, a>>)>> :
                                 t \in {"hash_zipmap", "zset_ziplist", "hash_listpack"}} \cup
                              Vals("list_quicklist", {<<W!Raw(<<a, b>>)>>})}
(* The command of a stream that ends early is cut short, so its key is one *)
(* of which the command is wrong in any case.                              *)
SpoiltStreams ==
  UNION {SpoiltAt(File(<<Item(<<Expires>>, Seven, tv)>>, NoFilter, FALSE, 0)) :
         tv \in Vals("stream_listpack", {Stream(<<PackA>>, 3, <<GroupB>>)})}
PlainNode == Spoil(File(<<Item(<<>>, KeyA, <<"list_quicklist_2", <<Short>>>>)>>,
                        NoFilter, FALSE, 0), 6, W!Size(1))

(* Zipmaps with a pair that is not whole: the string ends ahead of its     *)
(* value, the end mark is where the value should be, or a length leads out *)
(* of the map.  One that only lacks its mark is read to its end, and its   *)
(* command is cut short, so the key is again one of an integer.            *)
Map(cells) == File(<<Item(<<>>, Seven, <<"hash_zipmap", W!Raw(cells)>>)>>, NoFilter, FALSE, 0)
TwoPairs == Map(<<a, b, b, a>>)
StringLength == 4
FirstField == 6
BrokenMaps == {[Map(<<a>>) EXCEPT !.intact = FALSE]}
         \cup {Spoil(TwoPairs, StringLength, W!Size(n)) : n \in {2, 4, 5}}
         \cup {Spoil(TwoPairs, FirstField + i, <<"end">>) : i \in {1, 3}}
         \cup {Spoil(TwoPairs, FirstField + i, <<"far">>) : i \in 0 .. 3}

Files == WholeFiles \cup CutFiles \cup Dumps \cup Ends0a \cup Filtered \cup Matched
    \cup Spoilt \cup SpoiltStreams \cup BrokenMaps \cup {PlainNode}

-----------------------------------------------------------------------------
(* Files read from stdin through a window of BufSize = 12 cells.  A key    *)
(* with its meta data has no more than half of that; values are not        *)
(* compressed, keys may be.                                                *)
SmallItems == {Item(<<>>, KeyA, <<"string", Short>>),
               Item(<<<<"d_freq", 1>>>>, Seven, <<"string", Seven>>),
               Item(<<<<"d_dbselect", 1>>>>, KeyB, <<"set", <<>>>>),
               Item(<<>>, Zipped2, <<"string", Seven>>)}
MCStdin == {File(its, NoFilter, TRUE, 0) : its \in Seqs(SmallItems, 5)}

MCInputs == Files \cup MCStdin

-----------------------------------------------------------------------------
(* What the passing run leaves out. *)

(* Streams in which an entry ahead of another one was deleted, or that had *)
(* more entries once.                                                      *)
Early == Pack(<<5, 0>>, "raw", <<a>>,
              <<Dead(Same(<<0, 0>>, <<b>>)), Same(<<1, 0>>, <<a>>)>>)
MCStreamCounts == {File(<<Item(<<>>, KeyA, tv)>>, NoFilter, FALSE, 0) :
                     tv \in Vals("stream_listpack", {Stream(<<Early>>, 2, <<>>)}) \cup
                           Vals("stream_listpacks_2", {Stream(<<PackA>>, 4, <<>>)})}

(* A zset_2 with a compressed member. *)
MCZSet2 == {File(<<Item(<<>>, KeyA, <<"zset_2", <<<<m, one>>>>>>)>>, NoFilter, FALSE, 0) :
              m \in Strings}

(* A list of more than one node, and then a hash or a sorted set with an   *)
(* integer for a name.                                                     *)
Named7 == Vals("hash", {<<<<Seven, Short>>>>}) \cup Vals("zset", {<<<<Seven, one>>>>})
MCJson == {File(<<Item(<<>>, KeyA, <<"list_quicklist", <<m, n>>>>), Item(<<>>, KeyB, tv)>>,
                NoFilter, FALSE, 0) :
             m \in {Short, Zipped2}, n \in {Short, Zipped2}, tv \in Named7}

(* Times of a key that follows one that the filter rejects. *)
MCFilteredMeta == {File(<<Item(<<>>, KeyA, <<"string", Short>>),
                          Item(<<Expires>>, KeyB, <<"string", Short>>)>>, f, FALSE, 0) :
                     f \in {NoFilter, NotA}}

(* Keys that Redis does not store as plain strings. *)
MCAnyKey == {File(<<Item(<<>>, k, <<"string", Short>>)>>, NoFilter, FALSE, 0) :
               k \in Strings}

(* A compressed value among the keys of a stream of more than a window. *)
MCStdinZipped ==
  {File([i \in 1 .. 5 |-> IF i = z THEN Item(<<>>, KeyB, <<"string", Zipped2>>)
                          ELSE Item(<<>>, KeyA, <<"string", Short>>)],
        NoFilter, TRUE, 0) : z \in 1 .. 5}
=============================================================================
