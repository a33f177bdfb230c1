# A verification of rdbparser

rdbparser reads what Redis saves, an rdb file or the DUMP of one key, and
reports it through callbacks: as JSON, as a list of keys, or as RESTORE
commands.  It is one sequential process.  There are no threads and no locks, and
the repository has no tests; what is hard about it is not interleaving but
position.  Everything is read through one cursor that jumps into freshly
expanded buffers and back, through a window that slides over stdin, and through
an output that can be exchanged while meta data is in flight.  One byte or one
step off and every value after it is wrong and still looks like one.

Paths below are those of the repository; `decode.cpp` stands for
`src/rdb_decode.cpp`, `decode.h` for `include/rdbparser/rdb_decode.h`, and so on.

## The system

| Component | State | Operations | What makes it correct |
|---|---|---|---|
| `RdbBufptr` (decode.h:70, decode.cpp:14-84), the cursor | buffer, bytes left, offset, the parked main buffer, the list of expanded blocks | `incr`, `look`, `decompress`, `free_alloced` | every byte is handed out once and in order; no reading in freed blocks; the offset is the position |
| `RdbLength`, `RdbLenEncode` (decode.h:105, encode.h:9), the length codec | length, compressed length, immediate integer | `decode`, `decode_buf`, `consume`, `len_encode`, `int_encode`, the size functions | what is encoded is decoded; the size asked for is the size written; a short header is short |
| `RdbDecode` (decode.h:742, decode.cpp:237-1175) | type, key, length of the value, current and real output | `decode_hdr`, `decode_body` and one function per type | the values written are the values reported, each once; damage is refused |
| `RdbOutput`, `RdbFilter` (decode.h:668-727) | - | the callbacks | calls come in the documented order, and meta data with the key it belongs to |
| `RdbZipList`, `RdbListPack` and their encoders (decode.h:224-515, encode.h:103-352) | a cursor in a packed string | `first`, `next`, `encode_*` | links lead from element to element; every integer decodes to itself |
| `RdbStreamEntry`, `decode_stream` (decode.cpp:423-513, 969-1144) | master fields, a shared table of 64 fields, ids | `read_header`, `read_entry` | each table has one owner; starts and ends of parts nest |
| `main` (rdb_main.cpp) | the stdin buffer, its fill, `input_eof` | `fill_buf_stdin`, the loop over the keys | every key of the input is reached, whatever the window; the exit code tells the truth |
| `RestoreOutput` (rdb_restore.cpp) | offset of the type, `is_matched`, times | the callbacks it hears, `write_restore_cmd` | one command per wanted key, with its key and its bytes |
| `JsonOutput` (rdb_json.cpp) | counts for commas | every callback | the output is JSON |
| `PcreFilter`, `GlobCvt` (rdb_pcre.cpp, glob_cvt.h) | a name or a compiled pattern | `set_filter_expr`, `match_key` | the glob matches what a glob matches |
| `jones_crc64`, `print_hex`, `ListOutput`, `show_error` | a counter of lines | - | not modelled |

`main` calls `decode_hdr` and `decode_body` once per key; they share the
`RdbBufptr` by reference and call the output and the filter; `RestoreOutput`
keeps a reference to the same `RdbBufptr` and cuts its data out of the buffer
under it after the key; `main` frees the blocks and moves the window between
keys.  The behaviours that are hard to test are listed line by line under
`hazards` in `PROJECT.json`.

## The modules

    RdbFlatStream          what the cursor promises: one flat stream
    RdbCursor              struct RdbBufptr as a value, its methods as operators
      RdbBufptr            the cursor under any decoder  -- implements RdbFlatStream
        RdbBufptrProofs
      RdbDecode            decode_hdr(), decode_body(), decode_stream()
        RdbMain            main(), the stdin window, RestoreOutput
          RdbReadProofs    what every read of the decoder keeps
          RdbRoundTrip     the program fed with what RdbWire writes; the properties
            MCRoundTrip    the inputs
            RdbMainProofs  the whole program, on RdbReadProofs
              RdbProgressProofs  no step of it is in vain; its calls are numbered,
                                 its commands cut out of the input
    RdbStreamEntry         struct RdbStreamEntry           -- extended by RdbDecode
    RdbPcre                PcreFilter, GlobCvt, PCRE        -- extended by RdbDecode
    RdbWire                Redis, the writer (external)     -- instanced by RdbRoundTrip
    Glob                   what a glob matches              -- instanced by RdbRoundTrip
    RdbJson                JsonOutput, as tokens            -- instanced by RdbRoundTrip
    JsonText               what a JSON text is              -- instanced by RdbRoundTrip
    RdbLength              the length codec, byte by byte
      RdbLengthProofs
      MCLength             its boundary values
    RdbPacked              ziplists and listpacks, byte by byte
      RdbPackedProofs      sizes, bounds, progress
        RdbPackedReads     what was written is read
          RdbPackedLinks   and its links lead back
      MCPacked             its boundary values

**RdbCursor** has one operator per method of `RdbBufptr`.  A pointer is the
buffer it points into (`Main`, the number of an expanded block, or `Null`) with
the offset in it, which `incr` moves together.  The list of blocks is the number
of them that are allocated.  `malloc` failing is not told from `lzf_decompress`
failing.  `start_offset` belongs to `main`, which is the only one to set it.

**RdbBufptr** drives that cursor with the calls decoders make, in every order:
headers behind a `look()` (`DecodeLen`), bare `incr`s (`Read`), bytes of an expanded
string (`TakeBlob`), `decompress` (`Unzip`) and the end of a key (`KeyDone`), which
comes wherever the cursor is: `main` calls `free_alloced` without asking
(rdb_main.cpp:282).  A key that ends with bytes of its block unread, as an intset
with a short count does (decode.cpp:701), leaves the cursor in a freed block.  What
is read there is undefined in C++: the model lets the callers take those bytes, as
many as `avail` says there are, but gives no meaning to them, and expands nothing out
of them.  `StaysLive` says that there is no other way into a freed block.
`RawAfterBlob` says whether a caller may `incr()` past a spent block without
`look()`.  `RdbFlatStream` is its abstract specification: a number of bytes left
and a status.  rdb.adoc:233-235 gives it: compressed bytes are removed and the
expanded ones inserted.  The refinement holds for `RawAfterBlob = FALSE` only;
the one caller in the models for which it is `TRUE`, `decode_zset`, is the subject of run
`zset_2`.

**RdbLength** is exact to the byte: `length_encoding`, `decode_buf` with its
recursion for LZF unrolled (it is one deep by `is_lzf`), `str_code`, `int_code`
and both encoders.  A 64 bit length is its eight bytes.  `look()`'s zero padding
is `At`.  A writer appends headers, the medium keeps, cuts or damages them, and
the reader decodes what is left.

**RdbPacked** is exact to the byte, too: the codes of `RdbZipList` and
`RdbListPack`, their lengths and integers of 3 to 64 bits (a 64 bit integer is
its eight bytes), both `next()` functions, `RdbZipEncode` and
`RdbListPackEncode` with the encoder that only calculates next to the one that
writes, and the header.  An element is an integer or a string of some length; of
the bytes of strings, which nothing interprets, only the place and the number are
kept.  Lengths of 2^24 and more are not told apart, neither when they are written
nor when they are read.  The `writer` of a list is the repository or Redis: where the two encode
differently, and for integers of a ziplist, which the repository never writes,
Redis is modelled from what the decoder reads.  When a list is finished one byte
behind its header may be overwritten; then it is walked.

**RdbWire** is the other end of the format and not part of the repository.  Its
bytes are *cells*: the least a decoder asks for at a time, an opcode, a header, a
field of fixed size, one byte of a string, one element of a packed list.  It is
modelled from what the decoders read, and every definition of it is marked
external.  That a packed list may stand for the sequence of its elements is what
`RdbPacked` shows.  The lead of an intset holds its count, which is all the decoder
goes by (decode.cpp:697); a zipmap has a count, which is not used, and an end mark; a
list has a header, and the listpack of a stream none.

**RdbDecode** is `decode_hdr` and `decode_body` over those cells, with the loops
unrolled: an action is one opcode (`Meta`, `ModuleAux`, `EofMark`), the type
(`KeyType`), the key and the header of the value (`KeyHdr`), the choice of the
output (`StartKey`), one element (`HashEntry`, `SetMember`, `ListElem`,
`ZSetMember`), one packed string (`ZipList`, `ZipMap`, `IntSet`), one quicklist
node (`QuickNode`), one part of a stream (`StreamBlock`, `StreamMeta`,
`StreamGroup` and so on to `EndStream`), or the rest of a key.  Inside an action the C++ is a chain of
calls each of which can return an error; that is the record passed through
`Then`.  Every error is one of them: a compressed string whose cell is not one that
`lzf_decompress` can expand (`Expand`), a list whose header `init` refuses (`Listed`;
decode.cpp:783, 857, 896, 925) and a zipmap that does not end between two pairs
(`Closed`), of which the whole pairs are reported before it is refused.  The listpack
of a stream that `init` refuses is passed over without an error (decode.cpp:992), as
in the model an empty one is.  `evs` is the history of calls on `data_out`: calls through `out` are in
it only while `out` is `data_out`.

**RdbStreamEntry** is `read_header` and `read_entry` on a record with the fields
of the struct.  A table of names or values is a place in `tmp` or a block of its
own; the values are read through the table when a callback is made, so that a
table that is overwritten or released too early shows in the call.  The room of
64 values is `TMP_SIZE`.  A listpack is the list of its elements, walked as
`RdbPacked` says.

**RdbPcre** is `PcreFilter` with the translation of a glob by `GlobCvt`, character
by character, `set_filter_expr`'s choice between a name and a pattern, and
`match_key`.  What PCRE makes of the translation is external: anchors, a dot,
classes, escapes, and a lazy star behind `(*COMMIT)`.  **Glob** says what a glob
matches and knows nothing of regular expressions.

**RdbMain** is the loop of `main`.  `KeyDone` is everything between two keys in
the code's order: free the blocks, write the command, move the window and fill
it, leave if nothing is there.  `RestoreOutput` listens in every run (the options
only choose what is printed).  It hears the times of a key and forgets them: the
command says that the time to live is 0 whatever they are (rdb_restore.cpp:70), so
`Command` does, and `Restored` is about the key and the value of a command only.  `Exited` is the process after `return`.

**RdbJson** is `JsonOutput`: for each callback the tokens it prints, with its
counter of members and its look at the type of the key.  It is a fold over `evs`.
**JsonText** reads tokens as a JSON parser does, with a stack of open containers.

**RdbRoundTrip** pairs every input with what the program owes for it and states
the properties.

Definitions with a suffix, such as `Look_NeverPops`, are a definition with one
mistake in it; each shows that some property notices that mistake.

## What is checked

| Run | Instance | What it shows |
|---|---|---|
| `bufptr` | 9 bytes, headers to 3, strings to 4 | accounting, offsets, the one way into a freed block and the way out of it, refinement of the flat stream |
| `length` | two headers out of 8 lengths, 12 integers and all LZF pairs | round trip, sizes, cut and damaged streams |
| `packed` | lists of up to 3 elements, one byte damaged | round trip of every code, sizes, links back, bounds, progress |
| `roundtrip` | files of 1-6 keys of 18 types and dumps, whole, cut, spoilt, filtered, through a window | the values, order, numbering, meta data, commands and where they are cut out, JSON, verdict; no step is in vain; the program exits |
| `zset_2`, `stdin_end`, `restore_stdin`, `restore_key`, `filtered_meta`, `json`, `listpack_13`, `stream_counts` | small | the findings below |

`packed` has 534 thousand states, `roundtrip` 102 thousand.

*Bounds.*  In `bufptr` 9 bytes hold three headers and strings of different length
in any order, enough for a block to end with the main buffer's end, before it,
and twice in one key.  In `length` the values are those on either side of each
code's limit; each header is independent of the ones before it but for its
position, so two are enough to tell whether the position is right.

In `packed` strings lie on either side of every change of the code of a length
and of a link, which counts the header too, and integers are the least and the
greatest of every code and one whose bytes all differ, so that a swapped pair
shows.  A link depends on the entry before and on nothing else, so three elements
hold every pair as well as a link between two links.  Lists of less than three
elements and at most 160 bytes (`MaxDamaged`) are damaged, in every byte of
structure, with the bytes at the bounds of the codes; longer ones would only
repeat the damage at other places.  Bytes of strings read as `Payload`, 245, which
is no code of a listpack and leads furthest astray.

In `roundtrip` a value has no element, one or two; strings are raw, integers or
compressed, and come next to each other in the orders that move the cursor out of
a block, into one, and from one into another.  Each decoding function is entered
through one of its types at least (`hash_listpack` and `zset_ziplist`, say, take
the same steps as `zset_listpack` and `hash_ziplist`).  There is one key alone,
every pair of values, and three keys under a filter.  A stream has up to two
listpacks, raw and compressed, with entries that share the master's fields, and
entries with more of their own than the table has room for (`TMP_SIZE` is 3), so
that tables lie in `tmp`, on the heap, and are given back between entries; a
deleted entry comes last; groups have no or two pending entries and consumers.
Globs are all those of three characters from `a`, `b`, `*` and `?` and some with
classes, escapes and a dot, each with and without `-i` and `-v`, on names of up to
four characters.  Cut files are cut at every cell.  Spoilt files have one cell
of structure replaced, those of a stream included: a string that does not expand, a
list without its header and a map without its end are among them.  Zipmaps are also
cut inside the string that holds them, at each of their cells, and have an end mark in
the place of a value or, in the place of a field or value, a length that leads out of
the map.  Dumps come with versions 9
and 10, with and without newline, with a right, wrong and absent checksum, and
with one that ends in the byte of a newline.  The window of stdin has 12 cells
(`BufSize`); files of up to five keys are longer than two windows, so that it
moves more than once.

*What the passing runs leave out and another run shows:* compressed members of a
`zset_2` (`zset_2`), lists of two nodes and integers as the fields of a hash or the
members of a sorted set (`json`, whose inputs have both), meta data on a key that
follows one that was filtered (`filtered_meta`), the commands of keys that are not
plain strings (`restore_key`) and of keys behind the first refill
(`RestoredInWindow` says which are meant; `restore_stdin`), compressed values over
stdin (`stdin_end`), negative 13 bit integers (`listpack_13`), streams with deleted
entries ahead of others and trimmed streams (`stream_counts`).

*What they leave out without a run of its own:*
  - A key over stdin takes at most half the window, which is all the code promises:
    a larger one may be refused as truncated.
  - What the repository's listpack encoder writes for 24 bit integers, for strings
    of 4096 bytes and more, and for negative 13 bit integers: encoder and decoder
    disagree (encode.h:273, 304), but nothing says that they are meant to meet.
  - The length of a packed list in its header is taken on trust; damage is behind
    the header.
  - Compressed AUX fields, compressed or integer names of consumers and groups:
    the same mistake as in `zset_2` (decode.cpp:300, 1112).
  - Checksums that end in 0x0a with another version than 9 (decode.cpp:271).
  - Modules and `stream_listpacks_2` are not cut, and the payload of a module holds
    no zero byte: what is missing of them is not noticed (decode.cpp:1171, 1054).
  - Intsets whose own count is not that of the string they are in (decode.cpp:701).
  - A stream whose master has more than 64 fields: its table is on the heap, and an
    entry that shares it releases it too (decode.cpp:487).
  - Globs with `**` ahead of something, ranges in classes, `|` and the other
    characters that mean something to PCRE: the translation hands them on
    (glob_cvt.h:60).
  - Zipmaps that lack their end mark or whose lengths lead from one pair to another:
    they are read as if they were whole, having nothing to tell them by.
  - The characters inside a string of JSON, escapes among them, and the format of
    numbers, of which an infinite score of a `zset_2` has none that is JSON
    (rdb_json.cpp:60).

*Deadlock* is checked in the runs of the program: it can only stop by exiting.
`RdbBufptr`, `RdbLength` and `RdbPacked` stop at an error or at the end of the
data.

*Fairness* is `WF_vars(Step)`: the process is alone and every step of it is
computation on data it has, so as long as it can go on it does.  A read of stdin
that blocks for ever is the writer's failure, not the program's, and not modelled.

## Findings

1. `zset_2`: the score of a sorted set is taken with a bare `incr`
   (decode.cpp:737, 743).  Behind a compressed member the cursor is still at the
   end of the expanded block, and an intact file is refused as truncated.
2. `stdin_end`: if a compressed value is the last thing in the window, nothing is
   parked behind it, `free_alloced` pops to nothing, and the loop is left with
   success while stdin still has data (rdb_main.cpp:296).
3. `restore_stdin`: `write_restore_cmd` subtracts `start_offset` from offsets that
   `main` has already made relative to the window.  After the first refill keys are
   refused or cut out at the wrong place.
4. `restore_key`: an integer key is written with another key's characters, a
   compressed one from a block that has been freed.
5. `filtered_meta`: meta data goes through `out`, which is the null output after a
   key that was filtered: the next key loses its times.
6. `json`: what is printed by default is not always JSON (rdb_main.cpp:170).  The
   loop over a node of a quicklist is left before the number of the element goes on
   (decode.cpp:861), so numbers repeat at the boundary of two nodes; JsonOutput puts
   its commas by them, and writes none between two nodes of one element each.  And an
   integer that is the field of a hash or the member of a sorted set is printed as a
   name without quotes (rdb_json.cpp:251, 272).  Each of the two alone violates
   `JsonDocument`; the inputs of the run have both.
7. `listpack_13`: `s13` (rdb_int.h:115) extends the sign by subtracting from 16, and
   only over part of the word: 0xdfff, which is -1 (rdb.adoc:596-597), is decoded as
   0xffffffff000001ff.
8. `stream_counts`: the loop over the entries of a listpack runs as often as there
   are live ones, and counts the deleted ones it skips (decode.cpp:999), so a live
   entry at the end is lost; and `num_elems` of a `stream_listpacks_2` is
   overwritten with the number of entries ever added (decode.cpp:1032), which after
   a trim is not the "count of stream entries" (decode.h:628).

## What is proved

Eight modules hold theorems, for every value of the constants: `RdbBufptrProofs`,
`RdbLengthProofs`, `RdbPackedProofs`, `RdbPackedReads`, `RdbPackedLinks`, `RdbReadProofs`,
`RdbMainProofs` and `RdbProgressProofs`.  Each invariant was given to TLC before it was proved.

*The cursor.*  For every size of buffer, header and string: `TypeOK`, `Accounted`
and `OffsetTracks` are invariants, `StaysLive` holds of every step, and if callers
`look()` after every string, `Spec => FlatSpec`.  `Accounted` and `OffsetTracks` are not inductive:
`look` and `free_alloced` assign `sav` to `buf` without looking at it, so what
they do depends on `sav` being the main buffer exactly when bytes are parked
(`Parking`), on nothing being parked while the main buffer is current
(`OneDeep`), and on a current block being no longer than a string may be
(`BlockBound`).  The conjunction is `IInv`.  Each method gets a lemma that says what
it does to a cursor that satisfies it (`LookIsGood`, `IncrIsGood`,
`DecompressIsGood`, `FreeIsGood`), and `NextIInv` has one step per action.  A cursor
that was left in a freed block satisfies it, too: its bytes are still counted and the
main buffer is still parked, so that the first `look` behind them finds it.  That is
`StaysLiveAlways`, again with one step per action.  The
refinement uses `IInv` and one step per action again; `Look` is a stutter.

*The codec.*  `LengthRoundTrip`, `IntRoundTrip` and `LzfRoundTrip`: every 64 bit
length, every 32 bit integer and every pair of lengths decodes to itself,
wherever it stands and whatever follows.  `HeaderFits`: no header, not even a
corrupt one, is longer than the look-ahead.  From `SizeAgrees`, `RoomAlways`
(the room asked for is the room needed) and from `HeaderFits`, `AdvancesAlways`.

`StreamInv` carries these to streams of any number of headers.  That `decode()`
returns what was written is not inductive: it does so only if it stands where a
header begins, and that the next one begins where it stops is a fact about all the
bytes there are.  So there is, for each state, a sequence of the places where the
headers begin (`Starts`), the bytes from each place to the next are those of its
header (`WireInv`), and the reader stands at the place of the header that it is to
read next, all before it having been read as they were written (`ReaderInv`).  A
step of the writer adds a place; a cut keeps a prefix of them and part of a
header, of which `HeaderCut` says that the zeros behind it do not complete it.
`HeadersReadBack`, `EveryHeaderRead` and `CutsAreShort` follow, and `LengthTypes`,
for which nothing is known of the bytes but that they are bytes.

*Packed lists.*  Four invariants, each on top of the one before.

`RoomInv` relates the two encoders: whatever was appended, the one that only
calculates and the one that writes have the same offset, link size and code of
the last link.  It rests on `SizesAgree`, that what is written for an element has
the size of its code, which has one theorem for each of the four encoders
(`ZipStrSize`, `ZipIntSize`, `PackStrSize`, `PackIntSize`).  `PackedRoom` follows.

`WalkInv` says of the walk only where it is: behind the header and, once an
element was accepted, inside the list as the header bounds it.  Of memory it says
only that it holds bytes, whichever they are, so `ZipMovesOn` and `LpMovesOn` hold for memory of any content and
`Damage` needs no more than that the header stays.  `PackedInside` and
`PackedAdvances` are therefore about damaged lists as much as whole ones, and about
lists of any length, `Told` being what four bytes tell of it.  `TypeInv` adds that
what was read is a 64 bit integer or a string of some length, which `ZlinkIntWord`
and `LpIntWord` show for every code, the unused ones too, over any bytes;
`PackedTypes` follows.

`ReadInv` says what lies where: the entries follow one another from the header to
the end mark, each of them the bytes written for some element (`EntryIs`), and
the walk stands at the entry behind those it has read.  `ReadAppend` shows that an
entry laid behind the others leaves them as they are, `ReadEnd` that the mark and
the header do, and `ReadWalk` that `next()` reads the one it stands at.  That is
`EntryReads`, from a theorem per code: `ZipIntReads` and `ZipStrReads`,
`PackIntReads` and `PackStrReads`, for all 2^64 integers and all lengths below 2^24.
`PackedReadsBack` and `PackedAllRead` assume `AllReadable`: strings are shorter than
2^24 bytes (beyond it all lengths are one), and lists hold
none of the elements that finding 7 and the second of the exclusions above are
about.  For the same reason they, and `PackedLinks`, are about lists that are no
longer than that (`Short`): the walk over a longer one would end at the length
that is told.  `PackedAllRead` is about lists of up to 65535 elements, which is as far as
the header counts.

`LinkInv` adds to `ReadInv` what the links say (`Chain`): entry i carries the size
of entry i - 1, as a prefix in a ziplist and as its own size behind it in a
listpack, and the encoder still knows the size of the last.  That a prefix of 1 or
5 bytes is read for what it is is `ZipLinkReads`; that the groups of seven bits of
`encode_back` are put together again is `LpLinkReads`, from `Groups`, which takes a
number apart into four of them.  `PackedLinks` then says that the way back meets
every entry, whatever the sizes of the links on it.

*The program.*  `RdbMainProofs` is about `RdbRoundTrip`, the whole program, over any
set of inputs, whole, damaged or arbitrary, and any size of the window.
`BlocksStayLive`, `WindowIsInput` and `TypeCorrect` follow from one invariant,
`IInv`.  None of the three is inductive.  `free_alloced` (decode.cpp:54) frees every
block and looks at nothing but the cursor's `avail`: that the cursor is not left in
a block it frees is a matter of what each path through the decoder has read by the
time it comes there.  And `main` moves the window by the cursor's offset, which is
an offset in the window only if the cursor is in the window.  `PlaceInv` therefore
says for each place in the decoder how much of a block may still be unread: nothing
between keys, the whole string if it is the value itself, and in the loop over a
value whose number of elements came from a compressed string, one cell for each
element still to come.  (An undamaged file never has a compressed string there; the
code takes one, and the theorem covers it.)  The other parts say where the cursor
ends (`CursorInv`: at the end of the window, or at the checksum of a dump), that
nothing is read before the file or dump is opened (`OpenInv`), which part of the
input the window is (`WindowInv`), and that the key's block is among the live ones
(`KeyInv`).

`RdbReadProofs` has the lemmas below it, one per operator of `RdbDecode`: with a
good cursor, at most `n` cells left of a block before the read, there are at most
`n`, or one less, after it, whether it succeeds or fails.  They are composed in
`RdbMainProofs`, with one lemma per action, and in `StepIInv`.

`DamageUnread`: a dump that does not agree with its checksum reports nothing but its
failure.  It needs `CrcInv`, that a damaged dump is either not opened yet or
refused, on top of `IInv`, which says that a window that has not been opened is the
whole dump.

`NoStepInVain`: the loops of the decoder take their bounds from the input, and the
one of `main` has none but the end of the data, so a damaged count could keep any
of them busy for ever if a turn of it could go by without reading.  `Progress`
says that none does.  A step reads on: fewer cells are left in the window and on stdin
together, or as many and fewer in the block the cursor is in (`ReadsOn`).  Or it reads
nothing and leads to an earlier stage of the key (`Stage`): entries of a listpack
still to be reported, a loop of no turns left, the end of the key, of the program.  The three
in that order are a measure that cannot decrease for ever.  It needs two facts
beside `IInv`.  The number of entries of a stream's listpack, which is read from the
listpack itself, is a natural number (`ItemsInv`; decode.h:595 has a `size_t` for
it).  And what is in the window and on stdin together stays the same when
`main` moves the window (`RestIs`, from `WindowInv`).  Each operator that reads gets a
lemma that it goes past what it stands at unless it is refused (`HeaderPast`,
`LengthPast`, `NamePast` and so on), and each action one that says which of the two it
does.  That the program therefore ends, given that it goes on (`Terminates`), is
left to TLC.

`ElementsInTurn`: the elements of a key are reported with the numbers 0, 1, 2 and so
on, whatever the input, unless it has a quicklist, whose numbers repeat (finding 6).
`Numbered` looks only at the calls that were made, and no number in a call is taken
from the call before it: the loops keep their own.  `CountInv` says that they agree.
While a hash, a list or a set is read the loop's `num` is what has to follow the
last call; in a stream the loop over the entries, which runs on from one listpack
to the next and passes over deleted entries, is in step with them, and each list of
pending entries has a count of its own.  What makes that inductive is that something
without a number is always called before a list begins (`Quiet`, `Resting`):
`d_start_key`, or `d_stream_start` for a list that is not empty, which is all that
separates the pending entries of one consumer from those of the next.  A key that
does not match the filter reads the same elements and reports none, so the
invariant holds of keys that are reported (`dec.data`), and `StartKeyTurn` shows
that it holds again when the next one begins.  `Announced` says that the type of
the key at hand is among the calls: a decoder inside a quicklist has announced one,
and the theorem says nothing any more.

`CommandsAreCut`: `write_restore_cmd` does not keep what it read.  It computes where
the value is a second time, from the offset that was in the cursor when the type was
announced and the length of the key, and where it ends from the cursor after the
last block is freed.  `CutFromInput` says what the result has to be, of every input
and not of what `RdbWire` writes: there is a place in the input that holds this type,
behind it the length of the key that the command names and that key, and the command
is the type and what lies from there to where the next key begins.  It is about the
time before the first refill of the window, behind which the offsets no longer agree
(finding 3), and excludes keys of a file that are integers or were compressed
(finding 4).  `CutInv` is what makes it inductive: from the
announcement on `type_offset` is the place of a type, the type of the key at hand
(`TypePlace`); while the key is due the cursor is right behind it; and from then on,
if the key was read out of the window and not out of a block, it lies behind that
type (`KeyPlace`).  Nothing but `d_start_type` moves `type_offset` (`Untyped`,
`Heard`), which is a fact about every call the decoder can make first in a step, and
`IInv` gives the rest: between two keys the cursor is in the window.  That the
command is also the right one, with the value that was written under that key, is
`RestoredInWindow`, which TLC checks.

*What the theorems assume.*  `BufptrAssumption`, `LengthAssumption`,
`PackedAssumption` and `MainAssumption`: sizes are natural numbers, the window is not
empty, what is written is 64 or 32 bits wide, and elements are strings of some
length or words.

`InputsAssumption` is about the cells that stand for bytes.  Two of its parts are the
encoding itself: a length holds a number, and the string behind the header of a
compressed one, if it expands at all, is as long as the header says: that is the size of
the block and what `decompress` sets `avail` to, whatever `lzf_decompress` wrote
there (decode.cpp:23, 37).  The others leave something out.  `BlockOK` asks that there is no compressed string inside
a compressed one; `decompress` would lose the main buffer if there were, and what
Redis compresses is plain data.  It also asks that an intset that was compressed
counts all its integers.  The second is needed: with a smaller count the cursor
stays in a block that is freed (decode.cpp:701), which is listed as a hazard.
`Footed` leaves out what cannot be a dump, a newline or a checksum with one byte
ahead of it.  TLC evaluates the assumption on all inputs of the runs, damaged ones
included.

`DamageAssumption` says what a damaged dump is: it does not begin as a file does, and
none of its cells is a checksum that agrees with the dump or is zero.  What a
CRC cannot tell from an intact dump is left out by it.

*Only model-checked.*  In `RdbRoundTrip`,
`NoneWrong`, `Verdict`, `MetaInPlace`, `OwnMeta`, `RestoredInWindow` and
`JsonDocument` compare what the program does with what `RdbWire` meant or with a
text that is parsed: they are statements about the inputs of the run, true of what
`MCRoundTrip` writes and false of some others, as the findings show, and for all
inputs they would need induction over the value written, the reports made or the
tokens printed, which the prover cannot do.  `Terminates` is liveness, out of its
reach as well; `Progress` is the part of it that is not.  The filter, `RdbStreamEntry` and JSON are checked on instances only.

## What is not modelled

- `jones_crc64`, a table-driven division: the models need only whether it agrees.
- `ListOutput`, `show_error` and `HexDump`, which print; `LiveBlocks` states what
  `show_error` assumes of the cursor.
- The characters of strings: the escapes of JSON and of RESTORE, the format of
  numbers.
- Intsets byte by byte: a member is a cell.  That members of 8 bytes are read as
  32 bits (decode.cpp:711) is therefore a hazard without a property.
- Options, `mmap`, and the branches for Windows: they decide where bytes come from
  and what is printed, not what is decoded.  One of them is listed here because it
  can be seen from the outside: an argument is looked for up to the last but one
  (rdb_main.cpp:153), so that `-v` at the end of the line is not found.

## What is left

Intsets byte by byte, next to `RdbPacked`.
