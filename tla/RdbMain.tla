------------------------------- MODULE RdbMain -------------------------------
(***************************************************************************)
(* main(): the loop over the keys of one input, with the window that       *)
(* stdin is read through and the RestoreOutput that cuts commands out of   *)
(* that window.  RestoreOutput listens to every run; which output is       *)
(* really installed only decides what is printed.                          *)
(***************************************************************************)
EXTENDS RdbDecode

CONSTANTS Inputs,   \* the inputs: [cells, stdin, filter, ...]
          BufSize   \* input_buf_size, in cells

ASSUME MainAssumption == BufSize \in Nat \ {0}

VARIABLES input,         \* the input of this execution
          rest,          \* cells of stdin not yet read
          input_eof,     \* as the code has it: TRUE also before the first read
          start_offset,  \* cells that have left the window
          restore,       \* the fields of struct RestoreOutput
          cmds           \* history: the RESTORE commands written

main_vars == <<input, rest, input_eof, start_offset, restore, cmds>>
vars == <<decode_vars, main_vars>>

-----------------------------------------------------------------------------
(* What an input may be.  Its cells are in any order, but what belongs to  *)
(* a cell is there: a number in a length, in the lead of an intset and in  *)
(* an integer of a listpack, which all are unsigned; two in the header of  *)
(* a compressed string, and behind it, unless it expands to nothing, the   *)
(* cell with the string, as long as the header says.  What was compressed  *)
(* is data: there is no compressed string in it, and if it is an intset,   *)
(* all its integers are counted.                                           *)
CellOK(c) == /\ c[1] \in {"len", "ints", "num"} => c[2] \in Nat
             /\ c[1] = "lzf" => c[2] \in Nat \ {0} /\ c[3] \in Nat

Cells(s) == /\ s \in Seq({s[i] : i \in DOMAIN s})
            /\ \A i \in 1 .. Len(s) : CellOK(s[i])

BlockOK(b) == /\ Cells(b)
              /\ \A i \in 1 .. Len(b) : b[i][1] # "lzf"
              /\ Len(b) > 0 /\ b[1][1] = "ints" => b[1][2] = Len(b) - 1

WellFormed(s) == /\ Cells(s)
                 /\ \A i \in 1 .. Len(s) - 1 :
                      s[i][1] = "lzf" /\ s[i + 1][1] = "zip" =>
                        BlockOK(s[i + 1][2]) /\ Len(s[i + 1][2]) = s[i][3]

(* Ahead of the newline that redis-cli puts behind a dump, and ahead of a  *)
(* checksum that ends like one, there is a version.                        *)
Footed(s) == Len(s) = 2 => s[2] \notin {<<"nl">>, <<"crc", "good 0a">>}

ASSUME InputsAssumption == \A in \in Inputs : WellFormed(in.cells) /\ Footed(in.cells)

-----------------------------------------------------------------------------
(* RestoreOutput *)

NewRestore == [type_offset |-> 0, is_matched |-> FALSE,
               ttl_ms |-> 0, idle |-> 0, freq |-> 0]

(* Each operator named after another one, as in reset_state_FlagOnly, is   *)
(* that operator with one mistake in it, to test the properties with.      *)
reset_state_FlagOnly(s) == [s EXCEPT !.is_matched = FALSE]
reset_state(s) == [NewRestore EXCEPT !.type_offset = s.type_offset]

(* What the output remembers of a call.  The type announced is still in    *)
(* front of the cursor.  A time in seconds is passed on in milliseconds.   *)
Hears(s, e) ==
  CASE e[1] = "d_start_type" -> [s EXCEPT !.is_matched = FALSE,
                                          !.type_offset = bptr.offset]
    [] e[1] = "d_start_key"  -> [s EXCEPT !.is_matched = TRUE]
    [] e[1] = "d_idle"       -> [s EXCEPT !.idle = e[3][1]]
    [] e[1] = "d_freq"       -> [s EXCEPT !.freq = e[3][1]]
    [] e[1] = "d_expired_ms" -> [s EXCEPT !.ttl_ms = e[3][1]]
    [] e[1] = "d_expired"    -> [s EXCEPT !.ttl_ms = 1000 * e[3][1]]
    [] OTHER -> s

(* The key as write_restore_cmd() finds it.  One that was compressed is in *)
(* a block that has just been freed; an integer has no characters, and its *)
(* value is in the place of their number.                                  *)
Garbage == <<"garbage">>
KeyBytes == IF dec.key[1] = "str" /\ dec.key_block = 0 THEN dec.key ELSE Garbage

(* write_restore_cmd() with the cursor at p.  The data is cut out between  *)
(* the end of the key and the cursor, both less start_offset, although     *)
(* only offsets into the window can be turned into addresses.  A header is *)
(* one cell; a dump has no key.  The time to live is 0, whatever the times *)
(* that the output has heard.                                              *)
InWindow(p) == /\ restore.type_offset >= start_offset /\ p.offset >= start_offset
               /\ restore.type_offset < p.offset

DataStart_AtKey == (restore.type_offset - start_offset) + 1
DataStart == (restore.type_offset - start_offset) + 1 +
             (IF dec.is_rdb_file THEN 1 + Len(dec.key[2]) ELSE 0)

Command(p) == IF KeyBytes = Garbage /\ dec.is_rdb_file
              THEN [key |-> Garbage, ttl |-> 0, body |-> <<Garbage>>]
              ELSE [key |-> KeyBytes, ttl |-> 0,
                    body |-> <<win[restore.type_offset + 1]>> \o
                             SubSeq(win, DataStart + 1, p.offset - start_offset)]

write_restore_cmd(p) ==
  /\ cmds' = IF restore.is_matched /\ InWindow(p) THEN Append(cmds, Command(p))
             ELSE cmds
  /\ restore' = reset_state(restore)

-----------------------------------------------------------------------------
(* The input *)

IsFile(cells) == cells # <<>> /\ cells[1][1] = "magic"

Smaller(m, n) == IF m < n THEN m ELSE n

(* fill_buf_stdin(): fread() until the buffer is full or stdin is at its   *)
(* end.  The first time, a buffer that is no rdb file is grown until all   *)
(* of the dump is in it.                                                   *)
FirstFill(in) == IF in.stdin /\ IsFile(in.cells) THEN Smaller(BufSize, Len(in.cells))
                 ELSE Len(in.cells)

Init ==
  /\ input \in Inputs
  /\ LET n == FirstFill(input)
     IN  /\ win = SubSeq(input.cells, 1, n)
         /\ rest = SubSeq(input.cells, n + 1, Len(input.cells))
         /\ input_eof = ~ (input.stdin /\ IsFile(input.cells) /\ n = BufSize)
         /\ bptr = NewBufptr(n)
  /\ heap = <<>> /\ dec = NewDecode(input.filter)
  /\ loop = NewLoop(0) /\ evs = <<>> /\ pc = "hdr" /\ rc = "ok"
  /\ start_offset = 0 /\ restore = NewRestore /\ cmds = <<>>

(* What is left of the window moves to its front, and stdin fills the rest.*)
Kept_Front(p) == SubSeq(win, 1, p.avail)
Kept(p) == SubSeq(win, p.offset + 1, p.offset + p.avail)

HalfBehind(p) == p.offset > BufSize \div 2

Refill(p) ==
  LET kept == Kept(p)
      n    == Smaller(BufSize - Len(kept), Len(rest))
  IN  /\ win' = kept \o SubSeq(rest, 1, n)
      /\ rest' = SubSeq(rest, n + 1, Len(rest))
      /\ input_eof' = (Len(win') < BufSize)
      /\ start_offset' = start_offset + p.offset
      /\ bptr' = [p EXCEPT !.offset = 0, !.avail = Len(win')]

-----------------------------------------------------------------------------
(* The loop *)

DecodeStep == /\ Decode
              /\ restore' = IF evs' = evs THEN restore
                            ELSE Hears(restore, evs'[Len(evs) + 1])
              /\ UNCHANGED <<input, rest, input_eof, start_offset, cmds>>

Finish(ok) == /\ pc' = "done"
              /\ evs' = Append(evs, <<"d_finish", 0, <<ok>>>>)

(* A key is done: its blocks are freed, its command is written, the window *)
(* is moved on once half of it is behind, and the next key begins if there *)
(* is data.                                                                *)
KeyDone ==
  LET p == FreeAlloced(bptr)
  IN  /\ pc = "keydone"
      /\ heap' = <<>>
      /\ write_restore_cmd(p)
      /\ IF ~ input_eof /\ HalfBehind(p) THEN Refill(p)
         ELSE bptr' = p /\ UNCHANGED <<win, rest, input_eof, start_offset>>
      /\ IF bptr'.avail = 0 THEN Finish(TRUE) ELSE pc' = "hdr" /\ UNCHANGED evs
      /\ UNCHANGED <<dec, loop, rc, input>>

EndOfFile == /\ pc = "error" /\ rc = "eof"
             /\ Finish(TRUE)
             /\ UNCHANGED <<win, bptr, heap, dec, loop, rc>> /\ UNCHANGED main_vars

Error == /\ pc = "error" /\ rc # "eof"
         /\ Finish(FALSE)
         /\ UNCHANGED <<win, bptr, heap, dec, loop, rc>> /\ UNCHANGED main_vars

Exited == pc = "done" /\ UNCHANGED vars

Step == DecodeStep \/ KeyDone \/ EndOfFile \/ Error

Next == Step \/ Exited

(* The program is alone with its input: it runs on until it exits. *)
Spec == Init /\ [][Next]_vars /\ WF_vars(Step)
=============================================================================
