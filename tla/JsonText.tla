------------------------------- MODULE JsonText -------------------------------
(***************************************************************************)
(* What a JSON text is, as the reader of its tokens sees it: a token is    *)
(* one of { } [ ] : and comma, a string or a number.  Names are strings.   *)
(***************************************************************************)
EXTENDS Sequences, SequencesExt

Scalars == {"str", "num"}
Opening == {"{", "["}
Closes(open) == IF open = "{" THEN "}" ELSE "]"

(* The containers that are open and the last thing read in the innermost.  *)
Begin == [open |-> <<>>, last |-> "begin"]
Refused == [open |-> <<>>, last |-> "refused"]

In(s, kind) == s.open # <<>> /\ Last(s.open) = kind

ValueDue(s) == \/ s.last = "begin"
               \/ In(s, "{") /\ s.last = ":"
               \/ In(s, "[") /\ s.last \in {"[", ","}
NameDue(s)  == In(s, "{") /\ s.last \in {"{", ","}
CloseDue(s, c) == s.open # <<>> /\ c = Closes(Last(s.open)) /\ s.last \in Opening \cup {"value"}

Read(s, token) ==
  LET t == token[1]
  IN  CASE t \in Scalars /\ ValueDue(s) -> [s EXCEPT !.last = "value"]
        [] t = "str" /\ NameDue(s)      -> [s EXCEPT !.last = "name"]
        [] t \in Opening /\ ValueDue(s) -> [open |-> Append(s.open, t), last |-> t]
        [] t = ":" /\ s.last = "name"   -> [s EXCEPT !.last = ":"]
        [] t = "," /\ s.open # <<>> /\ s.last = "value" -> [s EXCEPT !.last = ","]
        [] CloseDue(s, t)               -> [open |-> Front(s.open), last |-> "value"]
        [] OTHER                        -> Refused

ReadAll(tokens) == FoldLeft(Read, Begin, tokens)

(* The beginning of a text, and a whole one. *)
IsBeginning(tokens) == ReadAll(tokens) # Refused
IsText(tokens) == ReadAll(tokens) = [open |-> <<>>, last |-> "value"]
=============================================================================
