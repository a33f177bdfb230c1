---------------------------- MODULE RdbFlatStream ----------------------------
(***************************************************************************)
(* What RdbBufptr promises its callers: one flat stream of bytes.          *)
(*                                                                         *)
(* rdb.adoc describes a compressed string as a substitution in that        *)
(* stream: zlen bytes are taken out and the len bytes they expand to are   *)
(* put in their place.  A request is refused only when the stream really   *)
(* holds fewer bytes than were asked for.                                  *)
(***************************************************************************)
EXTENDS Integers

CONSTANTS Size,   \* bytes in the stream at the start
          MaxLen  \* longest single request

VARIABLES left,   \* bytes still to be handed out
          status  \* "ok", or the reason the reader stopped

vars == <<left, status>>

Init == left = Size /\ status = "ok"

Take(n) == /\ status = "ok"
           /\ n <= left
           /\ left' = left - n
           /\ UNCHANGED status

Splice(z, n) == /\ status = "ok"
                /\ z <= left
                /\ left' = left - z + n
                /\ UNCHANGED status

(* Too few bytes for the request. *)
Short(n) == /\ status = "ok"
            /\ n > left
            /\ status' = "trunc"
            /\ UNCHANGED left

(* A blob that is cut off or does not expand. *)
BadBlob == /\ status = "ok"
           /\ status' = "lzf"
           /\ left' \in {left - z : z \in 0 .. left}

Next == \/ \E n \in 0 .. MaxLen : Take(n) \/ Short(n)
        \/ \E z, n \in 1 .. MaxLen : Splice(z, n)
        \/ BadBlob

Spec == Init /\ [][Next]_vars
=============================================================================
