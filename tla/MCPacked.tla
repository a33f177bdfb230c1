------------------------------- MODULE MCPacked -------------------------------
(***************************************************************************)
(* The elements for the runs of RdbPacked.                                 *)
(***************************************************************************)
EXTENDS RdbPacked

Str(n) == <<"str", n>>
Num(w) == <<"int", w>>

(* 0 and -1 with the last bytes given. *)
Pos(b) == [i \in 1 .. 8 |-> IF i > 8 - Len(b) THEN b[i - 8 + Len(b)] ELSE 0]
Neg(b) == [i \in 1 .. 8 |-> IF i > 8 - Len(b) THEN b[i - 8 + Len(b)] ELSE 255]

(* Strings at both sides of every change of code: of the header of a       *)
(* string, and of the link, which counts the header, too.                  *)
ZipStrings  == {Str(n) : n \in {0, 63, 64, 250, 251, 16383, 16384}}
PackStrings == {Str(n) : n \in {0, 63, 64, 125, 126, 4095}}
LongStrings == {Str(n) : n \in {4096, 16378, 16379}}

(* The least and the greatest integers of every code, and one in it whose  *)
(* bytes are all different.                                                *)
Small  == {Num(Pos(<<0>>)), Num(Pos(<<127>>))}
Int8s  == {Num(Pos(<<12>>)), Num(Pos(<<13>>)), Num(Neg(<<128>>))}
Int13s == {Num(Pos(<<128>>)), Num(Pos(<<15, 255>>))}
Int16s == {Num(Pos(<<16, 0>>)), Num(Neg(<<239, 255>>)), Num(Neg(<<128, 1>>))}
Int24s == {Num(Pos(<<128, 0>>)), Num(Pos(<<1, 2, 3>>)), Num(Neg(<<128, 1, 2>>))}
Int32s == {Num(Pos(<<128, 0, 0>>)), Num(Neg(<<128, 1, 2, 3>>))}
Int64s == {Num(Pos(<<128, 1, 2, 3>>)), Num(<<128, 1, 2, 3, 4, 5, 6, 7>>)}

MCElements ==
  [k \in Kinds |-> [w \in Writers |->
     CASE k = "zip" /\ w = "repo"   -> ZipStrings
       [] k = "zip" /\ w = "redis"  -> Small \cup Int8s \cup Int16s \cup Int24s \cup
                                       Int32s \cup Int64s \cup {Str(64), Str(251)}
       [] k = "pack" /\ w = "repo"  -> Small \cup Int13s \cup Int16s \cup Int32s \cup
                                       Int64s \cup PackStrings
       [] k = "pack" /\ w = "redis" -> Int13s \cup Int24s \cup LongStrings]]

(* Bytes around the bounds of the codes. *)
MCDamages == {0, 63, 64, 127, 128, 192, 223, 224, 240, 241, 245, 253, 254, 255}

(* -1, which Redis writes as 0xdfff. *)
MCSigned13 == [k \in Kinds |-> [w \in Writers |->
                 IF k = "pack" /\ w = "redis" THEN {Num(Neg(<<255>>))}
                 ELSE {}]]
=============================================================================
