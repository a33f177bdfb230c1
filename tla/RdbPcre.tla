------------------------------- MODULE RdbPcre -------------------------------
(***************************************************************************)
(* The key filter: struct PcreFilter, and the translation of the glob that *)
(* -e gives into a regular expression, struct GlobCvt.  Characters are     *)
(* strings of one; "begin", "end" and "star" stand for the expressions \A, *)
(* \z and, behind a COMMIT verb, .*? that the translation writes whole.    *)
(***************************************************************************)
EXTENDS Integers, Sequences, SequencesExt

CONSTANT NAME_SIZE  \* room for a pattern that is only a name

ASSUME PcreAssumption == NAME_SIZE \in Nat

(* The one letter with two cases. *)
Lower(c) == IF c = "A" THEN "a" ELSE c
SameChar(c, d, ign_case) == c = d \/ (ign_case /\ Lower(c) = Lower(d))

-----------------------------------------------------------------------------
(* GlobCvt::convert_glob().  before is the character ahead of this one, as *)
(* pattern[ k - 1 ] has it.                                                *)

Written(s, chars) == [s EXCEPT !.out = @ \o chars]

Escaped(s, c) == [Written(s, IF c \in {"\\", "?", "*"} THEN <<"\\", c>> ELSE <<c>>)
                    EXCEPT !.escape = FALSE]
Bracketed(s, c) == [Written(s, <<c>>) EXCEPT !.inside_bracket = (c # "]")]
Star(s) == IF s.before = "*" THEN [s EXCEPT !.skip = TRUE] ELSE Written(s, <<"star">>)
Unbracketed(s, c) == CASE c = "*" -> Star(s)
                 [] c = "?" -> Written(s, <<".">>)
                 [] c = "." -> Written(s, <<"\\", ".">>)
                 [] OTHER   -> [Written(s, <<c>>) EXCEPT !.inside_bracket = (c = "[")]

(* Each operator named after another one, as in convert_char_NoEscape, is  *)
(* that operator with one mistake in it, to test the properties with.      *)
convert_char_NoEscape(s, c) == IF s.inside_bracket THEN Bracketed(s, c) ELSE Unbracketed(s, c)
convert_char(s, c) ==
  LET t == IF s.skip THEN [s EXCEPT !.skip = FALSE]
           ELSE IF s.escape THEN Escaped(s, c)
           ELSE IF c = "\\" THEN [s EXCEPT !.escape = TRUE]
           ELSE IF s.inside_bracket THEN Bracketed(s, c) ELSE Unbracketed(s, c)
  IN  [t EXCEPT !.before = c]

(* A star at the start or the end is the lack of an anchor there. *)
convert_glob(pattern) ==
  LET n == Len(pattern)
      k == IF pattern[1] = "*" THEN 1 ELSE 0
      open == /\ n > k /\ pattern[n] = "*"
              /\ n = 1 \/ pattern[n - 1] # "\\"
      new == [out |-> IF k = 0 THEN <<"begin">> ELSE <<>>, before |-> IF k = 0 THEN "" ELSE "*",
              inside_bracket |-> FALSE, escape |-> FALSE, skip |-> FALSE]
      body == FoldLeft(convert_char, new, SubSeq(pattern, k + 1, IF open THEN n - 1 ELSE n))
  IN  body.out \o (IF open THEN <<>> ELSE <<"end">>)

-----------------------------------------------------------------------------
(* PCRE, of which the code uses this: escapes, any character, classes, the *)
(* two anchors, and the lazy star, behind which nothing is tried again.    *)

One(set) == <<"one", set>>
NotOne(set) == <<"not", set>>

Unit(s, u) == [s EXCEPT !.units = Append(@, u), !.escape = FALSE, !.class = <<>>]
Class(chars) == IF chars[2] = "^" THEN NotOne(ToSet(SubSeq(chars, 3, Len(chars))))
                ELSE One(ToSet(Tail(chars)))

pcre2_char(s, c) ==
  IF s.escape THEN Unit(s, One({c}))
  ELSE IF s.class # <<>> THEN IF c = "]" THEN Unit(s, Class(s.class))
                              ELSE [s EXCEPT !.class = Append(@, c)]
  ELSE CASE c = "\\" -> [s EXCEPT !.escape = TRUE]
         [] c = "["  -> [s EXCEPT !.class = <<"[">>]
         [] c = "."  -> Unit(s, NotOne({}))
         [] c \in {"begin", "end", "star"} -> Unit(s, <<c>>)
         [] OTHER    -> Unit(s, One({c}))
pcre2_compile(chars) ==
  FoldLeft(pcre2_char, [units |-> <<>>, class |-> <<>>, escape |-> FALSE], chars).units

Takes(u, c, ign_case) == (\E d \in u[2] : SameChar(c, d, ign_case)) = (u[1] = "one")

pcre2_match(re, s, ign_case) ==
  LET n == Len(s)
      (* What units i on make of s from behind its first j characters. *)
      From[i \in 1 .. Len(re) + 1, j \in 0 .. n] ==
        IF i > Len(re) THEN "match"
        ELSE LET rest == {k \in j .. n : From[i + 1, k] # "none"}
             IN  CASE re[i][1] = "begin" -> IF j = 0 THEN From[i + 1, j] ELSE "none"
                   [] re[i][1] = "end"   -> IF j = n THEN From[i + 1, j] ELSE "none"
                   [] re[i][1] = "star"  -> IF rest = {} THEN "fail"
                                            ELSE From[i + 1, CHOOSE k \in rest : \A m \in rest : k <= m]
                   [] OTHER -> IF j < n /\ Takes(re[i], s[j + 1], ign_case)
                               THEN From[i + 1, j + 1] ELSE "none"
      starts == {j \in 0 .. n : From[1, j] # "none"}
  IN  starts # {} /\ From[1, CHOOSE j \in starts : \A m \in starts : j <= m] = "match"

-----------------------------------------------------------------------------
(* PcreFilter *)

IsGlob(expr) == \E i \in 1 .. Len(expr) : expr[i] \in {"*", "?", "[", "|"}

set_filter_expr(o) ==
  IF Len(o.expr) > NAME_SIZE \/ IsGlob(o.expr)
  THEN [name |-> <<>>, re |-> pcre2_compile(convert_glob(o.expr)),
        ign_case |-> o.ign_case, invert |-> o.invert]
  ELSE [name |-> o.expr, re |-> <<<<"null">>>>, ign_case |-> o.ign_case, invert |-> o.invert]

SameName(s, name, ign_case) ==
  Len(s) = Len(name) /\ \A i \in 1 .. Len(s) : SameChar(s[i], name[i], ign_case)

(* Only a string can match, and -v inverts.  Nothing matches an empty name.*)
match_key(f, key) ==
  (/\ key[1] = "str"
   /\ LET s == [i \in 1 .. Len(key[2]) |-> key[2][i][2]]
      IN  IF f.name # <<>> THEN SameName(s, f.name, f.ign_case)
          ELSE f.re # <<<<"null">>>> /\ pcre2_match(f.re, s, f.ign_case)) # f.invert
=============================================================================
