--------------------------------- MODULE Glob ---------------------------------
(***************************************************************************)
(* Which strings a glob matches: * any, ? one, [ab] one of these, [^ab]    *)
(* one of the others, and a character behind a backslash itself.  Globs    *)
(* are the user's: nothing here is taken from a matcher.                   *)
(***************************************************************************)
EXTENDS Integers, Sequences

(* The class that begins at g[i]: where it ends, and what is in it. *)
ClassEnd(g, i) == CHOOSE k \in i .. Len(g) : g[k] = "]" /\ \A m \in i .. k - 1 : g[m] # "]"
ClassHas(g, i, c) ==
  LET from == IF g[i + 1] = "^" THEN i + 2 ELSE i + 1
  IN  (\E k \in from .. ClassEnd(g, i) - 1 : g[k] = c) = (g[i + 1] # "^")

Matches(g, s) ==
  LET Rest[i \in 1 .. Len(g) + 1, j \in 1 .. Len(s) + 1] ==
        IF i > Len(g) THEN j > Len(s)
        ELSE IF g[i] = "*" THEN \E k \in j .. Len(s) + 1 : Rest[i + 1, k]
        ELSE /\ j <= Len(s)
             /\ CASE g[i] = "?"  -> Rest[i + 1, j + 1]
                  [] g[i] = "["  -> ClassHas(g, i, s[j]) /\ Rest[ClassEnd(g, i) + 1, j + 1]
                  [] g[i] = "\\" -> s[j] = g[i + 1] /\ Rest[i + 2, j + 1]
                  [] OTHER       -> s[j] = g[i] /\ Rest[i + 1, j + 1]
  IN  Rest[1, 1]
=============================================================================
