--------------------------- MODULE RdbProgressProofs ---------------------------
(***************************************************************************)
(* For every set of well-formed inputs and every size of the window: no    *)
(* step of the program is taken in vain, the elements that are reported    *)
(* are numbered one by one, and the commands of -r are cut out of the      *)
(* input.                                                                  *)
(***************************************************************************)
EXTENDS RdbMainProofs

-----------------------------------------------------------------------------
(* How far from the end of the data a cursor is. *)

Nearer(q, p) == \/ MainLeft(q) < MainLeft(p)
                \/ MainLeft(q) = MainLeft(p) /\ BlockLeft(q) < BlockLeft(p)
Level(q, p) == MainLeft(q) = MainLeft(p) /\ BlockLeft(q) = BlockLeft(p)

(* A read in good order, wherever the main buffer ends. *)
Good(r) == \E e \in 0 .. Len(win) : Core(r, e, 0)

(* The read s goes on from r, and if it is not refused, past it. *)
On(r, s) == /\ Good(s)
            /\ Nearer(s.p, r.p) \/ Level(s.p, r.p)
            /\ s.rc = "ok" => r.rc = "ok"
Past(r, s) == On(r, s) /\ (s.rc = "ok" => Nearer(s.p, r.p))

(* What is left is counted in cells. *)
LEMMA Lefts ==
  ASSUME NEW p \in Bufptr
  PROVE  MainLeft(p) \in Nat /\ BlockLeft(p) \in Nat
  BY DEF Bufptr, MainLeft, BlockLeft

LEMMA GoodIs ==
  ASSUME NEW r, Good(r), WellFormed(win)
  PROVE  /\ r.p \in Bufptr /\ r.p.buf # Null
         /\ MainLeft(r.p) \in Nat /\ BlockLeft(r.p) \in Nat
         /\ \E e \in 0 .. Len(win) : /\ e \in Nat /\ Core(r, e, 0)
                                     /\ GoodCursor(r.p, r.heap, e)
                                     /\ r.p.avail \in Nat
                                     /\ Ready(r, e, r.p.avail, 0)
  <1>1. PICK e \in 0 .. Len(win) : Core(r, e, 0)
    BY DEF Good
  <1>2. e \in Nat /\ GoodCursor(r.p, r.heap, e) /\ r.p \in Bufptr /\ r.p.buf # Null
    BY <1>1 DEF WellFormed, Cells, Core, GoodCursor
  <1>3. r.p.avail \in Nat
    BY <1>2 DEF Bufptr
  <1>4. Ready(r, e, r.p.avail, 0)
    BY <1>1, <1>3 DEF Ready, Within
  <1> QED  BY <1>1, <1>2, <1>3, <1>4, Lefts

(* A read that was taken no further. *)
LEMMA OnSame ==
  ASSUME NEW r, Good(r), NEW s, Good(s), s.p = r.p, s.rc = "ok" => r.rc = "ok"
  PROVE  On(r, s)
  BY DEF On, Level

LEMMA OnTrans ==
  ASSUME NEW r, NEW s, NEW t, Good(r), On(r, s), On(s, t), WellFormed(win)
  PROVE  /\ On(r, t)
         /\ Past(r, s) \/ Past(s, t) => Past(r, t)
  <1>1. /\ MainLeft(r.p) \in Nat /\ BlockLeft(r.p) \in Nat
        /\ MainLeft(s.p) \in Nat /\ BlockLeft(s.p) \in Nat
        /\ MainLeft(t.p) \in Nat /\ BlockLeft(t.p) \in Nat
    BY GoodIs DEF On
  <1>2. Nearer(t.p, r.p) \/ Level(t.p, r.p)
    BY <1>1 DEF On, Nearer, Level
  <1>3. Nearer(s.p, r.p) \/ Nearer(t.p, s.p) => Nearer(t.p, r.p)
    BY <1>1 DEF On, Nearer, Level
  <1> QED  BY <1>2, <1>3 DEF On, Past

-----------------------------------------------------------------------------
(* The steps that reads are made of. *)

LEMMA FailedOn ==
  ASSUME NEW r, Good(r), NEW c \in Codes \ {"ok"}
  PROVE  Past(r, Failed(r, c))
  <1>1. PICK e \in 0 .. Len(win) : Core(r, e, 0)
    BY DEF Good
  <1>2. Core(Failed(r, c), e, 0) /\ Failed(r, c).p = r.p /\ Failed(r, c).rc = c
    BY <1>1, FailedKeeps
  <1> QED  BY <1>2, OnSame DEF Good, Past

LEMMA ValueOn ==
  ASSUME NEW r, Good(r), NEW v
  PROVE  On(r, Value(r, v))
  <1>1. PICK e \in 0 .. Len(win) : Core(r, e, 0)
    BY DEF Good
  <1>2. Core(Value(r, v), e, 0) /\ Value(r, v).p = r.p /\ Value(r, v).rc = r.rc
    BY <1>1, ValueKeeps
  <1> QED  BY <1>2, OnSame DEF Good

LEMMA SkipOn ==
  ASSUME NEW r, Good(r), WellFormed(win), NEW k \in Nat, CanIncr(r.p, k)
  PROVE  /\ On(r, Skip(r, k))
         /\ k # 0 => Past(r, Skip(r, k))
  <1> DEFINE s == Skip(r, k)
  <1>1. PICK e \in 0 .. Len(win) : e \in Nat /\ Core(r, e, 0)
    BY GoodIs
  <1>2. r.p \in Bufptr
    BY GoodIs
  <1>3. Core(s, e, 0) /\ s.p.buf = r.p.buf /\ s.p.avail = r.p.avail - k /\ s.rc = r.rc
    BY <1>1, SkipKeeps
  <1>4. s.p.sav_avail = r.p.sav_avail
    <2>1. s.p = Incr(r.p, k)
      BY <1>1 DEF Skip, Core
    <2> HIDE DEF s
    <2> QED  BY <1>2, <2>1 DEF Incr, Bufptr
  <1>5. Good(s)
    BY <1>3 DEF Good
  <1> HIDE DEF s
  <1>6. r.p.avail \in Nat /\ r.p.sav_avail \in Nat
    BY <1>2 DEF Bufptr
  <1>7. Nearer(s.p, r.p) \/ (k = 0 /\ Level(s.p, r.p))
    BY <1>3, <1>4, <1>6 DEF Nearer, Level, MainLeft, BlockLeft
  <1> QED  BY <1>3, <1>5, <1>7 DEF On, Past, s

LEMMA LookLevel ==
  ASSUME NEW p, NEW h, NEW e \in Nat, GoodCursor(p, h, e), p.buf # Null
  PROVE  Level(Look(p), p)
  <1>1. CASE p.avail = 0 /\ p.sav_avail > 0
    <2>1. p.sav = Main /\ p.buf # Main
      BY <1>1 DEF GoodCursor, Null, Main
    <2>2. Look(p) = Popped(p)
      BY <1>1 DEF Look
    <2>3. Popped(p).buf = Main /\ Popped(p).avail = p.sav_avail
      BY <2>1 DEF Popped
    <2> QED  BY <1>1, <2>1, <2>2, <2>3 DEF Level, MainLeft, BlockLeft
  <1>2. CASE ~ (p.avail = 0 /\ p.sav_avail > 0)
    BY <1>2 DEF Look, Level
  <1> QED  BY <1>1, <1>2

(* A header is read past. *)
LEMMA HeaderPast ==
  ASSUME NEW r, Good(r), WellFormed(win), r.rc = "ok"
  PROVE  Past(r, Header(r))
  <1> DEFINE s == Header(r)
             c == Here(r)
  <1>1. PICK e \in 0 .. Len(win) : /\ r.p.avail \in Nat /\ Core(r, e, 0)
                                   /\ Ready(r, e, r.p.avail, 0)
    BY GoodIs
  <1>2. Core(s, e, 0)
    BY <1>1, HeaderKeeps DEF Ready
  <1>3. Good(s)
    BY <1>2 DEF Good
  <1>4. CASE CanIncr(r.p, 1) /\ c[1] \in {"len", "int", "lzf"}
    <2> DEFINE k == Skip(r, 1)
    <2>1. s = [k EXCEPT !.len = c]
      BY <1>4 DEF Header
    <2>2. Past(r, k)
      BY <1>4, SkipOn
    <2>3. k.rc = "ok" /\ DOMAIN k = DOMAIN r
      BY <1>1 DEF Skip, Core
    <2>4. "p" \in DOMAIN k /\ "rc" \in DOMAIN k
      BY <1>1, <2>3 DEF Core
    <2> HIDE DEF k, c
    <2>5. s.p = k.p /\ s.rc = k.rc
      BY <2>1, <2>4
    <2> HIDE DEF s
    <2> QED  BY <1>3, <2>2, <2>3, <2>5 DEF Past, On, s
  <1>5. CASE ~ (CanIncr(r.p, 1) /\ c[1] \in {"len", "int", "lzf"})
    <2>1. s = Failed(r, "trunc") \/ s = Failed(r, "hdr")
      BY <1>5 DEF Header
    <2> QED  BY <2>1, FailedOn DEF Codes
  <1> QED  BY <1>4, <1>5

LEMMA LengthPast ==
  ASSUME NEW r, Good(r), WellFormed(win)
  PROVE  /\ Past(r, Length(r))
         /\ Length(r).rc = "ok" => HeaderRead(Length(r))
  <1>1. PICK e \in 0 .. Len(win) : /\ e \in Nat /\ Core(r, e, 0)
                                   /\ r.p.avail \in Nat /\ Ready(r, e, r.p.avail, 0)
                                   /\ GoodCursor(r.p, r.heap, e)
    BY GoodIs
  <1>2. Length(r).rc = "ok" => HeaderRead(Length(r))
    BY <1>1, LengthKeeps
  <1>3. CASE r.rc = "ok"
    <2> DEFINE a == AfterLook(r)
    <2>1. /\ DOMAIN a = DOMAIN r /\ a.p = Look(r.p) /\ a.heap = r.heap /\ a.rc = r.rc
      BY <1>1 DEF AfterLook, Core
    <2> HIDE DEF a
    <2>2. r.p.buf # Null
      BY <1>1 DEF Core
    <2>3. GoodCursor(a.p, a.heap, e) /\ a.p.buf # Null
      BY <1>1, <2>1, <2>2, LookGood
    <2>4. Core(a, e, 0)
      BY <1>1, <2>1, <2>3 DEF Core
    <2>5. Level(a.p, r.p)
      BY <1>1, <2>1, <2>2, LookLevel
    <2>6. Good(a) /\ On(r, a)
      BY <2>1, <2>4, <2>5 DEF Good, On
    <2>7. Length(r) = Header(a)
      BY <1>3, <2>1, LengthIs, LookedIs DEF a
    <2>8. Past(a, Header(a))
      BY <1>3, <2>1, <2>6, HeaderPast
    <2>9. On(a, Header(a))
      BY <2>8 DEF Past
    <2>10. Past(r, Header(a))
      BY <2>6, <2>8, <2>9, OnTrans
    <2> QED  BY <1>2, <2>7, <2>10
  <1>4. CASE r.rc # "ok"
    <2>1. Length(r) = r
      BY <1>4, LengthIs
    <2> QED  BY <1>2, <1>4, <2>1, OnSame DEF Past
  <1> QED  BY <1>3, <1>4

(* A compressed string is taken out of the input, whatever it expands to. *)
LEMMA ExpandOn ==
  ASSUME NEW r, Good(r), WellFormed(win), r.rc = "ok", HeaderRead(r)
  PROVE  On(r, Expand(r)) /\ Expand(r).len = r.len
  <1> DEFINE s == Expand(r)
  <1>1. PICK e \in 0 .. Len(win) : /\ e \in Nat /\ Core(r, e, 0)
                                   /\ r.p.avail \in Nat /\ Ready(r, e, r.p.avail, 0)
                                   /\ GoodCursor(r.p, r.heap, e)
    BY GoodIs
  <1>2. Core(s, e, 0) /\ s.len = r.len
    BY <1>1, ExpandKeeps
  <1>3. Good(s)
    BY <1>2 DEF Good
  <1>4. CASE r.len[1] # "lzf"
    <2>1. s = r
      BY <1>4 DEF Expand
    <2> QED  BY <1>2, <2>1, OnSame
  <1>5. CASE r.len[1] = "lzf" /\ CanIncr(r.p, r.len[2]) /\ Here(r)[1] = "zip"
    <2> DEFINE z == r.len[2]
               n == r.len[3]
    <2>1. z \in Nat /\ z # 0 /\ r.p.buf = Main
      BY <1>5 DEF HeaderRead
    <2>2. s.p = Decompress(r.p, z, n)
      BY <1>1, <1>5 DEF Expand, Core
    <2> HIDE DEF z, n
    <2>3. r.p.avail \in Nat /\ r.p.sav_avail = 0 /\ z <= r.p.avail
      <3>1. z <= r.p.avail
        BY <1>5 DEF CanIncr, z
      <3>2. r.p.sav_avail \in Nat /\ ~ r.p.sav_avail > 0
        BY <1>1, <2>1 DEF GoodCursor, Bufptr, Null, Main
      <3> QED  BY <1>1, <3>1, <3>2
    <2>4. r.p \in Bufptr
      BY <1>1 DEF GoodCursor
    <2> DEFINE i == Incr(r.p, z)
    <2>5. /\ i.avail = r.p.avail - z /\ i.sav_avail = 0 /\ i.alloced \in Nat
          /\ DOMAIN i = DOMAIN r.p
      BY <2>3, <2>4 DEF Incr, Bufptr
    <2>6. DOMAIN i = {"buf", "avail", "offset", "sav", "sav_avail", "sav_offset", "alloced"}
      BY <2>4, <2>5 DEF Bufptr
    <2> HIDE DEF i
    <2>7. Parked(i).sav_avail = r.p.avail - z /\ Parked(i).alloced = i.alloced
      BY <2>1, <2>3, <2>5, <2>6 DEF Parked
    <2>8. s.p.buf = i.alloced + 1 /\ s.p.sav_avail = r.p.avail - z
      BY <2>2, <2>7 DEF Decompress, i
    <2>9. s.p.buf # Main
      BY <2>5, <2>8 DEF Main
    <2>10. Nearer(s.p, r.p)
      BY <2>1, <2>3, <2>8, <2>9 DEF Nearer, MainLeft
    <2> QED  BY <1>2, <1>3, <2>10 DEF On
  <1>6. CASE r.len[1] = "lzf" /\ ~ CanIncr(r.p, r.len[2])
    <2>1. s = Failed(r, "lzf")
      BY <1>6 DEF Expand
    <2> QED  BY <1>2, <2>1, FailedOn DEF Codes, Past
  <1>7. CASE r.len[1] = "lzf" /\ CanIncr(r.p, r.len[2]) /\ Here(r)[1] # "zip"
    <2> DEFINE z == r.len[2]
               q == Skip(r, z)
    <2>1. z \in Nat /\ CanIncr(r.p, z)
      BY <1>7 DEF HeaderRead
    <2>2. s = Failed(q, "lzf")
      BY <1>7 DEF Expand
    <2> HIDE DEF z, s
    <2>3. On(r, q)
      BY <2>1, SkipOn
    <2> HIDE DEF q
    <2>4. Good(q) /\ On(q, s)
      BY <2>2, <2>3, FailedOn DEF On, Codes, Past
    <2>5. On(r, s)
      BY <2>3, <2>4, OnTrans
    <2> QED  BY <1>2, <2>5 DEF s
  <1> QED  BY <1>4, <1>5, <1>6, <1>7

LEMMA TakeOn ==
  ASSUME NEW r, Good(r), WellFormed(win), NEW k \in Nat
  PROVE  On(r, Take(r, k))
  <1>1. CASE CanIncr(r.p, k)
    <2> DEFINE v == Value(r, <<"str", Ahead(r, k)>>)
    <2>1. Take(r, k) = Skip(v, k)
      BY <1>1 DEF Take
    <2>2. On(r, v) /\ v.p = r.p
      <3>1. PICK e \in 0 .. Len(win) : Core(r, e, 0)
        BY DEF Good
      <3> QED  BY <3>1, ValueOn, ValueKeeps
    <2> HIDE DEF v
    <2>3. Good(v) /\ CanIncr(v.p, k)
      BY <1>1, <2>2 DEF On
    <2>4. On(v, Skip(v, k))
      BY <2>3, SkipOn
    <2> QED  BY <2>1, <2>2, <2>4, OnTrans
  <1>2. CASE ~ CanIncr(r.p, k)
    <2>1. Take(r, k) = Failed(r, "trunc")
      BY <1>2 DEF Take
    <2> QED  BY <2>1, FailedOn DEF Codes, Past
  <1> QED  BY <1>1, <1>2

LEMMA FixedPast ==
  ASSUME NEW r, Good(r), WellFormed(win), r.rc = "ok"
  PROVE  Past(r, Fixed(r))
  <1>1. CASE CanIncr(r.p, 1)
    <2> DEFINE v == Value(r, Here(r))
    <2>1. Fixed(r) = Skip(v, 1)
      BY <1>1 DEF Fixed
    <2>2. On(r, v) /\ v.p = r.p
      <3>1. PICK e \in 0 .. Len(win) : Core(r, e, 0)
        BY DEF Good
      <3> QED  BY <3>1, ValueOn, ValueKeeps
    <2> HIDE DEF v
    <2>3. Good(v) /\ CanIncr(v.p, 1)
      BY <1>1, <2>2 DEF On
    <2>4. Past(v, Skip(v, 1)) /\ On(v, Skip(v, 1))
      BY <2>3, SkipOn
    <2> QED  BY <2>1, <2>2, <2>4, OnTrans
  <1>2. CASE ~ CanIncr(r.p, 1)
    <2>1. Fixed(r) = Failed(r, "trunc")
      BY <1>2 DEF Fixed
    <2> QED  BY <2>1, FailedOn DEF Codes
  <1> QED  BY <1>1, <1>2

LEMMA FieldPast ==
  ASSUME NEW r, Good(r), WellFormed(win)
  PROVE  Past(r, Field(r))
  <1>1. CASE r.rc = "ok"
    BY <1>1, FieldIs, FixedPast
  <1>2. CASE r.rc # "ok"
    BY <1>2, FieldIs, OnSame DEF Past
  <1> QED  BY <1>1, <1>2

-----------------------------------------------------------------------------
(* Strings and numbers. *)

LEMMA DataOn ==
  ASSUME NEW r, Good(r), WellFormed(win), LenOf(r.len) \in Nat
  PROVE  On(r, Data(r))
  BY TakeOn DEF Data

LEMMA decode_strOn ==
  ASSUME NEW r, Good(r), WellFormed(win), r.rc = "ok" => LenOf(r.len) \in Nat
  PROVE  On(r, decode_str(r))
  <1>1. CASE r.rc # "ok"
    BY <1>1, decode_strIs, OnSame
  <1>2. CASE r.rc = "ok" /\ IsInt(r)
    BY <1>2, decode_strIs, ValueOn DEF Integer
  <1>3. CASE r.rc = "ok" /\ ~ IsInt(r)
    BY <1>3, decode_strIs, DataOn
  <1> QED  BY <1>1, <1>2, <1>3

(* The string behind a header. *)
LEMMA consumeOn ==
  ASSUME NEW r, Good(r), WellFormed(win), r.rc = "ok" => HeaderRead(r)
  PROVE  On(r, consume(r))
  <1>1. CASE r.rc # "ok"
    BY <1>1, consumeIs, OnSame
  <1>2. CASE r.rc = "ok" /\ IsInt(r)
    <2>1. consume(r) = Failed(r, "hdr")
      BY <1>2, consumeIs
    <2> QED  BY <2>1, FailedOn DEF Codes, Past
  <1>3. CASE r.rc = "ok" /\ ~ IsInt(r)
    <2> DEFINE x == Expand(r)
    <2>1. consume(r) = IF x.rc = "ok" THEN Data(x) ELSE x
      BY <1>3, consumeIs
    <2>2. On(r, x) /\ x.len = r.len
      BY <1>3, ExpandOn
    <2> HIDE DEF x
    <2>3. Good(x) /\ LenOf(x.len) \in Nat
      BY <1>3, <2>2 DEF On, HeaderRead, IsSize
    <2>4. On(x, Data(x))
      BY <2>3, DataOn
    <2>5. On(r, Data(x))
      BY <2>2, <2>4, OnTrans
    <2> QED  BY <2>1, <2>2, <2>5
  <1> QED  BY <1>1, <1>2, <1>3

LEMMA TextOn ==
  ASSUME NEW r, Good(r), WellFormed(win), r.rc = "ok" => HeaderRead(r)
  PROVE  On(r, Text(r))
  <1>1. CASE r.rc = "ok" /\ IsInt(r)
    BY <1>1, TextIs, ValueOn DEF Integer
  <1>2. CASE r.rc = "ok" /\ ~ IsInt(r)
    BY <1>2, TextIs, consumeOn
  <1>3. CASE r.rc # "ok"
    BY <1>3, TextIs, OnSame
  <1> QED  BY <1>1, <1>2, <1>3

(* A header, and what is read behind it. *)
LEMMA PastLength ==
  ASSUME NEW r, Good(r), WellFormed(win), NEW t, On(Length(r), t)
  PROVE  Past(r, t)
  <1>1. Past(r, Length(r)) /\ On(r, Length(r))
    BY LengthPast DEF Past
  <1> QED  BY <1>1, OnTrans

LEMMA NamePast ==
  ASSUME NEW r, Good(r), WellFormed(win)
  PROVE  Past(r, Name(r))
  <1>1. Good(Length(r)) /\ (Length(r).rc = "ok" => HeaderRead(Length(r)))
    BY LengthPast DEF Past, On
  <1>2. On(Length(r), consume(Length(r)))
    BY <1>1, consumeOn
  <1> QED  BY <1>2, PastLength DEF Name

LEMMA TextPast ==
  ASSUME NEW r, Good(r), WellFormed(win)
  PROVE  Past(r, Text(Length(r)))
  <1>1. Good(Length(r)) /\ (Length(r).rc = "ok" => HeaderRead(Length(r)))
    BY LengthPast DEF Past, On
  <1>2. On(Length(r), Text(Length(r)))
    BY <1>1, TextOn
  <1> QED  BY <1>2, PastLength

LEMMA SizePast ==
  ASSUME NEW r, Good(r), WellFormed(win)
  PROVE  LET s == Unzip(Length(r))
         IN  Past(r, s) /\ (s.rc = "ok" => LenOf(s.len) \in Nat)
  <1> DEFINE q == Length(r)
             s == Unzip(q)
  <1>1. Good(q) /\ (q.rc = "ok" => HeaderRead(q))
    BY LengthPast DEF Past, On
  <1>2. s = IF q.rc = "ok" THEN Expand(q) ELSE q
    BY UnzipIs
  <1>3. On(q, s) /\ (s.rc = "ok" => LenOf(s.len) \in Nat)
    <2> HIDE DEF q, s
    <2>1. CASE q.rc = "ok"
      <3>1. On(q, s) /\ s.len = q.len
        BY <1>1, <1>2, <2>1, ExpandOn
      <3> QED  BY <1>1, <2>1, <3>1 DEF HeaderRead, IsSize
    <2>2. CASE q.rc # "ok"
      BY <1>1, <1>2, <2>2, OnSame
    <2> QED  BY <2>1, <2>2
  <1> QED  BY <1>3, PastLength

LEMMA decode_rlenPast ==
  ASSUME NEW r, Good(r), WellFormed(win)
  PROVE  Past(r, decode_rlen(r))
  <1> DEFINE s == Unzip(Length(r))
  <1>1. Past(r, s) /\ (s.rc = "ok" => LenOf(s.len) \in Nat)
    BY SizePast
  <1>2. decode_rlen(r) = decode_str(s)
    BY DEF decode_rlen
  <1> HIDE DEF s
  <1>3. On(r, s) /\ Good(s)
    BY <1>1 DEF Past, On
  <1>4. On(s, decode_str(s))
    BY <1>1, <1>3, decode_strOn
  <1> QED  BY <1>1, <1>2, <1>3, <1>4, OnTrans

LEMMA NumberPast ==
  ASSUME NEW r, Good(r), WellFormed(win)
  PROVE  Past(r, Number(r))
  <1> DEFINE q == Length(r)
  <1>1. Good(q)
    BY LengthPast DEF Past, On
  <1>2. \/ Number(r) = q \/ Number(r) = Value(q, q.len[2])
        \/ Number(r) = Failed(q, "hdr")
    BY NumberIs
  <1>3. On(q, q)
    BY <1>1, OnSame
  <1>4. On(q, Value(q, q.len[2]))
    BY <1>1, ValueOn
  <1>5. On(q, Failed(q, "hdr"))
    BY <1>1, FailedOn DEF Codes, Past
  <1>6. On(q, Number(r))
    BY <1>2, <1>3, <1>4, <1>5
  <1> QED  BY <1>6, PastLength

LEMMA CountPast ==
  ASSUME NEW r, Good(r), WellFormed(win)
  PROVE  Past(r, Count(r))
  <1> DEFINE q == Length(r)
  <1>1. Good(q)
    BY LengthPast DEF Past, On
  <1>2. Count(r) = q \/ Count(r) = Value(q, LenOf(q.len))
    BY CountIs
  <1>3. On(q, q)
    BY <1>1, OnSame
  <1>4. On(q, Value(q, LenOf(q.len)))
    BY <1>1, ValueOn
  <1>5. On(q, Count(r))
    BY <1>2, <1>3, <1>4
  <1> QED  BY <1>5, PastLength

LEMMA DigitsOn ==
  ASSUME NEW r, Good(r), WellFormed(win), r.rc = "ok"
  PROVE  On(r, Digits(r))
  <1> DEFINE c == Here(r)
             q == Fixed(r)
             k == Skip(r, 1)
  <1>1. PICK e \in 0 .. Len(win) : /\ r.p.avail \in Nat
                                   /\ Ready(r, e, r.p.avail, 0)
    BY GoodIs
  <1>2. q.rc = "ok" => r.p.avail # 0 /\ CellOK(c)
    BY <1>1, FixedKeeps
  <1>3. CASE q.rc = "ok" /\ c[1] = "len"
    <2> DEFINE l == c[2]
    <2>1. Digits(r) = Take(k, l)
      BY <1>3 DEF Digits
    <2>2. l \in Nat
      BY <1>2, <1>3 DEF CellOK
    <2>3. CanIncr(r.p, 1)
      BY <1>1, <1>2, <1>3 DEF CanIncr
    <2>4. On(r, k)
      BY <2>3, SkipOn
    <2> HIDE DEF k, l
    <2>5. On(k, Take(k, l))
      BY <2>2, <2>4, TakeOn DEF On
    <2> QED  BY <2>1, <2>4, <2>5, OnTrans
  <1>4. CASE ~ (q.rc = "ok" /\ c[1] = "len")
    <2>1. Digits(r) = q
      BY <1>4 DEF Digits
    <2> QED  BY <2>1, FixedPast DEF Past
  <1> QED  BY <1>3, <1>4

LEMMA ScoreOn ==
  ASSUME NEW r, Good(r), WellFormed(win)
  PROVE  On(r, Score(r))
  <1>1. CASE r.rc = "ok" /\ dec.type = "zset_2"
    BY <1>1, ScoreIs, FixedPast DEF Past
  <1>2. CASE r.rc = "ok" /\ dec.type # "zset_2"
    BY <1>2, ScoreIs, DigitsOn
  <1>3. CASE r.rc # "ok"
    BY <1>3, ScoreIs, OnSame
  <1> QED  BY <1>1, <1>2, <1>3

(* The lead of an intset and its integers. *)
LEMMA IntsOn ==
  ASSUME NEW r, Good(r), WellFormed(win), r.rc = "ok", r.vals = <<>>
  PROVE  On(r, Ints(Field(r)))
  <1> DEFINE q == Field(r)
             c == Here(r)
  <1>1. PICK e \in 0 .. Len(win) : /\ r.p.avail \in Nat
                                   /\ Ready(r, e, r.p.avail, 0)
    BY GoodIs
  <1>2. q = Fixed(r)
    BY FieldIs
  <1>3. q.rc = "ok" => CellOK(c) /\ q.vals = Append(r.vals, c)
    BY <1>1, <1>2, FixedKeeps
  <1>4. On(r, q) /\ Good(q)
    BY FieldPast DEF Past, On
  <1> HIDE DEF q, c
  <1>5. CASE q.rc = "ok" /\ q.vals[1][1] = "ints"
    <2>1. q.vals[1] = c
      BY <1>3, <1>5
    <2>2. q.vals[1][2] \in Nat
      BY <1>3, <1>5, <2>1 DEF CellOK
    <2>3. Ints(q) = Take(q, q.vals[1][2])
      BY <1>5, IntsIs
    <2>4. On(q, Take(q, q.vals[1][2]))
      BY <1>4, <2>2, TakeOn
    <2> QED  BY <1>4, <2>3, <2>4, OnTrans DEF q
  <1>6. CASE ~ (q.rc = "ok" /\ q.vals[1][1] = "ints")
    <2>1. Ints(q) = q \/ Ints(q) = Failed(q, "notsup")
      BY <1>6, IntsIs
    <2>2. On(q, q) /\ On(q, Failed(q, "notsup"))
      BY <1>4, OnSame, FailedOn DEF Codes, Past
    <2>3. On(q, Ints(q))
      BY <2>1, <2>2
    <2> QED  BY <1>4, <2>3, OnTrans DEF q
  <1> QED  BY <1>5, <1>6

(* Reads in a row: one that goes past leaves the others nothing to do but  *)
(* to go on.                                                               *)
LEMMA PastThen ==
  ASSUME NEW r, NEW s, NEW t, Good(r), WellFormed(win), Past(r, s), On(s, t)
  PROVE  Past(r, t)
  BY OnTrans DEF Past

LEMMA PastOn ==
  ASSUME NEW r, NEW s, Past(r, s)
  PROVE  On(r, s) /\ Good(s)
  BY DEF Past, On

(* The same for a read that takes its turn whatever was read before it. *)
LEMMA PastNext ==
  ASSUME NEW r, Good(r), WellFormed(win), NEW s, Past(r, s)
  PROVE  /\ Past(r, Count(s)) /\ Past(r, Field(s)) /\ Past(r, Name(s))
         /\ Past(r, decode_rlen(s)) /\ Past(r, Score(s)) /\ Past(r, Number(s))
         /\ Past(r, Text(Length(s))) /\ Past(r, Unzip(Length(s)))
  <1>1. Good(s) /\ On(r, s)
    BY PastOn
  <1>2. /\ On(s, Count(s)) /\ On(s, Field(s)) /\ On(s, Name(s))
        /\ On(s, decode_rlen(s)) /\ On(s, Score(s)) /\ On(s, Number(s))
        /\ On(s, Text(Length(s))) /\ On(s, Unzip(Length(s)))
    BY <1>1, CountPast, FieldPast, NamePast, decode_rlenPast, ScoreOn, NumberPast,
       TextPast, SizePast DEF Past
  <1> QED  BY <1>1, <1>2, PastThen

-----------------------------------------------------------------------------
(* The entries that a stream's listpack still has. *)

EntryFields == {"list", "items", "id", "diff", "flags", "master", "master_count",
                "fields", "values", "count", "tmp", "blocks", "ok"}
EntryOK(x) == DOMAIN x = EntryFields /\ x.items \in Nat

(* The string that is taken. *)
LEMMA TakeCell ==
  ASSUME NEW r, Good(r), WellFormed(win), NEW k \in Nat, Take(r, k).rc = "ok"
  PROVE  \E x : /\ Take(r, k).vals = Append(r.vals, <<"str", x>>)
                /\ Len(x) \in Nat
                /\ Len(x) # 0 => CellOK(x[1])
  <1>1. PICK e \in 0 .. Len(win) : /\ e \in Nat /\ Core(r, e, 0) /\ r.p \in Bufptr
    BY GoodIs
  <1> DEFINE x == Ahead(r, k)
             v == Value(r, <<"str", x>>)
  <1>2. CanIncr(r.p, k)
    BY FailedKeeps, <1>1 DEF Take, Codes
  <1>3. Take(r, k) = Skip(v, k)
    BY <1>2 DEF Take
  <1>4. Core(v, e, 0) /\ v.p = r.p /\ v.vals = Append(r.vals, <<"str", x>>)
    BY <1>1, ValueKeeps
  <1>5. Skip(v, k).vals = v.vals
    <2> HIDE DEF v
    <2> QED  BY <1>1, <1>2, <1>4, SkipKeeps
  <1>6. Len(x) = k /\ (k # 0 => x[1] = Here(r))
    <2> DEFINE o == r.p.offset
               w == Bytes(r)
               S == {w[i] : i \in o + 1 .. o + k}
    <2>1. o \in Nat
      BY <1>1 DEF Bufptr
    <2>2. x = SubSeq(w, o + 1, o + k) /\ Here(r) = w[o + 1]
      BY DEF Ahead, Here
    <2> HIDE DEF o, w, x
    <2>3. /\ o + 1 \in Int /\ o + k \in Int
          /\ \A i \in o + 1 .. o + k : w[i] \in S
          /\ (IF o + 1 <= o + k THEN (o + k) - (o + 1) + 1 ELSE 0) = k
          /\ k # 0 => 1 \in 1 .. k /\ (o + 1) + 1 - 1 = o + 1
      BY <2>1
    <2> HIDE DEF S
    <2>4. Len(x) = k /\ \A i \in 1 .. k : x[i] = w[(o + 1) + i - 1]
      BY <2>2, <2>3, SubSeqProperties
    <2> QED  BY <2>2, <2>3, <2>4
  <1>7. k # 0 => CellOK(Here(r))
    <2> DEFINE z == 0
    <2>1. z \in Nat /\ Core(r, e, z)
      BY <1>1
    <2> HIDE DEF z
    <2>2. k # 0 => r.p.avail # 0
      BY <1>1, <1>2 DEF CanIncr, Bufptr
    <2> QED  BY <2>1, <2>2, HereOK
  <1> QED  BY <1>3, <1>4, <1>5, <1>6, <1>7

(* The string behind a header. *)
LEMMA NameCell ==
  ASSUME NEW r, Good(r), WellFormed(win), Name(r).rc = "ok"
  PROVE  /\ r.rc = "ok"
         /\ \E x : /\ Name(r).vals = Append(r.vals, <<"str", x>>)
                   /\ Len(x) \in Nat
                   /\ Len(x) # 0 => CellOK(x[1])
  <1> DEFINE q == Length(r)
             y == Expand(q)
  <1>1. Name(r) = consume(q)
    BY DEF Name
  <1>2. PICK e \in 0 .. Len(win) : /\ r.p.avail \in Nat
                                   /\ Ready(r, e, r.p.avail, 0)
    BY GoodIs
  <1>3. /\ q.vals = r.vals
        /\ q.rc = "ok" => r.rc = "ok" /\ HeaderRead(q)
    BY <1>2, LengthKeeps
  <1>4. Good(q)
    BY LengthPast DEF Past, On
  <1> HIDE DEF q
  <1>5. PICK f \in 0 .. Len(win) : /\ q.p.avail \in Nat
                                   /\ Ready(q, f, q.p.avail, 0) /\ Core(q, f, 0)
    BY <1>4, GoodIs
  <1>6. q.rc = "ok" /\ ~ IsInt(q)
    <2>1. q.rc = "ok" => ~ IsInt(q)
      BY <1>1, <1>5, consumeIs, FailedKeeps DEF Codes
    <2> QED  BY <1>1, <2>1, consumeIs
  <1>7. /\ On(q, y) /\ y.len = q.len /\ y.vals = q.vals
    BY <1>3, <1>4, <1>5, <1>6, ExpandOn, ExpandKeeps
  <1>8. consume(q) = IF y.rc = "ok" THEN Data(y) ELSE y
    BY <1>6, consumeIs
  <1> HIDE DEF y
  <1>9. consume(q) = Take(y, LenOf(y.len))
    BY <1>1, <1>8 DEF Data
  <1>10. Good(y) /\ LenOf(y.len) \in Nat
    BY <1>3, <1>6, <1>7 DEF On, HeaderRead, IsSize
  <1>11. \E x : /\ Take(y, LenOf(y.len)).vals = Append(y.vals, <<"str", x>>)
                /\ Len(x) \in Nat
                /\ Len(x) # 0 => CellOK(x[1])
    BY <1>1, <1>9, <1>10, TakeCell
  <1> QED  BY <1>1, <1>3, <1>6, <1>7, <1>9, <1>11

(* What a step of the reader of entries leaves of the number of entries. *)
LEMMA InvalidKeeps ==
  ASSUME NEW x, EntryOK(x)
  PROVE  EntryOK(Invalid(x)) /\ Invalid(x).items = x.items
  BY DEF EntryOK, EntryFields, Invalid

LEMMA DropKeeps ==
  ASSUME NEW x, EntryOK(x), NEW n
  PROVE  EntryOK(Drop(x, n)) /\ Drop(x, n).items = x.items
  BY DEF EntryOK, EntryFields, Drop

LEMMA PutKeeps ==
  ASSUME NEW x, EntryOK(x), NEW t, NEW cells
  PROVE  EntryOK(Put(x, t, cells)) /\ Put(x, t, cells).items = x.items
  BY DEF EntryOK, EntryFields, Put

LEMMA mallocKeeps ==
  ASSUME NEW x, EntryOK(x)
  PROVE  EntryOK(malloc(x)) /\ malloc(x).items = x.items
  BY DEF EntryOK, EntryFields, malloc

LEMMA releaseKeeps ==
  ASSUME NEW x, EntryOK(x), NEW t
  PROVE  EntryOK(release(x, t)) /\ release(x, t).items = x.items
  BY DEF EntryOK, EntryFields, release

(* The tables of an entry, what is put in them, and all of an entry. *)
LEMMA TablesKeep ==
  ASSUME NEW x, EntryOK(x), NEW n
  PROVE  EntryOK(Tables(x, n)) /\ Tables(x, n).items = x.items
  <1> DEFINE f == Place(x, TmpBase(x), n)
             v == Place(f.e, f.end, n)
  <1>1. /\ EntryOK(f.e) /\ f.e.items = x.items
    BY mallocKeeps DEF Place
  <1>2. /\ EntryOK(v.e) /\ v.e.items = x.items
    <2> HIDE DEF f
    <2> QED  BY <1>1, mallocKeeps DEF Place
  <1>3. \/ Tables(x, n) = [f.e EXCEPT !.fields = x.master, !.values = f.at]
        \/ Tables(x, n) = [v.e EXCEPT !.fields = f.at, !.values = v.at]
    BY DEF Tables
  <1> HIDE DEF v, f
  <1> QED  BY <1>1, <1>2, <1>3 DEF EntryOK, EntryFields

LEMMA FillKeeps ==
  ASSUME NEW x, EntryOK(x), NEW cells, NEW n
  PROVE  EntryOK(Fill(x, cells, n)) /\ Fill(x, cells, n).items = x.items
  <1> DEFINE u == Tables(x, n)
             t == [u EXCEPT !.count = n]
             d == [i \in 1 .. n |-> cells[2 * i - 1]]
             names == Put(t, t.fields, d)
             w == IF Flag(x, SAMEFIELDS) THEN 1 ELSE 2
             c == [i \in 1 .. n |-> cells[w * i]]
  <1>1. EntryOK(u) /\ u.items = x.items
    BY TablesKeep
  <1>2. EntryOK(t) /\ t.items = x.items
    <2> HIDE DEF u
    <2> QED  BY <1>1 DEF EntryOK, EntryFields
  <1>3. \/ Fill(x, cells, n) = Invalid(t)
        \/ Fill(x, cells, n) = Put(t, t.values, c)
        \/ Fill(x, cells, n) = Put(names, t.values, c)
    BY DEF Fill
  <1> HIDE DEF t, c, d
  <1>4. EntryOK(names) /\ names.items = x.items
    BY <1>2, PutKeeps
  <1> HIDE DEF names
  <1>5. EntryOK(Invalid(t)) /\ Invalid(t).items = x.items
    BY <1>2, InvalidKeeps
  <1>6. EntryOK(Put(t, t.values, c)) /\ Put(t, t.values, c).items = x.items
    BY <1>2, PutKeeps
  <1>7. EntryOK(Put(names, t.values, c)) /\ Put(names, t.values, c).items = x.items
    BY <1>4, PutKeeps
  <1> QED  BY <1>3, <1>5, <1>6, <1>7

LEMMA read_entryKeeps ==
  ASSUME NEW x, EntryOK(x)
  PROVE  EntryOK(read_entry(x)) /\ read_entry(x).items = x.items
  <1> DEFINE a == [x EXCEPT !.flags = x.list[1][2], !.diff = <<x.list[2][2], x.list[3][2]>>]
             b == release(a, x.fields)
             r == release(b, x.values)
             same == Flag(r, SAMEFIELDS)
             n == IF same THEN x.master_count ELSE Ival(x.list[4])
             k == IF same THEN 3 ELSE 4
             w == IF same THEN 1 ELSE 2
             c == SubSeq(x.list, k + 1, Len(x.list))
             m == k + w * n + 1
  <1>1. \/ read_entry(x) = Invalid(x) \/ read_entry(x) = Invalid(r)
        \/ read_entry(x) = Drop(Fill(r, c, n), m)
    BY DEF read_entry
  <1> HIDE DEF same, n, k, w, c, m
  <1>2. EntryOK(a) /\ a.items = x.items
    BY DEF EntryOK, EntryFields
  <1> HIDE DEF a
  <1>3. EntryOK(b) /\ b.items = x.items
    BY <1>2, releaseKeeps
  <1> HIDE DEF b
  <1>4. EntryOK(r) /\ r.items = x.items
    BY <1>3, releaseKeeps
  <1> HIDE DEF r
  <1>5. EntryOK(Fill(r, c, n)) /\ Fill(r, c, n).items = x.items
    BY <1>4, FillKeeps
  <1> DEFINE f == Fill(r, c, n)
  <1>6. EntryOK(Drop(f, m)) /\ Drop(f, m).items = x.items
    <2> HIDE DEF f
    <2> QED  BY <1>5, DropKeeps DEF f
  <1>7. EntryOK(Invalid(r)) /\ Invalid(r).items = x.items
    BY <1>4, InvalidKeeps
  <1> QED  BY <1>1, <1>6, <1>7, InvalidKeeps

(* A header that is taken has the number of entries as its first cell. *)
LEMMA read_headerKeeps ==
  ASSUME NEW x, EntryOK(x), read_header(x).ok, CellOK(x.list[1]), Len(x.list) \in Nat
  PROVE  EntryOK(read_header(x))
  <1> DEFINE n == x.list[3][2]
             g == [x EXCEPT !.items = x.list[1][2], !.master_count = n]
             h == MasterTable(g, n)
             p == Put(h, h.master, SubSeq(x.list, 4, 3 + n))
  <1>1. ~ (Len(x.list) < 3 \/ \E i \in 1 .. 3 : ~ IsNum(x.list[i]))
    BY DEF read_header, Invalid, EntryOK, EntryFields
  <1>2. IsNum(x.list[1])
    BY <1>1
  <1>3. x.list[1][2] \in Nat
    BY <1>2 DEF CellOK, IsNum
  <1>4. EntryOK(g)
    BY <1>3 DEF EntryOK, EntryFields
  <1>5. read_header(x) = Invalid(h) \/ read_header(x) = Drop(p, 4 + n)
    BY <1>1 DEF read_header
  <1> HIDE DEF g, n
  <1>6. EntryOK(h)
    BY <1>4, mallocKeeps DEF MasterTable, EntryOK, EntryFields, malloc
  <1> HIDE DEF h
  <1>7. EntryOK(p)
    BY <1>6, PutKeeps
  <1> HIDE DEF p
  <1>8. EntryOK(Drop(p, 4 + n)) /\ EntryOK(Invalid(h))
    BY <1>6, <1>7, DropKeeps, InvalidKeeps
  <1> QED  BY <1>5, <1>8

(* A read begins in good order. *)
LEMMA StartGood ==
  ASSUME IInv, pc # "done", NEW size
  PROVE  /\ Good(Start(size)) /\ WellFormed(win)
         /\ Start(size).p = bptr /\ Start(size).vals = <<>> /\ Start(size).rc = "ok"
         /\ Start(size).len = size
  <1>1. PICK e \in 0 .. Len(win) : GoodCursor(bptr, heap, e)
    BY SomeEnd
  <1>2. bptr.avail \in Nat /\ Within(bptr, bptr.avail) /\ Len(heap) \in Nat
    BY SomeEnd DEF Bufptr, Within
  <1>3. /\ Ready(Start(size), e, bptr.avail, Len(heap))
        /\ Start(size).vals = <<>> /\ Start(size).rc = "ok"
        /\ Start(size).len = size
        /\ Start(size).p = bptr /\ Start(size).heap = heap
    BY <1>1, <1>2, StartReady
  <1>4. Core(Start(size), e, 0)
    BY <1>2, <1>3 DEF Ready, Core
  <1> QED  BY <1>3, <1>4, SomeEnd DEF Good

(* Only a listpack that has been read, and an entry taken from it, change  *)
(* what is left of the entries.                                            *)
ItemsInv == EntryOK(loop.entry)

LEMMA NewEntryOK == EntryOK(NewEntry)
  BY DEF EntryOK, EntryFields, NewEntry

LEMMA InitItems == Init => ItemsInv
  BY NewEntryOK DEF Init, NewLoop, ItemsInv

(* A listpack has as many entries as its header says: no fewer than none. *)
LEMMA StreamBlockItems ==
  ASSUME IInv, ItemsInv, StreamBlock
  PROVE  ItemsInv'
  <1> DEFINE a == Start(NoSize)
             b == Name(a)
             r == Name(b)
             list == r.vals[2][2]
             f == [loop.entry EXCEPT !.id = Id(r.vals[1][2][1]), !.list = list]
             h == IF list = <<>> THEN f ELSE read_header(f)
             s == IF r.rc = "ok" /\ ~ h.ok THEN Failed(r, "hdr") ELSE r
  <1>1. /\ pc = "body"
        /\ loop' = IF s.rc = "ok" THEN [loop EXCEPT !.cnt = @ - 1, !.entry = h] ELSE loop
    BY DEF StreamBlock, Part, Body
  <1>2. Good(a) /\ WellFormed(win) /\ a.vals = <<>>
    BY <1>1, StartGood
  <1>3. Good(b) /\ Good(r)
    BY <1>2, NamePast, PastOn
  <1>4. CASE s.rc = "ok"
    <2>1. r.rc = "ok" /\ h.ok
      <3>1. PICK e \in 0 .. Len(win) : Core(r, e, 0)
        BY <1>3 DEF Good
      <3>2. Failed(r, "hdr").rc = "hdr"
        BY <3>1, FailedKeeps DEF Codes
      <3> QED  BY <1>4, <3>2
    <2> HIDE DEF h
    <2>2. /\ b.rc = "ok"
          /\ \E x : /\ r.vals = Append(b.vals, <<"str", x>>)
                    /\ Len(x) \in Nat
                    /\ Len(x) # 0 => CellOK(x[1])
      BY <1>2, <1>3, <2>1, NameCell
    <2>3. \E y : /\ b.vals = Append(a.vals, <<"str", y>>)
                 /\ Len(y) \in Nat
                 /\ Len(y) # 0 => CellOK(y[1])
      BY <1>2, <2>2, NameCell
    <2> HIDE DEF r, b, a
    <2>4. PICK x, y : /\ r.vals = Append(Append(<<>>, <<"str", y>>), <<"str", x>>)
                      /\ Len(x) \in Nat
                      /\ Len(x) # 0 => CellOK(x[1])
      BY <1>2, <2>2, <2>3
    <2>5. list = x
      BY <2>4
    <2> HIDE DEF list
    <2>6. EntryOK(f) /\ f.list = list
      BY DEF ItemsInv, EntryOK, EntryFields
    <2> HIDE DEF f
    <2>7. EntryOK(h)
      <3>1. CASE list = <<>>
        BY <2>6, <3>1 DEF h
      <3>2. CASE list # <<>>
        <4>1. h = read_header(f)
          BY <3>2 DEF h
        <4>2. CASE Len(list) # 0
          <5>1. CellOK(f.list[1]) /\ Len(f.list) \in Nat
            BY <2>4, <2>5, <2>6, <4>2
          <5> QED  BY <2>1, <2>6, <4>1, <5>1, read_headerKeeps
        <4>3. CASE Len(list) = 0
          <5>1. read_header(f) = Invalid(f)
            BY <2>6, <4>3 DEF read_header
          <5> QED  BY <2>6, <4>1, <5>1, InvalidKeeps
        <4> QED  BY <4>2, <4>3
      <3> QED  BY <3>1, <3>2
    <2>8. loop'.entry = h
      BY <1>1, <1>4 DEF IInv, LoopOK
    <2> QED  BY <2>7, <2>8 DEF ItemsInv
  <1>5. CASE s.rc # "ok"
    BY <1>1, <1>5 DEF ItemsInv
  <1> QED  BY <1>4, <1>5

(* Of these it has one less when one has been read. *)
LEMMA StreamEntryItems ==
  ASSUME IInv, ItemsInv, StreamEntry
  PROVE  /\ ItemsInv'
         /\ loop'.entry.items = loop.entry.items - 1 /\ loop'.part = "blocks"
         /\ loop.part = "blocks"
  <1> DEFINE x == [loop.entry EXCEPT !.items = @ - 1]
             g == read_entry(x)
             live == ~ Flag(g, DELETED)
  <1>1. /\ loop.part = "blocks" /\ loop.entry.items > 0
        /\ loop' = [loop EXCEPT !.entry = g, !.num = IF live THEN @ + 1 ELSE @]
    BY DEF StreamEntry, Part
  <1>2. EntryOK(x) /\ x.items = loop.entry.items - 1
    BY <1>1 DEF ItemsInv, EntryOK, EntryFields
  <1> HIDE DEF x
  <1>3. EntryOK(g) /\ g.items = x.items
    BY <1>2, read_entryKeeps
  <1> HIDE DEF g, live
  <1>4. loop'.entry = g /\ loop'.part = "blocks"
    BY <1>1 DEF IInv, LoopOK
  <1> QED  BY <1>1, <1>2, <1>3, <1>4 DEF ItemsInv

(* The other steps keep the entry, or begin a new one. *)
LEMMA KeepsEntry ==
  ASSUME IInv, ItemsInv, loop'.entry = loop.entry \/ loop'.entry = NewEntry
  PROVE  ItemsInv'
  BY NewEntryOK DEF ItemsInv

LEMMA LoopEntry ==
  ASSUME IInv, Decode, ~ StreamBlock, ~ StreamEntry
  PROVE  loop'.entry = loop.entry \/ loop'.entry = NewEntry
  <1> DEFINE Same == loop'.entry = loop.entry
  <1>1. DOMAIN loop = {"num", "cnt", "part", "entry", "group", "pend", "cons", "conp"}
    BY DEF IInv, LoopOK
  <1>2. CASE Open \/ (\E k \in Metas : Meta(k)) \/ ModuleAux \/ EofMark \/ KeyType \/ KeyHdr
    <2>1. loop' = loop
      BY <1>2 DEF Open, Meta, ModuleAux, EofMark, KeyType, KeyHdr
    <2> QED  BY <2>1
  <1>3. CASE StartKey
    <2>1. loop' = NewLoop(LenOf(dec.rlen))
      BY <1>3 DEF StartKey
    <2> QED  BY <2>1 DEF NewLoop
  <1>4. CASE BodyString \/ ZipList \/ ZipMap \/ IntSet \/ Module \/ EndLoop \/ EndStream
             \/ StreamNoName
    <2>1. loop' = loop
      BY <1>4 DEF BodyString, ZipList, ZipMap, IntSet, Packed, Module, EndLoop, EndStream,
                  StreamNoName
    <2> QED  BY <2>1
  <1>5. CASE HashEntry \/ SetMember \/ ListElem \/ ZSetMember
    <2>1. loop' = [loop EXCEPT !.cnt = @ - 1, !.num = @ + 1]
      BY <1>5 DEF HashEntry, SetMember, ListElem, ZSetMember, Element
    <2> QED  BY <1>1, <2>1
  <1>6. CASE QuickNode
    <2>1. \E m : loop' = [loop EXCEPT !.cnt = @ - 1, !.num = IF m > 0 THEN @ + m - 1 ELSE @]
      BY <1>6 DEF QuickNode
    <2> QED  BY <1>1, <2>1
  <1>7. CASE StreamInfo
    <2>1. \E g : \/ loop' = [loop EXCEPT !.part = "groups", !.entry = NewEntry,
                                         !.group = NewCount(g)]
                 \/ loop' = loop
      BY <1>7 DEF StreamInfo
    <2> QED  BY <1>1, <2>1
  <1>8. CASE StreamGroup
    <2>1. \E g : loop' = [loop EXCEPT !.part = "pend", !.pend = NewCount(g)] \/ loop' = loop
      BY <1>8 DEF StreamGroup
    <2> QED  BY <1>1, <2>1
  <1>9. CASE StreamPend
    <2>1. loop' = [loop EXCEPT !.pend.num = @ + 1]
      BY <1>9 DEF StreamPend
    <2> QED  BY <1>1, <2>1
  <1>10. CASE StreamConsumers
    <2>1. \E g : loop' = [loop EXCEPT !.part = "cons", !.cons = NewCount(g)] \/ loop' = loop
      BY <1>10 DEF StreamConsumers
    <2> QED  BY <1>1, <2>1
  <1>11. CASE StreamCons
    <2>1. \E g : loop' = [loop EXCEPT !.part = "conp", !.conp = NewCount(g)] \/ loop' = loop
      BY <1>11 DEF StreamCons
    <2> QED  BY <1>1, <2>1
  <1>12. CASE StreamConsPend
    <2>1. loop' = [loop EXCEPT !.conp.num = @ + 1]
      BY <1>12 DEF StreamConsPend
    <2> QED  BY <1>1, <2>1
  <1>13. CASE EndCons
    <2>1. loop' = [loop EXCEPT !.part = "cons", !.cons.num = @ + 1]
      BY <1>13 DEF EndCons
    <2> QED  BY <1>1, <2>1
  <1>14. CASE EndGroup
    <2>1. loop' = [loop EXCEPT !.part = "groups", !.group.num = @ + 1]
      BY <1>14 DEF EndGroup
    <2> QED  BY <1>1, <2>1
  <1> QED  BY <1>2, <1>3, <1>4, <1>5, <1>6, <1>7, <1>8, <1>9, <1>10, <1>11, <1>12,
              <1>13, <1>14 DEF Decode, DecodeStream

(* Every step keeps the number of entries a number. *)
LEMMA StepItems == IInv /\ ItemsInv /\ [Next]_vars => ItemsInv'
  <1> SUFFICES ASSUME IInv, ItemsInv, [Next]_vars PROVE ItemsInv'
    OBVIOUS
  <1>1. CASE Decode
    BY <1>1, StreamBlockItems, StreamEntryItems, LoopEntry, KeepsEntry
  <1>2. CASE KeyDone \/ EndOfFile \/ Error
    BY <1>2 DEF KeyDone, EndOfFile, Error, ItemsInv
  <1>3. CASE UNCHANGED vars
    BY <1>3 DEF vars, decode_vars, ItemsInv
  <1> QED  BY <1>1, <1>2, <1>3 DEF Next, Step, DecodeStep, Exited

-----------------------------------------------------------------------------
(* How far from the end of a key the decoder is. *)

Staged ==
  /\ Stage \in Nat
  /\ pc = "done" => Stage = 0
  /\ pc = "error" => Stage = 1
  /\ pc \in {"hdr", "len"} => Stage = 2
  /\ pc = "keydone" => Stage = 3
  /\ pc = "start" => Stage = 5
  /\ pc = "body" => /\ Stage >= 4
                    /\ loop.part = "blocks" => Stage = 4 + loop.entry.items
                    /\ loop.part = "cons" => Stage = 5
                    /\ loop.part = "conp" => Stage = 6
                    /\ loop.part \notin {"blocks", "cons", "conp"} => Stage = 4

LEMMA Stages == IInv /\ ItemsInv => Staged
  <1> SUFFICES ASSUME IInv, ItemsInv PROVE Staged
    OBVIOUS
  <1> DEFINE i == loop.entry.items
  <1>1. i \in Nat
    BY DEF ItemsInv, EntryOK
  <1> HIDE DEF i
  <1>2. pc \in {"hdr", "len", "start", "body", "keydone", "error", "done"}
    BY DEF IInv, PcOK
  <1>3. CASE pc = "body"
    <2>1. Stage = 4 + CASE loop.part = "blocks" -> i
                        [] loop.part = "cons" -> 1
                        [] loop.part = "conp" -> 2
                        [] OTHER -> 0
      BY <1>3 DEF Stage, i
    <2>2. CASE loop.part = "blocks"
      BY <1>1, <1>3, <2>1, <2>2 DEF i, Staged
    <2>3. CASE loop.part = "cons"
      BY <1>3, <2>1, <2>3 DEF Staged
    <2>4. CASE loop.part = "conp"
      BY <1>3, <2>1, <2>4 DEF Staged
    <2>5. CASE loop.part \notin {"blocks", "cons", "conp"}
      BY <1>3, <2>1, <2>5 DEF Staged
    <2> QED  BY <2>2, <2>3, <2>4, <2>5
  <1>4. CASE pc # "body"
    BY <1>2, <1>4 DEF Stage, Staged
  <1> QED  BY <1>3, <1>4

LEMMA NextStages == (IInv /\ ItemsInv)' => Staged'
  BY Stages, PTL

(* What has been read of stdin, what is in the window and what is left. *)
RestIs == /\ Len(rest) \in Nat /\ Len(win) \in Nat /\ start_offset \in Nat
          /\ start_offset + Len(win) + Len(rest) = Len(input.cells)

LEMMA RestIsLeft == WindowInv => RestIs
  <1> SUFFICES ASSUME WindowInv PROVE RestIs
    OBVIOUS
  <1> DEFINE c == input.cells
             S == {c[j] : j \in DOMAIN c}
             m == start_offset + Len(win) + 1
             l == Len(c)
  <1>1. c \in Seq(S) /\ l \in Nat /\ l = Len(c)
    BY WindowOK DEF WellFormed, Cells
  <1>2. /\ rest = SubSeq(c, m, l) /\ m \in 1 .. l + 1 /\ l \in m - 1 .. l
        /\ l - m + 1 \in Nat
    BY <1>1 DEF WindowInv
  <1>3. start_offset \in Nat /\ Len(win) \in Nat /\ m = start_offset + Len(win) + 1
    BY DEF WindowInv
  <1> HIDE DEF c, S, m, l
  <1>4. Len(SubSeq(c, m, l)) = l - m + 1
    BY <1>1, <1>2, Cut
  <1>5. l = Len(input.cells)
    BY DEF l, c
  <1>6. Len(rest) = l - m + 1
    BY <1>2, <1>4
  <1>7. start_offset + Len(win) + (l - m + 1) = l
    BY <1>1, <1>3
  <1> QED  BY <1>2, <1>3, <1>5, <1>6, <1>7 DEF RestIs

LEMMA NextRestIsLeft == WindowInv' => RestIs'
  BY RestIsLeft, PTL

Moves == ReadsOn(bptr, Len(rest), bptr', Len(rest'))
Holds == StaysAt(bptr, Len(rest), bptr', Len(rest'))
Counts == Moves \/ (Holds /\ Stage' < Stage)

(* A read that went on, seen from the program. *)
LEMMA OnMoves ==
  ASSUME IInv, pc # "done", NEW size, NEW r, On(Start(size), r),
         bptr' = r.p, rest' = rest
  PROVE  /\ Moves \/ Holds
         /\ Nearer(r.p, bptr) => Moves
  <1>1. Len(rest) \in Nat
    BY RestIsLeft DEF IInv, RestIs
  <1>2. Start(size).p = bptr /\ Good(Start(size)) /\ WellFormed(win)
    BY StartGood
  <1>3. /\ MainLeft(bptr) \in Nat /\ BlockLeft(bptr) \in Nat
        /\ MainLeft(r.p) \in Nat /\ BlockLeft(r.p) \in Nat
    BY <1>2, GoodIs DEF On
  <1>4. Nearer(r.p, bptr) \/ Level(r.p, bptr)
    BY <1>2 DEF On
  <1> QED  BY <1>1, <1>3, <1>4 DEF Moves, Holds, ReadsOn, StaysAt, Nearer, Level

(* A read that goes past what it began at, wherever it leads. *)
LEMMA ReadCounts ==
  ASSUME IInv, Staged, Staged', pc \in {"hdr", "len", "start", "body"}, NEW size, NEW r,
         Past(Start(size), r), NEW to, Return(r, to), rest' = rest
  PROVE  Counts
  <1>1. bptr' = r.p /\ pc' = IF r.rc = "ok" THEN to ELSE "error"
    BY DEF Return
  <1>2. On(Start(size), r) /\ (r.rc = "ok" => Nearer(r.p, bptr))
    BY StartGood DEF Past
  <1>3. Moves \/ Holds
    BY <1>1, <1>2, OnMoves
  <1>4. CASE r.rc = "ok"
    BY <1>1, <1>2, <1>4, OnMoves DEF Counts
  <1>5. CASE r.rc # "ok"
    <2>1. Stage' = 1 /\ Stage > 1
      BY <1>1, <1>5 DEF Staged
    <2> QED  BY <1>3, <2>1 DEF Counts
  <1> QED  BY <1>4, <1>5

(* A read that ends the value, even an empty one. *)
LEMMA EndCounts ==
  ASSUME IInv, Staged, Staged', pc = "body", NEW size, NEW r,
         On(Start(size), r), Return(r, "keydone"), rest' = rest
  PROVE  Counts
  <1>1. bptr' = r.p /\ pc' \in {"keydone", "error"}
    BY DEF Return
  <1>2. Moves \/ Holds
    BY <1>1, OnMoves
  <1>3. Stage' \in {1, 3} /\ Stage >= 4
    BY <1>1 DEF Staged
  <1>4. Stage' < Stage
    <2>1. Stage \in Nat
      BY DEF Staged
    <2> QED  BY <1>3, <2>1
  <1> QED  BY <1>2, <1>4 DEF Counts

(* A step that reads nothing. *)
LEMMA TurnCounts ==
  ASSUME IInv, pc # "done", NEW size, NEW to, Return(Start(size), to), rest' = rest,
         Stage' < Stage
  PROVE  Counts
  <1>1. bptr' = Start(size).p
    BY DEF Return
  <1>2. On(Start(size), Start(size))
    BY StartGood, OnSame
  <1> QED  BY <1>1, <1>2, OnMoves DEF Counts

(* A read is refused after it went past. *)
LEMMA FailedPast ==
  ASSUME NEW r, NEW s, Good(r), WellFormed(win), Past(r, s), NEW c \in Codes \ {"ok"}
  PROVE  Past(r, Failed(s, c))
  <1>1. Good(s) /\ On(r, s)
    BY PastOn
  <1>2. Past(s, Failed(s, c)) /\ On(s, Failed(s, c))
    BY <1>1, FailedOn, PastOn
  <1> QED  BY <1>2, PastThen

-----------------------------------------------------------------------------
(* The steps. *)

(* An element of a loop, and a node of a quicklist. *)
LEMMA ElementCounts ==
  ASSUME IInv, Staged, Staged', Outside, HashEntry \/ SetMember \/ ListElem \/ ZSetMember
  PROVE  Counts
  <1> DEFINE s == Start(NoSize)
  <1>1. pc = "body" /\ rest' = rest
    BY DEF HashEntry, SetMember, ListElem, ZSetMember, Element, Body, Outside
  <1>2. \/ Return(decode_rlen(s), "body") \/ Return(decode_rlen(decode_rlen(s)), "body")
        \/ Return(Score(decode_rlen(s)), "body")
    BY DEF HashEntry, SetMember, ListElem, ZSetMember, Element
  <1>3. Good(s) /\ WellFormed(win)
    BY <1>1, StartGood
  <1>4. /\ Past(s, decode_rlen(s)) /\ Past(s, decode_rlen(decode_rlen(s)))
        /\ Past(s, Score(decode_rlen(s)))
    BY <1>3, decode_rlenPast, PastNext
  <1> QED  BY <1>1, <1>2, <1>4, ReadCounts

LEMMA QuickReads ==
  ASSUME NEW b, NEW two
  PROVE  LET r == IF two THEN Listed(b) ELSE Then(b, LAMBDA q : Failed(q, "notsup"))
         IN  \/ r = b /\ (b.rc = "ok" => two /\ init(b.vals[1][2]))
             \/ r = Failed(b, "notsup") \/ r = Failed(b, "trunc")
  <1>1. CASE two
    BY <1>1, ListedIs
  <1>2. Then(b, LAMBDA q : Failed(q, "notsup")) = IF b.rc = "ok" THEN Failed(b, "notsup") ELSE b
    BY SMT DEF Then
  <1> QED  BY <1>1, <1>2

LEMMA QuickCounts ==
  ASSUME IInv, Staged, Staged', Outside, QuickNode
  PROVE  Counts
  <1> DEFINE s == Start(NoSize)
             two == <<"len", 2>>
             c == IF dec.type = "list_quicklist_2" THEN Length(s) ELSE Start(two)
             b == consume(Length(c))
             r == IF LenOf(c.len) = 2 THEN Listed(b)
                  ELSE Then(b, LAMBDA q : Failed(q, "notsup"))
  <1>1. pc = "body" /\ Return(r, "body") /\ rest' = rest
    BY DEF QuickNode, Body, Outside
  <1>2. r = b \/ r = Failed(b, "notsup") \/ r = Failed(b, "trunc")
    BY QuickReads
  <1>3. b = Name(c)
    BY DEF Name
  <1>4. c = Length(s) \/ c = Start(two)
    OBVIOUS
  <1>5. Good(s) /\ Good(Start(two)) /\ WellFormed(win)
    BY <1>1, StartGood
  <1> HIDE DEF r, b, c, s, two
  <1>6. Past(s, b) \/ Past(Start(two), b)
    <2>1. CASE c = Length(s)
      <3>1. Past(s, Length(s))
        BY <1>5, LengthPast
      <3> QED  BY <1>3, <1>5, <2>1, <3>1, PastNext
    <2>2. CASE c = Start(two)
      BY <1>3, <1>5, <2>2, NamePast
    <2> QED  BY <1>4, <2>1, <2>2
  <1>7. Past(s, r) \/ Past(Start(two), r)
    BY <1>2, <1>5, <1>6, FailedPast DEF Codes
  <1> QED  BY <1>1, <1>7, ReadCounts DEF s

(* A value that is one string, and the contents of a module. *)
LEMMA PieceCounts ==
  ASSUME IInv, Staged, Staged', Outside, BodyString \/ ZipList \/ ZipMap \/ IntSet
  PROVE  Counts
  <1> DEFINE s == Start(dec.rlen)
  <1>1. pc = "body" /\ rest' = rest
    BY DEF BodyString, ZipList, ZipMap, IntSet, Body, Outside
  <1>2. \/ Return(decode_str(s), "keydone") \/ Return(Data(s), "keydone")
        \/ Return(Ints(Field(s)), "keydone")
        \/ Return(Listed(Data(s)), "keydone") \/ Return(Failed(Data(s), "trunc"), "keydone")
    BY DEF BodyString, ZipList, ZipMap, IntSet, Packed
  <1>3. Good(s) /\ WellFormed(win) /\ s.vals = <<>> /\ s.rc = "ok" /\ LenOf(s.len) \in Nat
    BY <1>1, StartGood DEF IInv, DecOK, IsSize
  <1>4. On(s, decode_str(s)) /\ On(s, Data(s)) /\ On(s, Ints(Field(s)))
    <2> HIDE DEF s
    <2> QED  BY <1>3, decode_strOn, DataOn, IntsOn
  <1> DEFINE d == Data(s)
             f == Failed(d, "trunc")
  <1>5. On(s, f) /\ On(s, Listed(d))
    <2>1. Good(d) /\ On(s, d)
      BY <1>4 DEF On
    <2> HIDE DEF d, s
    <2>2. On(d, f)
      BY <2>1, FailedOn DEF Codes, Past
    <2>3. On(s, f)
      BY <1>3, <2>1, <2>2, OnTrans
    <2>4. Listed(d) = d \/ Listed(d) = f
      BY ListedIs
    <2> QED  BY <2>1, <2>3, <2>4
  <1> QED  BY <1>1, <1>2, <1>4, <1>5, EndCounts

LEMMA ModuleCounts ==
  ASSUME IInv, Staged, Staged', Outside, Module
  PROVE  Counts
  <1> DEFINE s == Start(dec.rlen)
             ends == {n \in 1 .. bptr.avail : Bytes(s)[bptr.offset + n] = <<"zero">>}
             skip == IF ends = {} THEN bptr.avail
                     ELSE CHOOSE n \in ends : \A m \in ends : n <= m
  <1>1. pc = "body" /\ Return(Skip(s, skip), "keydone") /\ rest' = rest
    BY DEF Module, Body, Outside
  <1>2. ends \subseteq 1 .. bptr.avail
    OBVIOUS
  <1> HIDE DEF ends
  <1>3. bptr.avail \in Nat
    BY SomeEnd DEF Bufptr
  <1>4. skip \in Nat /\ skip <= bptr.avail
    BY <1>2, <1>3, SkipsSome
  <1> HIDE DEF skip
  <1>5. Good(s) /\ WellFormed(win) /\ s.p = bptr
    BY <1>1, StartGood
  <1>6. On(s, Skip(s, skip))
    <2>1. CanIncr(s.p, skip)
      BY <1>4, <1>5 DEF CanIncr
    <2> HIDE DEF s
    <2> QED  BY <1>4, <1>5, <2>1, SkipOn
  <1> QED  BY <1>1, <1>6, EndCounts

(* The end of a loop, and of a stream that has a name it cannot read. *)
LEMMA LoopEndCounts ==
  ASSUME IInv, Staged, Staged', Outside, EndLoop \/ EndStream \/ StreamNoName
  PROVE  Counts
  <1> DEFINE s == Start(NoSize)
             q == Name(s)
             r == Failed(q, "ok")
  <1>1. pc = "body" /\ rest' = rest
    BY DEF EndLoop, EndStream, StreamNoName, Part, Body, Outside
  <1>2. Return(s, "keydone") \/ Return(r, "keydone")
    BY DEF EndLoop, EndStream, StreamNoName, Failed
  <1>3. Good(s) /\ WellFormed(win) /\ s.rc = "ok"
    BY <1>1, StartGood
  <1>4. On(s, s)
    BY <1>3, OnSame
  <1>5. On(s, q)
    BY <1>3, NamePast, PastOn
  <1>6. On(s, r)
    <2> HIDE DEF s, q
    <2>1. PICK e \in 0 .. Len(win) : Core(q, e, 0)
      BY <1>5 DEF On, Good
    <2>2. Core(r, e, 0) /\ r.p = q.p
      BY <2>1, FailedKeeps DEF Codes
    <2> QED  BY <1>3, <1>5, <2>2 DEF On, Good
  <1> QED  BY <1>1, <1>2, <1>4, <1>6, EndCounts

(* The parts of a stream that are only read; groups and consumers, which   *)
(* begin with a name.                                                      *)
LEMMA StreamReadCounts ==
  ASSUME IInv, Staged, Staged', Outside,
         StreamBlock \/ StreamInfo \/ StreamPend \/ StreamConsumers \/ StreamConsPend
  PROVE  Counts
  <1> DEFINE s == Start(NoSize)
  <1>1. pc = "body" /\ rest' = rest
    BY DEF StreamBlock, StreamInfo, StreamPend, StreamConsumers, StreamConsPend, Part, Body,
           Outside
  <1>2. Good(s) /\ WellFormed(win)
    BY <1>1, StartGood
  <1>3. CASE StreamBlock
    <2> DEFINE q == Name(Name(s))
    <2>1. Return(q, "body") \/ Return(Failed(q, "hdr"), "body")
      BY <1>3 DEF StreamBlock
    <2>2. Past(s, q)
      BY <1>2, NamePast, PastNext
    <2>3. Past(s, Failed(q, "hdr"))
      BY <1>2, <2>2, FailedPast DEF Codes
    <2> QED  BY <1>1, <2>1, <2>2, <2>3, ReadCounts
  <1>4. CASE StreamInfo
    <2> DEFINE c == Count(Count2(s))
               d == Count(Count2(Count2(c)))
    <2>1. Return(Count(c), "body") \/ Return(Count(d), "body")
      BY <1>4 DEF StreamInfo
    <2>2. Past(s, c)
      BY <1>2, CountPast, PastNext DEF Count2
    <2> HIDE DEF c
    <2>3. Past(s, d)
      BY <1>2, <2>2, PastNext DEF Count2
    <2> HIDE DEF d
    <2>4. Past(s, Count(c)) /\ Past(s, Count(d))
      BY <1>2, <2>2, <2>3, PastNext
    <2> QED  BY <1>1, <2>1, <2>4, ReadCounts
  <1>5. CASE StreamPend
    <2>1. Return(Count(Field(Field(s))), "body")
      BY <1>5 DEF StreamPend
    <2>2. Past(s, Count(Field(Field(s))))
      BY <1>2, FieldPast, PastNext
    <2> QED  BY <1>1, <2>1, <2>2, ReadCounts
  <1>6. CASE StreamConsumers
    <2>1. Return(Count(s), "body")
      BY <1>6 DEF StreamConsumers
    <2> QED  BY <1>1, <1>2, <2>1, CountPast, ReadCounts
  <1>7. CASE StreamConsPend
    <2>1. Return(Field(s), "body")
      BY <1>7 DEF StreamConsPend
    <2> QED  BY <1>1, <1>2, <2>1, FieldPast, ReadCounts
  <1> QED  BY <1>3, <1>4, <1>5, <1>6, <1>7

LEMMA StreamNamedCounts ==
  ASSUME IInv, Staged, Staged', Outside, StreamGroup \/ StreamCons
  PROVE  Counts
  <1> DEFINE s == Start(NoSize)
             l == Count2(Name(s))
  <1>1. pc = "body" /\ rest' = rest
    BY DEF StreamGroup, StreamCons, Part, Body, Outside
  <1>2. \/ Return(Count(l), "body") \/ Return(Count(Count(l)), "body")
        \/ Return(Count(Field(Name(s))), "body")
    BY DEF StreamGroup, StreamCons
  <1>3. Good(s) /\ WellFormed(win)
    BY <1>1, StartGood
  <1>4. Past(s, Name(s))
    BY <1>3, NamePast
  <1>5. Past(s, l) /\ Past(s, Count(Field(Name(s))))
    BY <1>3, <1>4, PastNext DEF Count2
  <1> HIDE DEF l
  <1>6. Past(s, Count(l)) /\ Past(s, Count(Count(l)))
    BY <1>3, <1>5, PastNext
  <1> QED  BY <1>1, <1>2, <1>5, <1>6, ReadCounts

(* An entry has been read with its listpack. *)
LEMMA StreamEntryCounts ==
  ASSUME IInv, ItemsInv, Staged, Staged', Outside, StreamEntry
  PROVE  Counts
  <1> DEFINE s == Start(NoSize)
             r == Failed(s, "trunc")
  <1>1. /\ pc = "body" /\ rest' = rest /\ loop.part = "blocks" /\ loop'.part = "blocks"
        /\ loop'.entry.items = loop.entry.items - 1
    BY StreamEntryItems DEF StreamEntry, Part, Body, Outside
  <1>2. Return(s, "body") \/ Return(r, "body")
    BY DEF StreamEntry
  <1>3. Good(s) /\ WellFormed(win) /\ s.rc = "ok"
    BY <1>1, StartGood
  <1>4. CASE Return(s, "body")
    <2>1. pc' = "body"
      BY <1>3, <1>4 DEF Return
    <2>2. Stage = 4 + loop.entry.items /\ Stage' = 4 + (loop.entry.items - 1)
      BY <1>1, <2>1 DEF Staged
    <2>3. loop.entry.items \in Nat
      BY DEF ItemsInv, EntryOK
    <2>4. Stage' < Stage
      BY <2>2, <2>3
    <2> QED  BY <1>1, <1>4, <2>4, TurnCounts
  <1>5. CASE Return(r, "body")
    <2>1. Past(s, r)
      BY <1>3, FailedOn DEF Codes
    <2> QED  BY <1>1, <1>5, <2>1, ReadCounts
  <1> QED  BY <1>2, <1>4, <1>5

(* The ends of a consumer and of a group. *)
LEMMA StreamEndsCount ==
  ASSUME IInv, Staged, Staged', Outside, EndCons \/ EndGroup
  PROVE  Counts
  <1> DEFINE s == Start(NoSize)
  <1>1. pc = "body" /\ rest' = rest /\ Return(s, "body")
    BY DEF EndCons, EndGroup, Part, Body, Outside
  <1>2. pc' = "body"
    BY <1>1, StartGood DEF Return
  <1>3. DOMAIN loop = {"num", "cnt", "part", "entry", "group", "pend", "cons", "conp"}
    BY DEF IInv, LoopOK
  <1>4. CASE EndCons
    <2>1. loop.part = "conp" /\ loop' = [loop EXCEPT !.part = "cons", !.cons.num = @ + 1]
      BY <1>4 DEF EndCons, Part
    <2>2. loop'.part = "cons"
      BY <1>3, <2>1
    <2> QED  BY <1>1, <1>2, <2>1, <2>2, TurnCounts DEF Staged
  <1>5. CASE EndGroup
    <2>1. loop.part = "cons" /\ loop' = [loop EXCEPT !.part = "groups", !.group.num = @ + 1]
      BY <1>5 DEF EndGroup, Part
    <2>2. loop'.part = "groups"
      BY <1>3, <2>1
    <2> QED  BY <1>1, <1>2, <2>1, <2>2, TurnCounts DEF Staged
  <1> QED  BY <1>4, <1>5

(* The loop over a value begins, or a key is read, or its type. *)
LEMMA StartKeyCounts ==
  ASSUME IInv, Staged, Staged', Outside, StartKey
  PROVE  Counts
  <1> DEFINE s == Start(dec.rlen)
             r == Failed(s, "hdr")
  <1>1. /\ pc = "start" /\ rest' = rest
        /\ Return(s, "body") \/ Return(r, "body")
        /\ loop' = NewLoop(LenOf(dec.rlen))
    BY DEF StartKey, Outside
  <1>2. Good(s) /\ s.rc = "ok"
    BY <1>1, StartGood
  <1>3. CASE Return(s, "body")
    <2>1. pc' = "body"
      BY <1>2, <1>3 DEF Return
    <2>2. loop'.part = "blocks" /\ loop'.entry.items = 0
      BY <1>1 DEF NewLoop, NewEntry
    <2>3. Stage = 5 /\ Stage' = 4
      BY <1>1, <2>1, <2>2 DEF Staged
    <2> QED  BY <1>1, <1>3, <2>3, TurnCounts
  <1>4. CASE Return(r, "body")
    <2>1. Past(s, r)
      BY <1>2, FailedOn DEF Codes
    <2> QED  BY <1>1, <1>4, <2>1, ReadCounts
  <1> QED  BY <1>1, <1>3, <1>4

LEMMA KeyHdrCounts ==
  ASSUME IInv, Staged, Staged', Outside, KeyHdr
  PROVE  Counts
  <1> DEFINE s == Start(NoSize)
             t == Text(Length(s))
  <1>1. /\ pc = "len" /\ rest' = rest
        /\ Return(Unzip(Length(t)), "start") \/ Return(Unzip(Length(s)), "start")
    BY DEF KeyHdr, Outside
  <1>2. Good(s) /\ WellFormed(win)
    BY <1>1, StartGood
  <1>3. Past(s, t) /\ Past(s, Unzip(Length(s)))
    BY <1>2, TextPast, SizePast
  <1> HIDE DEF t
  <1>4. Past(s, Unzip(Length(t)))
    BY <1>2, <1>3, PastNext
  <1> QED  BY <1>1, <1>3, <1>4, ReadCounts

(* The cell that an opcode or a type is. *)
LEMMA FirstCell ==
  ASSUME IInv, pc # "done", bptr.avail > 0
  PROVE  Past(Start(NoSize), Skip(Start(NoSize), 1))
  <1> DEFINE s == Start(NoSize)
             k == 1
  <1>1. Good(s) /\ WellFormed(win) /\ s.p = bptr
    BY StartGood
  <1>2. CanIncr(s.p, k) /\ k \in Nat /\ k # 0
    BY <1>1, SomeEnd DEF CanIncr, Bufptr
  <1> HIDE DEF s, k
  <1>3. Past(s, Skip(s, k))
    BY <1>1, <1>2, SkipOn
  <1> QED  BY <1>3 DEF s, k

LEMMA KeyTypeCounts ==
  ASSUME IInv, Staged, Staged', Outside, KeyType
  PROVE  Counts
  <1> DEFINE r == Start(NoSize)
             t == get_rdb_type(IF bptr.avail > 0 THEN Here(r) ELSE NoSize)
             s == CASE bptr.avail = 0 -> Failed(r, "trunc")
                    [] bptr.avail > 0 /\ t = "bad" -> Failed(r, "type")
                    [] bptr.avail > 0 /\ t # "bad" -> Skip(r, 1)
  <1>1. pc = "hdr" /\ Return(s, "len") /\ rest' = rest
    BY DEF KeyType, Outside
  <1> HIDE DEF t
  <1>2. bptr.avail \in Nat
    BY SomeEnd DEF Bufptr
  <1>3. s \in {Failed(r, "trunc"), Failed(r, "type")} \/ (bptr.avail > 0 /\ s = Skip(r, 1))
    BY <1>2
  <1> HIDE DEF s
  <1>4. Past(r, s)
    BY <1>1, <1>3, StartGood, FailedOn, FirstCell DEF Codes
  <1> QED  BY <1>1, <1>4, ReadCounts

(* The opcodes. *)
LEMMA OpcodeCounts ==
  ASSUME IInv, Staged, Staged', Outside, (\E k \in Metas : Meta(k)) \/ ModuleAux \/ EofMark
  PROVE  Counts
  <1> DEFINE a == Start(NoSize)
             s == Skip(a, 1)
             Went(r) == Return(r, "hdr")
  <1>1. pc = "hdr" /\ bptr.avail > 0 /\ rest' = rest
    BY DEF Meta, ModuleAux, EofMark, Opcode, Outside
  <1>2. \/ \E k \in Metas : Went(Operands(k))
        \/ Went(Failed(s, "notsup")) \/ Went(Failed(s, "eof"))
    BY DEF Meta, ModuleAux, EofMark
  <1>3. ASSUME NEW r, Past(a, r), Went(r) PROVE Counts
    BY <1>1, <1>3, ReadCounts
  <1> HIDE DEF Went
  <1>4. Good(a) /\ WellFormed(win) /\ Past(a, s)
    BY <1>1, StartGood, FirstCell
  <1>5. \A k : Operands(k) \in {Number(s), Number(Number(s)),
                               Text(Length(Text(Length(s)))), Field(s)}
    BY DEF Operands
  <1> HIDE DEF s, a
  <1>6. /\ Past(a, Number(s)) /\ Past(a, Number(Number(s)))
        /\ Past(a, Text(Length(Text(Length(s))))) /\ Past(a, Field(s))
        /\ Past(a, Failed(s, "notsup")) /\ Past(a, Failed(s, "eof"))
    BY <1>4, PastNext, FailedPast DEF Codes
  <1> QED  BY <1>2, <1>3, <1>5, <1>6

(* A file loses its magic number, a dump its footer. *)
LEMMA OpenCounts ==
  ASSUME IInv, Staged, Staged', Outside, Open
  PROVE  Counts
  <1> DEFINE n == Len(win)
  <1>1. /\ pc = "hdr" /\ ~ dec.opened /\ rest' = rest /\ Len(rest) \in Nat
    BY RestIsLeft DEF Open, Outside, IInv, RestIs
  <1>2. /\ bptr = NewBufptr(n) /\ n \in Nat
        /\ win # <<>> /\ win[1][1] # "magic" => win = input.cells
    BY <1>1, SomeEnd DEF IInv, OpenInv
  <1> HIDE DEF n
  <1>3. /\ bptr.buf = Main /\ bptr.avail = n
        /\ DOMAIN bptr = {"buf", "avail", "offset", "sav", "sav_avail", "sav_offset", "alloced"}
    BY <1>2 DEF NewBufptr
  <1>4. ASSUME pc' = "error", bptr' = bptr PROVE Counts
    <2>1. Stage' < Stage
      BY <1>1, <1>4 DEF Staged
    <2> QED  BY <1>1, <1>4, <2>1 DEF Counts, Holds, StaysAt
  <1>5. ASSUME NEW d \in Nat \ {0}, d <= n, bptr'.buf = Main, bptr'.avail = n - d
        PROVE  Counts
    BY <1>1, <1>2, <1>3, <1>5 DEF Counts, Moves, ReadsOn, MainLeft
  <1>6. CASE bptr.avail < 2
    <2>1. pc' = "error" /\ UNCHANGED bptr
      BY <1>2, <1>3, <1>6 DEF Open
    <2> QED  BY <1>4, <2>1
  <1>7. CASE bptr.avail >= 2 /\ OpenFile
    <2>1. bptr' = Incr(bptr, 1) \/ (bptr' = bptr /\ pc' = "error")
      BY <1>7 DEF OpenFile
    <2>2. CASE bptr' = Incr(bptr, 1)
      <3> DEFINE d == 1
      <3>1. bptr'.buf = Main /\ bptr'.avail = n - d /\ d <= n /\ d \in Nat \ {0}
        BY <1>2, <1>3, <1>7, <2>2 DEF Incr
      <3> HIDE DEF d
      <3> QED  BY <1>5, <3>1
    <2> QED  BY <1>4, <2>1, <2>2
  <1>8. CASE bptr.avail >= 2 /\ OpenDump
    <2>1. win = input.cells
      <3>1. win # <<>>
        BY <1>2, <1>3, <1>8 DEF n
      <3> QED  BY <1>2, <1>8, <3>1 DEF OpenDump
    <2> DEFINE d == IF Newline THEN 3 ELSE 2
    <2>2. d \in {2, 3} /\ (d = 3 => Newline)
      OBVIOUS
    <2>3. d <= n
      <3>1. Newline /\ n = 2 => win[2] \in {<<"nl">>, <<"crc", "good 0a">>}
        BY <1>3 DEF Newline
      <3>2. n = 2 => win[2] \notin {<<"nl">>, <<"crc", "good 0a">>}
        BY <2>1, WindowOK DEF IInv, Footed, n
      <3> HIDE DEF d
      <3>3. d = 3 => n # 2
        BY <2>2, <3>1, <3>2
      <3>4. n \in Nat /\ n >= 2
        BY <1>2, <1>3, <1>8
      <3> QED  BY <2>2, <3>3, <3>4
    <2>4. \/ bptr' = [bptr EXCEPT !.avail = @ - d]
          \/ pc' = "error" /\ bptr' = bptr
      BY <1>8 DEF OpenDump
    <2> HIDE DEF d
    <2>5. CASE bptr' = [bptr EXCEPT !.avail = @ - d]
      <3>1. bptr'.buf = Main /\ bptr'.avail = n - d
        BY <1>3, <2>5
      <3> QED  BY <1>5, <2>2, <2>3, <3>1
    <2> QED  BY <1>4, <2>4, <2>5
  <1> QED  BY <1>6, <1>7, <1>8 DEF Open

(* What was expanded has been read to its end; what it was parked behind   *)
(* is what is left, in the window or behind it.                            *)
LEMMA KeyDoneCounts ==
  ASSUME IInv, IInv', Staged, Staged', RestIs, RestIs', KeyDone
  PROVE  Counts
  <1> DEFINE p == FreeAlloced(bptr)
  <1>1. pc = "keydone" /\ pc' \in {"done", "hdr"} /\ input' = input
    BY DEF KeyDone, Finish
  <1>2. Stage' < Stage
    BY <1>1 DEF Staged
  <1>3. PICK e \in 0 .. Len(win) : /\ ~ input_eof => e = Len(win)
                                   /\ GoodCursor(bptr, heap, e)
    BY SomeEnd
  <1>4. Within(bptr, 0) /\ bptr \in Bufptr /\ Len(heap) \in Nat /\ e \in Nat
    BY <1>1, SomeEnd DEF IInv, PlaceInv
  <1>5. GoodCursor(p, <<>>, e) /\ p.buf \in {Null, Main}
    BY <1>3, <1>4, FreeGood
  <1>6. BlockLeft(bptr) = 0 /\ BlockLeft(p) = 0
    <2> HIDE DEF p
    <2> QED  BY <1>4, <1>5 DEF Within, BlockLeft, GoodCursor, Bufptr
  <1>7. MainLeft(p) = MainLeft(bptr)
    <2>1. CASE bptr.alloced = 0
      BY <2>1 DEF FreeAlloced
    <2>2. CASE bptr.alloced # 0 /\ bptr.avail = 0
      <3>1. p = Popped(Freed(bptr))
        BY <2>2 DEF FreeAlloced
      <3>2. /\ p.buf = bptr.sav /\ p.avail = bptr.sav_avail /\ p.sav_avail = 0
        BY <1>4, <3>1 DEF Popped, Freed, Bufptr
      <3> HIDE DEF p
      <3> QED  BY <1>3, <1>4, <2>2, <3>2 DEF MainLeft, GoodCursor, Bufptr, Null, Main
    <2>3. CASE bptr.alloced # 0 /\ bptr.avail # 0
      <3>1. p = Freed(bptr)
        BY <2>3 DEF FreeAlloced
      <3> QED  BY <1>4, <3>1 DEF MainLeft, Freed, Bufptr
    <2> QED  BY <2>1, <2>2, <2>3
  <1>8. \/ /\ ~ input_eof /\ HalfBehind(p)
           /\ Refill(p)
        \/ bptr' = p /\ rest' = rest
    BY DEF KeyDone
  <1> HIDE DEF p
  <1>9. CASE bptr' = p /\ rest' = rest
    BY <1>2, <1>6, <1>7, <1>9 DEF Counts, Holds, StaysAt
  <1>10. CASE ~ input_eof /\ HalfBehind(p) /\ Refill(p)
    <2>1. p.buf = Main /\ p \in Bufptr /\ p.offset + p.avail = Len(win)
      <3>1. BufSize \in Nat
        BY MainAssumption
      <3>2. p.offset > BufSize \div 2
        BY <1>10 DEF HalfBehind
      <3>3. ~ (0 > BufSize \div 2)
        BY <3>1
      <3>4. p.buf = Null => p.offset = 0
        BY <1>5 DEF GoodCursor
      <3> QED  BY <1>3, <1>5, <1>10, <3>2, <3>3, <3>4 DEF GoodCursor
    <2>2. /\ start_offset' = start_offset + p.offset
          /\ bptr' = [p EXCEPT !.offset = 0, !.avail = Len(win')]
      BY <1>10, Zenon DEF Refill
    <2>3. bptr'.buf = Main /\ bptr'.avail = Len(win')
      BY <2>1, <2>2 DEF Bufptr
    <2>4. MainLeft(bptr) = p.avail /\ p.avail \in Nat /\ p.offset \in Nat
      BY <1>7, <2>1 DEF MainLeft, Bufptr
    <2>5. Len(win') + Len(rest') = p.avail + Len(rest)
      <3>1. /\ Len(rest') \in Nat /\ Len(win') \in Nat /\ start_offset' \in Nat
            /\ start_offset' + Len(win') + Len(rest') = Len(input.cells)
        BY <1>1 DEF RestIs
      <3>2. /\ Len(rest) \in Nat /\ Len(win) \in Nat /\ start_offset \in Nat
            /\ start_offset + Len(win) + Len(rest) = Len(input.cells)
        BY DEF RestIs
      <3>3. p.offset + p.avail = Len(win) /\ start_offset' = start_offset + p.offset
        BY <2>1, <2>2
      <3> DEFINE l == Len(input.cells)
                 w == Len(win')
                 v == Len(rest')
      <3>4. start_offset' + w + v = l /\ w \in Nat /\ v \in Nat
        BY <3>1
      <3>5. start_offset + (p.offset + p.avail) + Len(rest) = l
        BY <3>2, <3>3
      <3> HIDE DEF l, w, v
      <3>6. \A a, b, c, d \in Nat :
              a + (b + c) + d = l /\ (a + b) + w + v = l => w + v = c + d
        BY <3>4
      <3>7. (start_offset + p.offset) + w + v = l
        BY <3>3, <3>4
      <3>8. w + v = p.avail + Len(rest)
        <4>1. start_offset \in Nat /\ p.offset \in Nat /\ p.avail \in Nat /\ Len(rest) \in Nat
          BY <2>4, <3>2
        <4>2. start_offset + (p.offset + p.avail) + Len(rest) = l
              /\ (start_offset + p.offset) + w + v = l
          BY <3>5, <3>7
        <4> DEFINE a == start_offset
                   b == p.offset
                   c == p.avail
                   d == Len(rest)
        <4>3. a \in Nat /\ b \in Nat /\ c \in Nat /\ d \in Nat
              /\ a + (b + c) + d = l /\ (a + b) + w + v = l
          BY <4>1, <4>2
        <4> HIDE DEF a, b, c, d
        <4>4. w + v = c + d
          BY <3>6, <4>3
        <4> QED  BY <4>4 DEF c, d
      <3> QED  BY <3>8 DEF w, v
    <2>6. MainLeft(bptr') + Len(rest') = MainLeft(bptr) + Len(rest) /\ BlockLeft(bptr') = 0
      BY <2>3, <2>4, <2>5 DEF MainLeft, BlockLeft
    <2> QED  BY <1>2, <1>6, <2>6 DEF Counts, Holds, StaysAt
  <1> QED  BY <1>8, <1>9, <1>10

(* The end of the program. *)
LEMMA FinishCounts ==
  ASSUME Staged, Staged', EndOfFile \/ Error
  PROVE  Counts
  <1>1. pc = "error" /\ pc' = "done" /\ bptr' = bptr /\ rest' = rest
    BY DEF EndOfFile, Error, Finish, main_vars
  <1>2. Stage' < Stage
    BY <1>1 DEF Staged
  <1> QED  BY <1>1, <1>2 DEF Counts, Holds, StaysAt

(* Every step. *)
LEMMA DecodeCounts ==
  ASSUME IInv, ItemsInv, Staged, Staged', DecodeStep
  PROVE  Counts
  <1>1. Decode /\ Outside
    BY DEF DecodeStep, Outside
  <1>2. CASE Open \/ (\E k \in Metas : Meta(k)) \/ ModuleAux \/ EofMark \/ KeyType
             \/ KeyHdr \/ StartKey
    BY <1>1, <1>2, OpenCounts, OpcodeCounts, KeyTypeCounts, KeyHdrCounts, StartKeyCounts
  <1>3. CASE HashEntry \/ SetMember \/ ListElem \/ ZSetMember \/ QuickNode
    BY <1>1, <1>3, ElementCounts, QuickCounts
  <1>4. CASE BodyString \/ ZipList \/ ZipMap \/ IntSet \/ Module
    BY <1>1, <1>4, PieceCounts, ModuleCounts
  <1>5. CASE EndLoop \/ EndStream \/ StreamNoName
    BY <1>1, <1>5, LoopEndCounts
  <1>6. CASE StreamBlock \/ StreamInfo \/ StreamPend \/ StreamConsumers \/ StreamConsPend
    BY <1>1, <1>6, StreamReadCounts
  <1>7. CASE StreamGroup \/ StreamCons \/ StreamEntry \/ EndCons \/ EndGroup
    BY <1>1, <1>7, StreamNamedCounts, StreamEntryCounts, StreamEndsCount
  <1> QED  BY <1>1, <1>2, <1>3, <1>4, <1>5, <1>6, <1>7 DEF Decode, DecodeStream

LEMMA StepCounts ==
  IInv /\ ItemsInv /\ (IInv /\ ItemsInv)' /\ [Next]_vars => [Counts]_vars
  <1> SUFFICES ASSUME IInv, ItemsInv, (IInv /\ ItemsInv)', [Next]_vars PROVE [Counts]_vars
    OBVIOUS
  <1>1. Staged /\ Staged'
    BY Stages, NextStages
  <1>2. RestIs /\ RestIs'
    BY RestIsLeft, NextRestIsLeft DEF IInv
  <1>3. CASE DecodeStep
    BY <1>1, <1>3, DecodeCounts
  <1>4. CASE KeyDone
    BY <1>1, <1>2, <1>4, KeyDoneCounts
  <1>5. CASE EndOfFile \/ Error
    BY <1>1, <1>5, FinishCounts
  <1>6. CASE UNCHANGED vars
    BY <1>6
  <1> QED  BY <1>3, <1>4, <1>5, <1>6 DEF Next, Step, Exited

(* Whole or damaged, whatever the counts and lengths in it say, the input  *)
(* is read to its end or refused: every step of decode_hdr(), decode_body()*)
(* and main() reads on or comes nearer to the end of the key.              *)
THEOREM NoStepInVain == Spec => Progress
  <1>1. IInv /\ ItemsInv /\ [Next]_vars => ItemsInv'
    BY StepItems
  <1>2. IInv /\ ItemsInv /\ (IInv /\ ItemsInv)' /\ [Next]_vars => [Counts]_vars
    BY StepCounts
  <1>3. Spec => [][Counts]_vars
    BY <1>1, <1>2, InitItems, Invariance, PTL DEF Spec
  <1> QED  BY <1>3, PTL DEF Progress, Counts, Moves, Holds
-----------------------------------------------------------------------------
(* The calls that are made, and the numbers they carry. *)

Elements == {"d_hash", "d_set", "d_zset", "d_list",
             "d_stream_entry", "d_stream_pend", "d_stream_cons_pend"}

OwnSeq(s) == s \in Seq({s[i] : i \in DOMAIN s})

(* The number that is due to an element reported by c behind the calls s.  *)
Follows(s, c) == IF Last(s)[1] = c THEN Last(s)[2] + 1 ELSE 0

InTurn(s) == \A i \in 2 .. Len(s) :
               s[i][1] \in Elements =>
                 s[i][2] = IF s[i - 1][1] = s[i][1] THEN s[i - 1][2] + 1 ELSE 0

(* Calls that carry no number and announce no key; the last call made      *)
(* carries none.                                                           *)
Loud == Elements \cup {"d_start_type"}
Quiet(t) == OwnSeq(t) /\ \A i \in 1 .. Len(t) : t[i][1] \notin Loud
Resting(s) == Len(s) > 0 /\ Last(s)[1] \notin Elements

(* What has been called stays called.                                      *)
Extends(s, u) == /\ OwnSeq(u) /\ Len(s) <= Len(u)
                 /\ \A i \in 1 .. Len(s) : u[i] = s[i]

(* Numbers are kept by the loops, and not by what has been reported:  that *)
(* they agree while a key is reported is the invariant.                    *)
Loop(type, c) == dec.type = type => loop.num = Follows(evs, c)
Sub(part, count, c) == loop.part = part => /\ "num" \in DOMAIN count
                                           /\ count.num = Follows(evs, c)

CountInv ==
  pc = "body" /\ dec.data =>
    /\ Len(evs) > 0
    /\ Loop("hash", "d_hash") /\ Loop("set", "d_set") /\ Loop("list", "d_list")
    /\ Loop("zset", "d_zset") /\ Loop("zset_2", "d_zset")
    /\ dec.type \in Zipped \cup {"hash_zipmap", "set_intset"} => Resting(evs)
    /\ dec.type \in Streams =>
         /\ loop.part = "blocks" => loop.num = Follows(evs, "d_stream_entry")
         /\ Sub("pend", loop.pend, "d_stream_pend")
         /\ Sub("conp", loop.conp, "d_stream_cons_pend")

(* A key that is being read was announced with its type.                   *)
Announced == pc \in {"len", "start", "body"} =>
               \E i \in 1 .. Len(evs) : /\ evs[i][1] = "d_start_type"
                                        /\ evs[i][3] = <<dec.type>>

(* A quicklist's nodes are the exception: see QuickNode.                   *)
NoQuicklists == \A i \in 1 .. Len(evs) :
                  evs[i][1] = "d_start_type" => evs[i][3] \notin {<<t>> : t \in Quick}

CallsInv == /\ OwnSeq(evs) /\ Announced
            /\ NoQuicklists => InTurn(evs) /\ CountInv

LEMMA OwnLen == ASSUME NEW s, OwnSeq(s) PROVE Len(s) \in Nat
  BY DEF OwnSeq

(* Calls behind calls. *)
LEMMA Joined ==
  ASSUME NEW s, NEW t, OwnSeq(s), OwnSeq(t)
  PROVE  /\ Extends(s, s \o t)
         /\ Len(s \o t) = Len(s) + Len(t) /\ Len(s) \in Nat /\ Len(t) \in Nat
         /\ \A i \in 1 .. Len(s) : (s \o t)[i] = s[i]
         /\ \A i \in 1 .. Len(t) : (s \o t)[Len(s) + i] = t[i]
  <1> DEFINE S == {s[i] : i \in DOMAIN s} \cup {t[i] : i \in DOMAIN t}
             u == s \o t
  <1>1. s \in Seq(S) /\ t \in Seq(S)
    BY DEF OwnSeq
  <1> HIDE DEF S
  <1>2. /\ u \in Seq(S) /\ Len(u) = Len(s) + Len(t)
        /\ \A i \in 1 .. Len(s) + Len(t) : u[i] = IF i <= Len(s) THEN s[i] ELSE t[i - Len(s)]
    BY <1>1, ConcatProperties
  <1>3. Len(s) \in Nat /\ Len(t) \in Nat
    BY <1>1
  <1> HIDE DEF u
  <1>4. OwnSeq(u)
    BY <1>2, SeqOfItsOwn DEF OwnSeq
  <1>5. \A i \in 1 .. Len(s) : u[i] = s[i]
    BY <1>2, <1>3
  <1>6. \A i \in 1 .. Len(t) : u[Len(s) + i] = t[i]
    <2> SUFFICES ASSUME NEW i \in 1 .. Len(t) PROVE u[Len(s) + i] = t[i]
      OBVIOUS
    <2>1. Len(s) + i \in 1 .. Len(s) + Len(t) /\ ~ (Len(s) + i <= Len(s))
          /\ (Len(s) + i) - Len(s) = i
      BY <1>3
    <2> QED  BY <1>2, <2>1
  <1>7. Len(s) <= Len(u)
    BY <1>2, <1>3
  <1> QED  BY <1>2, <1>3, <1>4, <1>5, <1>6, <1>7 DEF u, Extends

(* Numbers go on in turn if the first of them does.                        *)
LEMMA TurnGoesOn ==
  ASSUME NEW s, NEW t, OwnSeq(s), OwnSeq(t), InTurn(s), InTurn(t),
         Len(s) > 0 /\ Len(t) > 0 /\ t[1][1] \in Elements =>
           t[1][2] = Follows(s, t[1][1])
  PROVE  InTurn(s \o t)
  <1> DEFINE u == s \o t
             m == Len(s)
             n == Len(t)
  <1>1. /\ Len(u) = m + n /\ m \in Nat /\ n \in Nat
        /\ \A i \in 1 .. m : u[i] = s[i]
        /\ \A i \in 1 .. n : u[m + i] = t[i]
    BY Joined
  <1> HIDE DEF u
  <1> SUFFICES ASSUME NEW i \in 2 .. m + n, u[i][1] \in Elements
               PROVE  u[i][2] = IF u[i - 1][1] = u[i][1] THEN u[i - 1][2] + 1 ELSE 0
    BY <1>1 DEF InTurn, u
  <1>2. CASE i <= m
    <2>1. i \in 1 .. m /\ i - 1 \in 1 .. m /\ i \in 2 .. m
      BY <1>1, <1>2
    <2>2. u[i] = s[i] /\ u[i - 1] = s[i - 1]
      BY <1>1, <2>1
    <2> QED  BY <2>1, <2>2 DEF InTurn
  <1>3. CASE i = m + 1
    <2>1. m \in 1 .. m /\ 1 \in 1 .. n /\ i - 1 = m /\ m > 0 /\ n > 0
      BY <1>1, <1>3
    <2>2. u[i] = t[1] /\ u[i - 1] = s[m]
      BY <1>1, <1>3, <2>1
    <2> QED  BY <2>1, <2>2 DEF Follows, Last
  <1>4. CASE i > m + 1
    <2> DEFINE j == i - m
    <2>1. j \in 2 .. n /\ j \in 1 .. n /\ j - 1 \in 1 .. n /\ m + j = i /\ m + (j - 1) = i - 1
      BY <1>1, <1>4
    <2> HIDE DEF j
    <2>2. u[i] = t[j] /\ u[i - 1] = t[j - 1]
      BY <1>1, <2>1
    <2> QED  BY <2>1, <2>2 DEF InTurn
  <1>5. i <= m \/ i = m + 1 \/ i > m + 1
    BY <1>1
  <1> QED  BY <1>2, <1>3, <1>4, <1>5

(* Whatever carries no number leaves the others in turn.                   *)
LEMMA SilenceGrows ==
  ASSUME NEW s, NEW t, OwnSeq(s), OwnSeq(t), \A i \in 1 .. Len(t) : t[i][1] \notin Elements
  PROVE  /\ Extends(s, s \o t)
         /\ InTurn(s) => InTurn(s \o t)
         /\ Len(t) > 0 => Resting(s \o t)
         /\ Len(t) = 0 => s \o t = s
  <1>1. OwnSeq(t) /\ \A i \in 1 .. Len(t) : t[i][1] \notin Elements
    OBVIOUS
  <1>2. /\ Extends(s, s \o t)
        /\ Len(s \o t) = Len(s) + Len(t) /\ Len(s) \in Nat /\ Len(t) \in Nat
        /\ \A i \in 1 .. Len(t) : (s \o t)[Len(s) + i] = t[i]
    BY <1>1, Joined
  <1>3. InTurn(t)
    BY <1>1, <1>2 DEF InTurn
  <1>4. InTurn(s) => InTurn(s \o t)
    BY <1>1, <1>2, <1>3, TurnGoesOn
  <1>5. Len(t) > 0 => Resting(s \o t)
    BY <1>1, <1>2 DEF Resting, Last
  <1>6. Len(t) = 0 => s \o t = s
    <2>1. ASSUME Len(t) = 0 PROVE t = <<>>
      BY <1>1, <2>1 DEF OwnSeq
    <2> QED  BY <2>1, ConcatEmptySeq DEF OwnSeq
  <1> QED  BY <1>2, <1>4, <1>5, <1>6

LEMMA QuietGrows ==
  ASSUME NEW s, NEW t, OwnSeq(s), Quiet(t)
  PROVE  /\ Extends(s, s \o t)
         /\ InTurn(s) => InTurn(s \o t)
         /\ Len(t) > 0 => Resting(s \o t)
         /\ Len(t) = 0 => s \o t = s
         /\ s \o t = s \/ (s \o t)[Len(s) + 1][1] # "d_start_type"
  <1>1. OwnSeq(t) /\ \A i \in 1 .. Len(t) : t[i][1] \notin Elements /\ t[i][1] # "d_start_type"
    BY DEF Quiet, Loud
  <1>2. /\ Extends(s, s \o t)
        /\ InTurn(s) => InTurn(s \o t)
        /\ Len(t) > 0 => Resting(s \o t)
        /\ Len(t) = 0 => s \o t = s
    BY <1>1, SilenceGrows
  <1>3. Len(t) \in Nat /\ \A i \in 1 .. Len(t) : (s \o t)[Len(s) + i] = t[i]
    BY <1>1, Joined
  <1>4. Len(t) > 0 => (s \o t)[Len(s) + 1][1] # "d_start_type"
    BY <1>1, <1>3
  <1> QED  BY <1>2, <1>3, <1>4

(* Pieces of what is called in one step.                                   *)
LEMMA OneQuiet ==
  ASSUME NEW e, e[1] \notin Loud
  PROVE  Quiet(<<e>>) /\ Len(<<e>>) = 1
  <1>1. <<e>> \in Seq({e}) /\ Len(<<e>>) = 1
    OBVIOUS
  <1>2. OwnSeq(<<e>>)
    BY <1>1, SeqOfItsOwn DEF OwnSeq
  <1> QED  BY <1>1, <1>2 DEF Quiet

LEMMA TwoQuiet ==
  ASSUME NEW e, NEW f, e[1] \notin Loud, f[1] \notin Loud
  PROVE  Quiet(<<e, f>>) /\ Len(<<e, f>>) = 2
  <1> DEFINE t == <<e, f>>
  <1>1. t \in Seq({e, f}) /\ Len(t) = 2 /\ t[1] = e /\ t[2] = f
    OBVIOUS
  <1> HIDE DEF t
  <1>2. OwnSeq(t)
    BY <1>1, SeqOfItsOwn DEF OwnSeq
  <1>3. \A i \in 1 .. Len(t) : i = 1 \/ i = 2
    BY <1>1
  <1> QED  BY <1>1, <1>2, <1>3 DEF Quiet, t

LEMMA NoneQuiet == Quiet(<<>>) /\ Len(<<>>) = 0
  BY DEF Quiet, OwnSeq

LEMMA BothQuiet ==
  ASSUME NEW s, NEW t, Quiet(s), Quiet(t)
  PROVE  Quiet(s \o t) /\ Len(s \o t) = Len(s) + Len(t) /\ Len(s) \in Nat /\ Len(t) \in Nat
  <1> DEFINE u == s \o t
             m == Len(s)
             n == Len(t)
  <1>1. OwnSeq(s) /\ OwnSeq(t)
    BY DEF Quiet
  <1>2. /\ Extends(s, u) /\ Len(u) = m + n /\ m \in Nat /\ n \in Nat
        /\ \A i \in 1 .. m : u[i] = s[i]
        /\ \A i \in 1 .. n : u[m + i] = t[i]
    BY <1>1, Joined
  <1> HIDE DEF u
  <1>3. ASSUME NEW i \in 1 .. m + n PROVE u[i][1] \notin Loud
    <2>1. CASE i <= m
      BY <1>2, <2>1 DEF Quiet
    <2>2. CASE i > m
      <3>1. i - m \in 1 .. n /\ m + (i - m) = i
        BY <1>2, <2>2
      <3> QED  BY <1>2, <3>1 DEF Quiet
    <2> QED  BY <1>2, <2>1, <2>2
  <1>4. Quiet(u)
    BY <1>2, <1>3 DEF Quiet, Extends
  <1> QED  BY <1>2, <1>4 DEF u

(* One element, and a list of them numbered from n.                        *)
LEMMA OneElement ==
  ASSUME NEW e
  PROVE  OwnSeq(<<e>>) /\ InTurn(<<e>>) /\ Len(<<e>>) = 1 /\ <<e>>[1] = e
  <1>1. <<e>> \in Seq({e}) /\ Len(<<e>>) = 1 /\ <<e>>[1] = e
    OBVIOUS
  <1>2. OwnSeq(<<e>>)
    BY <1>1, SeqOfItsOwn DEF OwnSeq
  <1> QED  BY <1>1, <1>2 DEF InTurn

LEMMA ElementGrows ==
  ASSUME NEW s, NEW e, OwnSeq(s), Len(s) > 0, InTurn(s), e[2] = Follows(s, e[1])
  PROVE  /\ Extends(s, s \o <<e>>) /\ InTurn(s \o <<e>>)
         /\ Len(s \o <<e>>) > 0 /\ Last(s \o <<e>>) = e
  <1> DEFINE t == <<e>>
  <1>1. OwnSeq(t) /\ InTurn(t) /\ Len(t) = 1 /\ t[1] = e
    BY OneElement
  <1> HIDE DEF t
  <1>2. /\ Extends(s, s \o t)
        /\ Len(s \o t) = Len(s) + Len(t) /\ Len(s) \in Nat
        /\ \A i \in 1 .. Len(t) : (s \o t)[Len(s) + i] = t[i]
    <2>1. OwnSeq(t)
      BY <1>1
    <2> QED  BY <2>1, Joined
  <1>3. InTurn(s \o t)
    BY <1>1, TurnGoesOn
  <1>4. Last(s \o t) = e /\ Len(s \o t) > 0
    BY <1>1, <1>2 DEF Last
  <1> QED  BY <1>2, <1>3, <1>4 DEF t

LEMMA ReportInTurn ==
  ASSUME NEW c, NEW cells, NEW w \in {1, 2}, Len(cells) \in Nat
  PROVE  LET t == Report(c, cells, w, 0)
         IN  /\ OwnSeq(t) /\ InTurn(t)
             /\ Len(t) > 0 => t[1][1] = c /\ t[1][2] = 0
  <1> DEFINE n == Len(cells) \div w
             v == [i \in 1 .. n |-> [j \in 1 .. w |-> <<"str", <<cells[w * (i - 1) + j]>>>>]]
             t == [i \in 1 .. n |-> <<c, 0 + i - 1, v[i]>>]
  <1>1. n \in Nat
    OBVIOUS
  <1>2. Report(c, cells, w, 0) = t
    BY DEF Report
  <1> HIDE DEF n, v
  <1>3. Len(t) = n /\ t \in [1 .. n -> {t[i] : i \in 1 .. n}] /\ DOMAIN t = 1 .. n
    BY <1>1
  <1>4. OwnSeq(t)
    BY <1>1, <1>3 DEF OwnSeq
  <1>5. \A i \in 1 .. n : t[i][1] = c /\ t[i][2] = i - 1
    OBVIOUS
  <1> HIDE DEF t
  <1>6. InTurn(t)
    <2> SUFFICES ASSUME NEW i \in 2 .. n
                 PROVE  t[i][2] = IF t[i - 1][1] = t[i][1] THEN t[i - 1][2] + 1 ELSE 0
      BY <1>3 DEF InTurn
    <2>1. i \in 1 .. n /\ i - 1 \in 1 .. n
      BY <1>1
    <2> QED  BY <1>5, <2>1
  <1>7. Len(t) > 0 => t[1][1] = c /\ t[1][2] = 0
    <2>1. Len(t) > 0 => 1 \in 1 .. n
      BY <1>1, <1>3
    <2>2. 1 \in 1 .. n => t[1][1] = c /\ t[1][2] = 1 - 1
      BY <1>5, Zenon
    <2> QED  BY <2>1, <2>2
  <1> QED  BY <1>2, <1>4, <1>6, <1>7
-----------------------------------------------------------------------------
(* What a step calls. *)

LEMMA NothingMore ==
  ASSUME NEW s, OwnSeq(s)
  PROVE  s \o <<>> = s /\ Extends(s, s)
  <1>1. s \o <<>> = s
    BY ConcatEmptySeq DEF OwnSeq
  <1>2. Extends(s, s)
    BY DEF Extends, OwnSeq
  <1> QED  BY <1>1, <1>2

LEMMA CallsAre ==
  ASSUME OwnSeq(evs), NEW r, NEW es, Calls(r, es)
  PROVE  evs' = IF r.rc = "ok" THEN evs \o es ELSE evs
  BY DEF Calls

LEMMA OutIs ==
  ASSUME OwnSeq(evs), NEW r, NEW es, Out(r, es)
  PROVE  evs' = IF dec.data /\ r.rc = "ok" THEN evs \o es ELSE evs
  BY NothingMore DEF Out, Calls

LEMMA OutAfterIs ==
  ASSUME OwnSeq(evs), NEW first, NEW r, NEW es, OutAfter(first, r, es), OwnSeq(first)
  PROVE  evs' = IF dec.data
                THEN IF r.rc = "ok" THEN (evs \o first) \o es ELSE evs \o first
                ELSE evs
  <1>1. OwnSeq(evs \o first)
    BY Joined DEF Extends
  <1>2. (evs \o first) \o <<>> = evs \o first
    BY <1>1, NothingMore
  <1>3. CASE dec.data /\ r.rc = "ok"
    BY <1>3 DEF OutAfter
  <1>4. CASE dec.data /\ r.rc # "ok"
    BY <1>2, <1>4 DEF OutAfter
  <1>5. CASE ~ dec.data
    BY <1>5 DEF OutAfter
  <1> QED  BY <1>3, <1>4, <1>5

(* In a step that goes on with the calls, the numbers stay in turn.        *)
CallsGoOn == /\ Extends(evs, evs')
             /\ InTurn(evs) /\ CountInv => InTurn(evs') /\ CountInv'

(* The call that -r takes the place of the key from is not made.           *)
Untyped == evs' = evs \/ evs'[Len(evs) + 1][1] # "d_start_type"
KeepsTurn == CallsGoOn /\ Untyped

LEMMA UntypedBy ==
  ASSUME OwnSeq(evs), NEW t, OwnSeq(t), evs' = evs \o t,
         Len(t) > 0 => t[1][1] # "d_start_type"
  PROVE  Untyped
  <1>1. Len(t) \in Nat /\ \A i \in 1 .. Len(t) : evs'[Len(evs) + i] = t[i]
    BY Joined
  <1>2. CASE Len(t) > 0
    <2>1. 1 \in 1 .. Len(t)
      BY <1>1, <1>2
    <2>2. evs'[Len(evs) + 1] = t[1]
      BY <1>1, <2>1
    <2> QED  BY <1>2, <2>2 DEF Untyped
  <1>3. CASE Len(t) = 0
    <2>1. t = <<>>
      BY <1>3 DEF OwnSeq
    <2> QED  BY <2>1, NothingMore DEF Untyped
  <1> QED  BY <1>1, <1>2, <1>3

(* Most steps say nothing, or nothing with a number, and read no further   *)
(* element.                                                                *)
LEMMA QuietTurn ==
  ASSUME OwnSeq(evs), NEW t, Quiet(t), evs' = evs \/ evs' = evs \o t,
         pc' # "body"
  PROVE  KeepsTurn
  <1>1. CountInv'
    BY DEF CountInv
  <1>2. Extends(evs, evs') /\ (InTurn(evs) => InTurn(evs')) /\ Untyped
    BY QuietGrows, NothingMore DEF Untyped
  <1> QED  BY <1>1, <1>2 DEF KeepsTurn, CallsGoOn

LEMMA SilentTurn ==
  ASSUME OwnSeq(evs), evs' = evs, pc' # "body"
  PROVE  KeepsTurn
  BY NoneQuiet, QuietTurn

(* The opcodes, the type and the length. *)
LEMMA EndKeyQuiet == Quiet(<<EndKey>>) /\ Len(<<EndKey>>) = 1
  <1>1. EndKey[1] \notin Loud
    BY DEF EndKey, Elements, Loud
  <1> QED  BY <1>1, OneQuiet

LEMMA MetaTurn ==
  ASSUME OwnSeq(evs), NEW k \in Metas, Meta(k)
  PROVE  KeepsTurn
  <1> DEFINE r == Operands(k)
             e == <<k, 0, Reported(k, r.vals)>>
  <1>1. Return(r, "hdr") /\ Out(r, <<e>>)
    BY DEF Meta
  <1>2. e[1] \notin Loud
    BY DEF Metas, Elements, Loud
  <1> HIDE DEF e, r
  <1>3. Quiet(<<e>>)
    BY <1>2, OneQuiet
  <1>4. evs' = evs \/ evs' = evs \o <<e>>
    BY <1>1, OutIs
  <1>5. pc' # "body"
    BY <1>1 DEF Return
  <1> QED  BY <1>3, <1>4, <1>5, QuietTurn

LEMMA HeaderTurn ==
  ASSUME OwnSeq(evs), Open \/ ModuleAux \/ EofMark \/ KeyHdr
  PROVE  KeepsTurn
  <1>1. evs' = evs
    BY DEF Open, ModuleAux, EofMark, KeyHdr
  <1>2. pc' # "body"
    <2>1. CASE Open
      BY <2>1 DEF Open, OpenFile, OpenDump
    <2>2. CASE ModuleAux \/ EofMark \/ KeyHdr
      BY <2>2 DEF ModuleAux, EofMark, KeyHdr, Return
    <2> QED  BY <2>1, <2>2
  <1> QED  BY <1>1, <1>2, SilentTurn

(* The type is announced before the key is read. *)
LEMMA KeyTypeTurn ==
  ASSUME IInv, OwnSeq(evs), KeyType
  PROVE  /\ CallsGoOn
         /\ pc' # "error" => evs' = evs \o <<<<"d_start_type", 0, <<dec'.type>>>>>>
         /\ pc' \in {"len", "error"}
  <1> DEFINE r == Start(NoSize)
             t == get_rdb_type(IF bptr.avail > 0 THEN Here(r) ELSE NoSize)
             s == CASE bptr.avail = 0 -> Failed(r, "trunc")
                    [] bptr.avail > 0 /\ t = "bad" -> Failed(r, "type")
                    [] bptr.avail > 0 /\ t # "bad" -> Skip(r, 1)
             e == <<"d_start_type", 0, <<t>>>>
  <1>1. Return(s, "len") /\ Calls(s, <<e>>) /\ dec' = [dec EXCEPT !.type = t]
    BY DEF KeyType
  <1>2. e[1] \notin Elements
    BY DEF Elements
  <1> HIDE DEF s, t
  <1>3. OwnSeq(<<e>>) /\ \A i \in 1 .. Len(<<e>>) : <<e>>[i][1] \notin Elements
    <2> DEFINE u == <<e>>
    <2>1. OwnSeq(u) /\ Len(u) = 1 /\ u[1] = e
      BY OneElement
    <2> HIDE DEF u, e
    <2>2. \A i \in 1 .. Len(u) : i = 1
      BY <2>1
    <2> QED  BY <1>2, <2>1, <2>2 DEF u
  <1>4. evs' = IF s.rc = "ok" THEN evs \o <<e>> ELSE evs
    BY <1>1, CallsAre
  <1>5. pc' = IF s.rc = "ok" THEN "len" ELSE "error"
    BY <1>1 DEF Return
  <1>6. CallsGoOn
    <2>1. Extends(evs, evs') /\ (InTurn(evs) => InTurn(evs'))
      <3> HIDE DEF e
      <3> QED  BY <1>3, <1>4, SilenceGrows, NothingMore
    <2>2. CountInv'
      BY <1>5 DEF CountInv
    <2> QED  BY <2>1, <2>2 DEF CallsGoOn
  <1>7. dec'.type = t
    BY <1>1 DEF IInv, DecOK
  <1> QED  BY <1>4, <1>5, <1>6, <1>7
-----------------------------------------------------------------------------
(* The loops over the elements of a key. *)

LEMMA RestingFollows ==
  ASSUME NEW s, NEW c \in Elements, Resting(s)
  PROVE  Follows(s, c) = 0
  BY DEF Resting, Follows

(* Every loop begins to count behind d_start_key(). *)
LEMMA FirstCount ==
  ASSUME Resting(evs)', loop'.num = 0, loop'.part = "blocks"
  PROVE  CountInv'
  <1>1. \A c \in Elements : Follows(evs', c) = 0
    BY RestingFollows
  <1>2. Len(evs') > 0
    BY DEF Resting
  <1>3. /\ Follows(evs', "d_hash") = 0 /\ Follows(evs', "d_set") = 0
        /\ Follows(evs', "d_list") = 0 /\ Follows(evs', "d_zset") = 0
        /\ Follows(evs', "d_stream_entry") = 0
    BY <1>1 DEF Elements
  <1>4. \A type, c : Follows(evs', c) = 0 => Loop(type, c)'
    BY DEF Loop
  <1>5. ~ (loop'.part \in {"pend", "conp"})
    OBVIOUS
  <1> QED  BY <1>2, <1>3, <1>4, <1>5, Zenon DEF CountInv, Sub

LEMMA StartKeyTurn ==
  ASSUME IInv, OwnSeq(evs), StartKey
  PROVE  KeepsTurn /\ dec'.type = dec.type /\ pc = "start"
  <1> DEFINE r == IF dec.type \in Modules /\ dec.rlen[1] # "len"
                  THEN Failed(Start(dec.rlen), "hdr") ELSE Start(dec.rlen)
             match == match_key(dec.filter, dec.key)
             e == <<"d_start_key", 0, <<dec.key>>>>
             t == IF match THEN <<e>> ELSE <<>>
  <1>1. /\ pc = "start" /\ Return(r, "body") /\ Calls(r, t)
        /\ dec' = IF r.rc = "ok" THEN [dec EXCEPT !.data = match] ELSE dec
        /\ loop' = NewLoop(LenOf(dec.rlen))
    BY DEF StartKey
  <1>2. e[1] \notin Loud
    BY DEF Elements, Loud
  <1> HIDE DEF r, match, e
  <1>3. Quiet(t)
    BY <1>2, OneQuiet, NoneQuiet
  <1>4. evs' = IF r.rc = "ok" THEN evs \o t ELSE evs
    <2>1. Calls(r, t)
      BY <1>1
    <2> HIDE DEF t
    <2> QED  BY <2>1, CallsAre
  <1>5. pc' = IF r.rc = "ok" THEN "body" ELSE "error"
    BY <1>1 DEF Return
  <1>6. Extends(evs, evs') /\ (InTurn(evs) => InTurn(evs')) /\ Untyped
    <2> HIDE DEF t
    <2> QED  BY <1>3, <1>4, QuietGrows, NothingMore DEF Untyped
  <1>7. CountInv'
    <2> SUFFICES ASSUME pc' = "body", dec'.data PROVE CountInv'
      BY DEF CountInv
    <2>1. r.rc = "ok" /\ match
      BY <1>1, <1>5 DEF IInv, DecOK
    <2>2. evs' = evs \o <<e>>
      BY <1>4, <2>1
    <2>3. Resting(evs \o <<e>>)
      BY <1>2, OneQuiet, QuietGrows
    <2>4. Resting(evs)'
      BY <2>2, <2>3
    <2>5. loop'.num = 0 /\ loop'.part = "blocks"
      BY <1>1 DEF NewLoop
    <2> QED  BY <2>4, <2>5, FirstCount
  <1>8. dec'.type = dec.type
    BY <1>1 DEF IInv, DecOK
  <1> QED  BY <1>1, <1>6, <1>7, <1>8 DEF KeepsTurn, CallsGoOn

Callers == {<<"hash", "d_hash">>, <<"set", "d_set">>, <<"list", "d_list">>,
            <<"zset", "d_zset">>, <<"zset_2", "d_zset">>}

LEMMA ElementTurn ==
  ASSUME IInv, OwnSeq(evs), pc = "body", NEW r, NEW c, NEW v, NEW type,
         dec.type = type, <<type, c>> \in Callers,
         Return(r, "body"), Out(r, <<<<c, loop.num, v>>>>), dec' = dec,
         loop' = [loop EXCEPT !.cnt = @ - 1, !.num = @ + 1]
  PROVE  KeepsTurn
  <1> DEFINE e == <<c, loop.num, v>>
  <1>1. evs' = IF dec.data /\ r.rc = "ok" THEN evs \o <<e>> ELSE evs
    BY OutIs
  <1>2. pc' = IF r.rc = "ok" THEN "body" ELSE "error"
    BY DEF Return
  <1>3. loop'.num = loop.num + 1
    BY DEF IInv, LoopOK
  <1>4. CASE dec.data /\ r.rc = "ok"
    <2>1. evs' = evs \o <<e>>
      BY <1>1, <1>4
    <2>a. Untyped
      <3>1. e[1] = c /\ c # "d_start_type"
        BY DEF Callers
      <3> HIDE DEF e
      <3>2. OwnSeq(<<e>>) /\ <<e>>[1] = e
        BY OneElement
      <3> QED  BY <2>1, <3>1, <3>2, UntypedBy
    <2>2. Extends(evs, evs')
      BY <2>1, OneElement, Joined
    <2>3. ASSUME InTurn(evs), CountInv PROVE InTurn(evs') /\ CountInv'
      <3>1. Len(evs) > 0 /\ loop.num = Follows(evs, c)
        BY <1>4, <2>3 DEF CountInv, Loop, Callers
      <3>2. e[1] = c /\ e[2] = loop.num
        OBVIOUS
      <3> HIDE DEF e
      <3>3. /\ InTurn(evs \o <<e>>)
            /\ Len(evs \o <<e>>) > 0 /\ Last(evs \o <<e>>) = e
        BY <2>3, <3>1, <3>2, ElementGrows
      <3>4. Len(evs') > 0 /\ Follows(evs', c) = loop'.num
        BY <1>3, <2>1, <3>2, <3>3 DEF Follows
      <3>5. dec.type \notin Zipped \cup {"hash_zipmap", "set_intset"} \cup Streams
        BY DEF Callers, Zipped, Streams
      <3>6. CountInv'
        BY <3>4, <3>5 DEF CountInv, Loop, Callers
      <3> QED  BY <2>1, <3>3, <3>6
    <2> QED  BY <2>a, <2>2, <2>3 DEF KeepsTurn, CallsGoOn
  <1>5. CASE ~ (dec.data /\ r.rc = "ok")
    <2>1. evs' = evs /\ (pc' # "body" \/ ~ dec'.data)
      BY <1>1, <1>2, <1>5
    <2>2. CountInv'
      BY <2>1 DEF CountInv
    <2> QED  BY <2>1, <2>2, NothingMore DEF KeepsTurn, CallsGoOn, Untyped
  <1> QED  BY <1>4, <1>5

LEMMA ElementsTurn ==
  ASSUME IInv, OwnSeq(evs), HashEntry \/ SetMember \/ ListElem \/ ZSetMember
  PROVE  KeepsTurn /\ dec' = dec /\ pc = "body"
  <1> DEFINE s == Start(NoSize)
             Goes(c, r) == /\ <<dec.type, c>> \in Callers
                           /\ Return(r, "body") /\ Out(r, <<<<c, loop.num, r.vals>>>>)
  <1>1. /\ pc = "body" /\ dec' = dec
        /\ loop' = [loop EXCEPT !.cnt = @ - 1, !.num = @ + 1]
    BY DEF HashEntry, SetMember, ListElem, ZSetMember, Element, Body
  <1>2. \/ Goes("d_hash", decode_rlen(decode_rlen(s)))
        \/ Goes("d_set", decode_rlen(s)) \/ Goes("d_list", decode_rlen(s))
        \/ Goes("d_zset", Score(decode_rlen(s)))
    BY DEF HashEntry, SetMember, ListElem, ZSetMember, Element, Body, Callers
  <1>3. ASSUME NEW c, NEW r, Goes(c, r) PROVE KeepsTurn
    BY <1>1, <1>3, ElementTurn
  <1> HIDE DEF s
  <1> QED  BY <1>1, <1>2, <1>3
(* A packed list is reported whole. *)
LEMMA AppendIs ==
  ASSUME NEW s, NEW e, OwnSeq(s)
  PROVE  Append(s, e) = s \o <<e>> /\ OwnSeq(Append(s, e))
  <1> DEFINE S == {s[i] : i \in DOMAIN s} \cup {e}
             u == Append(s, e)
  <1>1. s \in Seq(S) /\ e \in S
    BY DEF OwnSeq
  <1> HIDE DEF S
  <1>2. u = s \o <<e>> /\ u \in Seq(S)
    <2>1. u = s \o <<e>>
      BY <1>1, AppendIsConcat
    <2>2. u \in Seq(S)
      BY <1>1, AppendProperties
    <2> QED  BY <2>1, <2>2
  <1> HIDE DEF u
  <1>3. OwnSeq(u)
    <2>1. u \in Seq(S)
      BY <1>2
    <2> QED  BY <2>1, SeqOfItsOwn DEF OwnSeq
  <1> QED  BY <1>2, <1>3 DEF u

LEMMA Regrouped ==
  ASSUME NEW s, NEW t, NEW u, OwnSeq(s), OwnSeq(t), OwnSeq(u)
  PROVE  s \o (t \o u) = (s \o t) \o u
  <1> DEFINE S == {s[i] : i \in DOMAIN s} \cup {t[i] : i \in DOMAIN t}
                    \cup {u[i] : i \in DOMAIN u}
  <1>1. s \in Seq(S) /\ t \in Seq(S) /\ u \in Seq(S)
    BY DEF OwnSeq
  <1> HIDE DEF S
  <1> QED  BY <1>1, ConcatAssociative

(* What is reported of a list of a key that is being read is in turn, and  *)
(* so is the end of the key behind it.                                     *)
LEMMA ReportTurn ==
  ASSUME IInv, OwnSeq(evs), pc = "body", pc' # "body", dec.data,
         dec.type \in Zipped \cup {"hash_zipmap", "set_intset"},
         NEW c \in Elements, NEW cells, NEW w \in {1, 2}, Len(cells) \in Nat,
         NEW t, t = Report(c, cells, w, 0),
         evs' = evs \o t \/ evs' = evs \o (t \o <<EndKey>>)
  PROVE  KeepsTurn
  <1> DEFINE es == t \o <<EndKey>>
  <1>1. OwnSeq(t) /\ InTurn(t) /\ (Len(t) > 0 => t[1][1] = c /\ t[1][2] = 0)
    BY ReportInTurn
  <1>2. Quiet(<<EndKey>>) /\ OwnSeq(<<EndKey>>)
    BY EndKeyQuiet DEF Quiet
  <1>3. OwnSeq(es)
    BY <1>1, AppendIs
  <1>4. CountInv'
    BY DEF CountInv
  <1>5. ASSUME InTurn(evs), CountInv PROVE InTurn(evs \o t) /\ OwnSeq(evs \o t)
    <2>1. Resting(evs)
      BY <1>5 DEF CountInv
    <2>2. Len(t) > 0 /\ t[1][1] \in Elements => t[1][2] = Follows(evs, t[1][1])
      BY <1>1, <2>1, RestingFollows
    <2> QED  BY <1>1, <1>5, <2>2, TurnGoesOn, Joined DEF Extends
  <1>6. c # "d_start_type"
    BY DEF Elements
  <1>7. CASE evs' = evs \o t
    <2>1. Extends(evs, evs')
      BY <1>1, <1>7, Joined
    <2>2. Untyped
      BY <1>1, <1>6, <1>7, UntypedBy
    <2> QED  BY <1>4, <1>5, <1>7, <2>1, <2>2 DEF KeepsTurn, CallsGoOn
  <1>8. CASE evs' = evs \o es
    <2>1. Extends(evs, evs')
      BY <1>3, <1>8, Joined
    <2>2. evs' = (evs \o t) \o <<EndKey>>
      BY <1>1, <1>2, <1>8, Regrouped
    <2>3. InTurn(evs) /\ CountInv => InTurn(evs')
      BY <1>2, <1>5, <2>2, QuietGrows
    <2>4. Untyped
      <3> DEFINE k == <<EndKey>>
      <3>1. Len(k) = 1 /\ k[1] = EndKey /\ EndKey[1] # "d_start_type"
        BY DEF EndKey
      <3> HIDE DEF k
      <3>2. /\ Len(t) \in Nat
            /\ \A i \in 1 .. Len(t) : (t \o k)[i] = t[i]
            /\ \A i \in 1 .. Len(k) : (t \o k)[Len(t) + i] = k[i]
        BY <1>1, <1>2, Joined DEF k
      <3>3. CASE Len(t) > 0
        <4>1. es[1] = t[1]
          BY <3>2, <3>3 DEF k
        <4> QED  BY <1>1, <1>3, <1>6, <1>8, <3>3, <4>1, UntypedBy
      <3>4. CASE Len(t) = 0
        <4>1. 1 \in 1 .. Len(k) /\ Len(t) + 1 = 1
          BY <3>1, <3>4
        <4>2. (t \o k)[Len(t) + 1] = k[1]
          BY <3>2, <4>1
        <4>3. es[1] = EndKey
          BY <3>1, <4>1, <4>2 DEF k
        <4> QED  BY <1>3, <1>8, <3>1, <4>3, UntypedBy
      <3> QED  BY <3>2, <3>3, <3>4
    <2> QED  BY <1>4, <2>1, <2>3, <2>4 DEF KeepsTurn, CallsGoOn
  <1> QED  BY <1>7, <1>8

LEMMA PackedTurn ==
  ASSUME IInv, OwnSeq(evs), pc = "body", NEW r, NEW c \in Elements, NEW cells, NEW w \in {1, 2},
         dec.type \in Zipped \cup {"hash_zipmap", "set_intset"},
         r.rc = "ok" => Len(cells) \in Nat,
         Packed(r, c, cells, w)
  PROVE  KeepsTurn
  <1> DEFINE t == Report(c, cells, w, 0)
             es == Append(t, EndKey)
  <1>1. Return(r, "keydone") /\ Out(r, es)
    BY DEF Packed
  <1> HIDE DEF es
  <1>2. evs' = IF dec.data /\ r.rc = "ok" THEN evs \o es ELSE evs
    BY <1>1, OutIs
  <1>3. pc' # "body"
    BY <1>1 DEF Return
  <1>4. CASE dec.data /\ r.rc = "ok"
    <2>1. OwnSeq(t)
      BY <1>4, ReportInTurn
    <2> HIDE DEF t
    <2>2. es = t \o <<EndKey>>
      BY <2>1, AppendIs DEF es
    <2> QED  BY <1>2, <1>3, <1>4, <2>2, ReportTurn DEF t
  <1>5. CASE ~ (dec.data /\ r.rc = "ok")
    BY <1>2, <1>3, <1>5, SilentTurn
  <1> QED  BY <1>4, <1>5
(* Its elements are counted: it has been read as a string, of which a list *)
(* has the cells behind its header, and a map has its whole pairs.         *)
LEMMA TailLen ==
  ASSUME NEW S, NEW x \in Seq(S), init(x)
  PROVE  Len(Tail(x)) \in Nat
  BY DEF init

LEMMA WholeLen ==
  ASSUME NEW S, NEW x \in Seq(S)
  PROVE  Len(WholePairs(x)) \in Nat
  <1> DEFINE body == SubSeq(x, 2, Len(x))
             good == {n \in 0 .. Len(body) :
                        \A i \in 1 .. n : body[i] \notin {<<"end">>, <<"far">>}}
             most == CHOOSE n \in good : \A m \in good : m <= n
             k == 2 * (most \div 2)
  <1>1. WholePairs(x) = SubSeq(body, 1, k)
    BY DEF WholePairs
  <1>2. Len(x) \in Nat /\ \A i \in 2 .. Len(x) : x[i] \in S
    OBVIOUS
  <1>3. body \in Seq(S) /\ Len(body) \in Nat
    <2>1. body \in Seq(S)
      BY <1>2, SubSeqProperties
    <2> HIDE DEF body
    <2> QED  BY <2>1
  <1> HIDE DEF body
  <1>4. good \subseteq 0 .. Len(body) /\ 0 \in good
    BY <1>3
  <1> HIDE DEF good
  <1>5. \E n \in good : \A m \in good : m <= n
    <2> DEFINE L == Len(body)
               R == {L - n : n \in good}
    <2>1. R \in SUBSET Nat /\ R # {}
      BY <1>3, <1>4
    <2> HIDE DEF R
    <2>2. PICK l \in R : \A m \in R : l <= m
      BY <2>1, LeastOf
    <2>3. PICK n \in good : l = L - n
      BY <2>2 DEF R
    <2>4. \A m \in good : l <= L - m
      BY <2>2 DEF R
    <2>5. \A m \in good : m <= n
      BY <1>3, <1>4, <2>3, <2>4
    <2> QED  BY <2>5
  <1>6. most \in good
    BY <1>5
  <1> HIDE DEF most
  <1>7. most \in Nat /\ most <= Len(body)
    BY <1>3, <1>4, <1>6
  <1>8. k \in Nat /\ k <= Len(body)
    BY <1>3, <1>7
  <1> HIDE DEF k
  <1>9. Len(SubSeq(body, 1, k)) = IF 1 <= k THEN k - 1 + 1 ELSE 0
    <2>1. \A i \in 1 .. k : body[i] \in S
      BY <1>3, <1>8
    <2> QED  BY <1>8, <2>1, SubSeqProperties
  <1> QED  BY <1>1, <1>8, <1>9

LEMMA DataSeq ==
  ASSUME NEW r, Good(r), WellFormed(win), r.vals = <<>>, LenOf(r.len) \in Nat,
         Data(r).rc = "ok"
  PROVE  LET x == Data(r).vals[1][2]
         IN  x \in Seq({x[i] : i \in DOMAIN x})
  <1>1. PICK e \in 0 .. Len(win) : /\ e \in Nat /\ Core(r, e, 0)
                                   /\ r.p.avail \in Nat
                                   /\ Ready(r, e, r.p.avail, 0)
    BY GoodIs
  <1>2. Within(r.p, r.p.avail)
    BY <1>1 DEF Ready
  <1> DEFINE d == Data(r)
  <1>3. OneMore(r, d)
    BY <1>1, <1>2, DataKeeps
  <1> HIDE DEF d
  <1>4. PICK x : x \in Seq({x[i] : i \in DOMAIN x}) /\ d.vals = Append(r.vals, <<"str", x>>)
    BY <1>3, Zenon DEF OneMore
  <1>5. d.vals[1][2] = x
    BY <1>4
  <1> QED  BY <1>4, <1>5 DEF d

LEMMA IntsLen ==
  ASSUME NEW r, Good(r), WellFormed(win), r.vals = <<>>, r.rc = "ok",
         Ints(Field(r)).rc = "ok"
  PROVE  Len(Ints(Field(r)).vals[2][2]) \in Nat
  <1> DEFINE q == Field(r)
             c == Here(r)
             k == c[2]
             s == Take(q, k)
             n == r.p.avail
  <1>1. PICK e \in 0 .. Len(win) : e \in Nat /\ n \in Nat /\ Ready(r, e, n, 0)
    BY GoodIs
  <1>2. q = Fixed(r)
    BY FieldIs
  <1>3. /\ Ready(q, e, n, 0)
        /\ q.rc = "ok" => CellOK(c) /\ q.vals = Append(r.vals, c)
    BY <1>1, <1>2, FixedKeeps
  <1> HIDE DEF q, n
  <1>4. q.rc = "ok" /\ (q.vals[1][1] = "ints" => Ints(q) = Take(q, q.vals[1][2]))
        /\ (q.vals[1][1] # "ints" => Ints(q) = Failed(q, "notsup"))
    BY IntsIs DEF q
  <1>5. q.vals = Append(<<>>, c) /\ CellOK(c) /\ q.vals[1] = c
    BY <1>3, <1>4
  <1>6. c[1] = "ints"
    <2>1. Core(q, e, 0)
      BY <1>3 DEF Ready
    <2>2. Failed(q, "notsup").rc = "notsup"
      BY <2>1, FailedKeeps DEF Codes
    <2> QED  BY <1>4, <1>5, <2>2 DEF q
  <1>7. k \in Nat /\ Ints(q) = s
    BY <1>4, <1>5, <1>6 DEF CellOK
  <1>8. s.rc = "ok"
    BY <1>7 DEF q
  <1>9. OneMore(q, s)
    <2>1. Core(q, e, 0) /\ Within(q.p, n)
      BY <1>3 DEF Ready
    <2> HIDE DEF k
    <2> QED  BY <1>1, <1>7, <1>8, <2>1, TakeAdds
  <1> HIDE DEF s
  <1>10. PICK x : x \in Seq({x[i] : i \in DOMAIN x}) /\ s.vals = Append(q.vals, <<"str", x>>)
    BY <1>9, Zenon DEF OneMore
  <1>11. s.vals[2][2] = x
    BY <1>5, <1>10
  <1>12. Len(x) \in Nat
    BY <1>10
  <1> QED  BY <1>7, <1>11, <1>12 DEF q

LEMMA PiecesTurn ==
  ASSUME IInv, OwnSeq(evs), BodyString \/ ZipList \/ ZipMap \/ IntSet
  PROVE  KeepsTurn /\ dec' = dec /\ pc = "body"
  <1> DEFINE s == Start(dec.rlen)
             d == Data(s)
             i == Ints(Field(s))
             x == d.vals[1][2]
  <1>1. /\ pc = "body" /\ dec' = dec
        /\ dec.type \notin {"string"} => dec.type \in Zipped \cup {"hash_zipmap", "set_intset"}
    BY DEF BodyString, ZipList, ZipMap, IntSet, Body
  <1>2. Good(s) /\ WellFormed(win) /\ s.vals = <<>> /\ s.rc = "ok" /\ LenOf(s.len) \in Nat
    BY <1>1, StartGood DEF IInv, DecOK, IsSize
  <1> HIDE DEF s
  <1>3. d.rc = "ok" => x \in Seq({x[j] : j \in DOMAIN x})
    BY <1>2, DataSeq
  <1>4. i.rc = "ok" => Len(i.vals[2][2]) \in Nat
    BY <1>2, IntsLen
  <1> HIDE DEF d, x, i
  <1>5. CASE BodyString
    <2> DEFINE r == decode_str(s)
               e == <<"d_string", 0, r.vals>>
    <2>1. Return(r, "keydone") /\ Out(r, <<e, EndKey>>)
      BY <1>5 DEF BodyString, s
    <2>2. e[1] \notin Loud /\ EndKey[1] \notin Loud
      BY DEF Elements, Loud, EndKey
    <2> HIDE DEF r, e
    <2>3. Quiet(<<e, EndKey>>)
      BY <2>2, TwoQuiet
    <2>4. evs' = evs \/ evs' = evs \o <<e, EndKey>>
      BY <2>1, OutIs
    <2>5. pc' # "body"
      BY <2>1 DEF Return
    <2> QED  BY <1>1, <2>3, <2>4, <2>5, QuietTurn
  <1>6. CASE ZipList
    <2> DEFINE w == IF ZipCall = "d_list" THEN 1 ELSE 2
               r == Listed(d)
               y == Tail(r.vals[1][2])
    <2>1. Packed(r, ZipCall, y, w) /\ dec.type \in Zipped
      BY <1>6 DEF ZipList, Body, d, s
    <2>2. w \in {1, 2} /\ ZipCall \in Elements
      BY <2>1 DEF ZipCall, Zipped, Elements
    <2> HIDE DEF w, y, r
    <2>3. ASSUME r.rc = "ok" PROVE Len(y) \in Nat
      <3>1. r = d /\ init(x) /\ d.rc = "ok"
        <4>1. Good(d)
          BY <1>2, DataOn DEF On, d
        <4>2. Failed(d, "trunc").rc # "ok"
          BY <4>1, FailedKeeps DEF Good, Codes
        <4>3. r = IF d.rc = "ok" /\ ~ init(x) THEN Failed(d, "trunc") ELSE d
          BY ListedIs DEF r, x
        <4> QED  BY <2>3, <4>2, <4>3
      <3>2. y = Tail(x)
        BY <3>1 DEF x, y
      <3> QED  BY <1>3, <3>1, <3>2, TailLen
    <2> QED  BY <1>1, <2>1, <2>2, <2>3, PackedTurn
  <1>7. CASE ZipMap
    <2> DEFINE map == IF d.rc = "ok" THEN x ELSE <<>>
               r == IF Closed(map) THEN d ELSE Failed(d, "trunc")
               y == WholePairs(map)
               t == Report("d_hash", y, 2, 0)
               k == <<EndKey>>
    <2>1. Return(r, "keydone") /\ OutAfter(t, r, k) /\ dec.type \in {"hash_zipmap"}
      BY <1>7 DEF ZipMap, Body, d, x, s
    <2>2. map \in Seq({map[j] : j \in DOMAIN map})
      BY <1>3
    <2> HIDE DEF map
    <2>3. Len(y) \in Nat
      BY <2>2, WholeLen
    <2> HIDE DEF y, r
    <2>4. OwnSeq(t)
      BY <2>3, ReportInTurn DEF Elements
    <2>5. pc' # "body"
      BY <2>1 DEF Return
    <2> HIDE DEF t
    <2>6. OwnSeq(k)
      BY EndKeyQuiet DEF Quiet
    <2> HIDE DEF k
    <2>7. evs' = IF dec.data
                 THEN IF r.rc = "ok" THEN (evs \o t) \o k ELSE evs \o t
                 ELSE evs
      BY <2>1, <2>4, OutAfterIs
    <2>8. (evs \o t) \o k = evs \o (t \o k)
      BY <2>4, <2>6, Regrouped
    <2>9. CASE dec.data
      <3>1. evs' = evs \o t \/ evs' = evs \o (t \o k)
        BY <2>7, <2>8, <2>9
      <3>2. "d_hash" \in Elements /\ 2 \in {1, 2}
        BY DEF Elements
      <3>3. KeepsTurn
        BY <1>1, <2>1, <2>3, <2>5, <2>9, <3>1, <3>2, ReportTurn DEF t, k
      <3> QED  BY <1>1, <3>3
    <2>10. CASE ~ dec.data
      BY <1>1, <2>5, <2>7, <2>10, SilentTurn
    <2> QED  BY <2>9, <2>10
  <1>8. CASE IntSet
    <2> DEFINE y == i.vals[2][2]
    <2>1. Packed(i, "d_set", y, 1) /\ dec.type \in {"set_intset"}
      BY <1>8 DEF IntSet, Body, i, s
    <2>2. (i.rc = "ok" => Len(y) \in Nat) /\ "d_set" \in Elements
      BY <1>4 DEF Elements
    <2> HIDE DEF y
    <2> QED  BY <1>1, <2>1, <2>2, PackedTurn
  <1> QED  BY <1>5, <1>6, <1>7, <1>8
LEMMA QuietOut ==
  ASSUME OwnSeq(evs), NEW r, NEW t, Quiet(t), Out(r, t), NEW to, Return(r, to)
  PROVE  /\ Extends(evs, evs') /\ (InTurn(evs) => InTurn(evs')) /\ Untyped
         /\ pc' = IF r.rc = "ok" THEN to ELSE "error"
         /\ dec.data /\ r.rc = "ok" /\ Len(t) > 0 => Resting(evs')
         /\ pc' # "body" => KeepsTurn
  <1>1. evs' = IF dec.data /\ r.rc = "ok" THEN evs \o t ELSE evs
    BY OutIs
  <1>2. Extends(evs, evs') /\ (InTurn(evs) => InTurn(evs')) /\ Untyped
    BY <1>1, QuietGrows, NothingMore DEF Untyped
  <1>3. dec.data /\ r.rc = "ok" /\ Len(t) > 0 => Resting(evs')
    BY <1>1, QuietGrows
  <1>4. pc' = IF r.rc = "ok" THEN to ELSE "error"
    BY DEF Return
  <1>5. pc' # "body" => KeepsTurn
    BY <1>2 DEF KeepsTurn, CallsGoOn, CountInv
  <1> QED  BY <1>2, <1>3, <1>4, <1>5

LEMMA SomeQuiet ==
  ASSUME NEW part, NEW some
  PROVE  Quiet(Opens(part, some)) /\ Quiet(Closes(part, some))
  <1> DEFINE e == <<"d_stream_start", 0, <<part>>>>
             f == <<"d_stream_end", 0, <<part>>>>
  <1>1. e[1] \notin Loud /\ f[1] \notin Loud
    BY DEF Elements, Loud
  <1>2. Opens(part, some) \in {<<e>>, <<>>} /\ Closes(part, some) \in {<<f>>, <<>>}
    BY DEF Opens, Closes
  <1> HIDE DEF e, f
  <1> QED  BY <1>1, <1>2, OneQuiet, NoneQuiet

(* The end of a key. *)
LEMMA EndsTurn ==
  ASSUME OwnSeq(evs), EndLoop \/ EndStream \/ StreamNoName \/ Module
  PROVE  KeepsTurn /\ dec' = dec /\ pc = "body"
  <1>1. dec' = dec /\ pc = "body"
    BY DEF EndLoop, EndStream, StreamNoName, Module, Part, Body
  <1>2. CASE StreamNoName
    BY <1>1, <1>2, SilentTurn DEF StreamNoName, Return
  <1>3. CASE EndLoop
    <2> DEFINE r == Start(NoSize)
    <2>1. Return(r, "keydone") /\ Out(r, <<EndKey>>)
      BY <1>3 DEF EndLoop
    <2>2. pc' # "body"
      BY <2>1 DEF Return
    <2> HIDE DEF r
    <2> QED  BY <1>1, <2>1, <2>2, EndKeyQuiet, QuietOut
  <1>4. CASE Module
    <2> DEFINE s == Start(dec.rlen)
               e == <<"d_module", 0, <<LenOf(dec.rlen)>>>>
               ends == {n \in 1 .. bptr.avail : Bytes(s)[bptr.offset + n] = <<"zero">>}
               skip == IF ends = {} THEN bptr.avail
                       ELSE CHOOSE n \in ends : \A m \in ends : n <= m
    <2>1. Return(Skip(s, skip), "keydone") /\ Out(s, <<e, EndKey>>)
      BY <1>4 DEF Module
    <2> HIDE DEF s, skip
    <2>2. e[1] \notin Loud /\ EndKey[1] \notin Loud
      BY DEF Elements, Loud, EndKey
    <2> HIDE DEF e
    <2>3. Quiet(<<e, EndKey>>)
      BY <2>2, TwoQuiet
    <2>4. evs' = evs \/ evs' = evs \o <<e, EndKey>>
      BY <2>1, OutIs
    <2>5. pc' # "body"
      BY <2>1 DEF Return
    <2> QED  BY <1>1, <2>3, <2>4, <2>5, QuietTurn
  <1>5. CASE EndStream
    <2> DEFINE r == Start(NoSize)
               c == Closes("group_list", loop.group.cnt # 0)
    <2>1. Return(r, "keydone") /\ Out(r, Append(c, EndKey))
      BY <1>5 DEF EndStream
    <2>2. pc' # "body"
      BY <2>1 DEF Return
    <2>3. Quiet(c)
      BY SomeQuiet
    <2> HIDE DEF r, c
    <2>4. Append(c, EndKey) = c \o <<EndKey>>
      BY <2>3, AppendIs DEF Quiet
    <2>5. Quiet(c \o <<EndKey>>)
      BY <2>3, EndKeyQuiet, BothQuiet
    <2> QED  BY <1>1, <2>1, <2>2, <2>4, <2>5, QuietOut
  <1> QED  BY <1>2, <1>3, <1>4, <1>5
-----------------------------------------------------------------------------
(* Nodes and streams. *)

LEMMA ReportSeq ==
  ASSUME NEW c, NEW cells, NEW w \in {1, 2}, NEW num, Len(cells) \in Nat
  PROVE  OwnSeq(Report(c, cells, w, num))
         /\ (Len(Report(c, cells, w, num)) > 0 => Report(c, cells, w, num)[1][1] = c)
  <1> DEFINE n == Len(cells) \div w
             v == [i \in 1 .. n |-> <<c, num + i - 1,
                                      [j \in 1 .. w |-> <<"str", <<cells[w * (i - 1) + j]>>>>]>>]
  <1>1. n \in Nat
    OBVIOUS
  <1>2. Report(c, cells, w, num) = v
    BY DEF Report
  <1> HIDE DEF n
  <1>5. Len(v) > 0 => v[1][1] = c
    BY <1>1
  <1>3. v \in [1 .. n -> {v[i] : i \in 1 .. n}] /\ DOMAIN v = 1 .. n
    OBVIOUS
  <1> HIDE DEF v
  <1>4. OwnSeq(v)
    BY <1>1, <1>3 DEF OwnSeq
  <1> QED  BY <1>2, <1>4, <1>5 DEF v

(* What a quicklist's node reports is only known to be behind the rest.    *)
LEMMA QuickExtends ==
  ASSUME IInv, OwnSeq(evs), QuickNode
  PROVE  Extends(evs, evs') /\ Untyped /\ dec' = dec /\ pc = "body" /\ dec.type \in Quick
  <1> DEFINE c == IF dec.type = "list_quicklist_2" THEN Length(Start(NoSize))
                  ELSE Start(<<"len", 2>>)
             b == consume(Length(c))
             r == IF LenOf(c.len) = 2 THEN Listed(b)
                  ELSE Then(b, LAMBDA q : Failed(q, "notsup"))
             y == IF r.rc = "ok" THEN Tail(r.vals[1][2]) ELSE <<>>
             t == Report("d_list", y, 1, loop.num)
  <1>1. /\ dec' = dec /\ pc = "body" /\ dec.type \in Quick
        /\ Out(r, t)
    BY DEF QuickNode, Body
  <1>2. Good(c) /\ WellFormed(win) /\ c.vals = <<>>
    <2> DEFINE s == Start(NoSize)
    <2>1. Good(s) /\ s.vals = <<>> /\ WellFormed(win)
      BY <1>1, StartGood
    <2>2. Good(Start(<<"len", 2>>)) /\ Start(<<"len", 2>>).vals = <<>>
      BY <1>1, StartGood
    <2> HIDE DEF s
    <2>3. PICK e \in 0 .. Len(win) : s.p.avail \in Nat /\ Ready(s, e, s.p.avail, 0)
      BY <2>1, GoodIs
    <2>4. Length(s).vals = <<>>
      BY <2>1, <2>3, LengthKeeps
    <2>5. Good(Length(s))
      BY <2>1, LengthPast, PastOn DEF On
    <2> QED  BY <2>1, <2>2, <2>4, <2>5 DEF s
  <1>3. b = Name(c)
    BY DEF Name
  <1> HIDE DEF c
  <1>4. \/ r = b /\ (b.rc = "ok" => init(b.vals[1][2]))
        \/ r = Failed(b, "notsup") \/ r = Failed(b, "trunc")
    BY QuickReads
  <1>5. r.rc = "ok" => r = b /\ b.rc = "ok" /\ init(b.vals[1][2])
    <2>1. Good(b)
      BY <1>2, <1>3, NamePast, PastOn DEF On
    <2> HIDE DEF r, b
    <2>2. Failed(b, "notsup").rc = "notsup" /\ Failed(b, "trunc").rc = "trunc"
      BY <2>1, FailedKeeps DEF Good, Codes
    <2> QED  BY <1>4, <2>2
  <1>6. r.rc = "ok" => Len(y) \in Nat
    <2> HIDE DEF r, b
    <2> SUFFICES ASSUME r.rc = "ok" PROVE Len(Tail(r.vals[1][2])) \in Nat
      OBVIOUS
    <2>0. OneMore(c, b)
      <3>1. PICK e \in 0 .. Len(win) : c.p.avail \in Nat /\ Ready(c, e, c.p.avail, 0)
        BY <1>2, GoodIs
      <3> QED  BY <1>2, <1>3, <1>5, <3>1, NameKeeps
    <2>1. PICK x : /\ x \in Seq({x[i] : i \in DOMAIN x})
                   /\ b.vals = Append(c.vals, <<"str", x>>)
      BY <2>0, Zenon DEF OneMore
    <2>2. r.vals[1][2] = x /\ init(x)
      BY <1>2, <1>5, <2>1
    <2> QED  BY <2>1, <2>2, TailLen
  <1>7. r.rc = "ok" => OwnSeq(t) /\ (Len(t) > 0 => t[1][1] = "d_list")
    <2> HIDE DEF r, y
    <2> QED  BY <1>6, ReportSeq
  <1> HIDE DEF r, t
  <1>8. evs' = IF dec.data /\ r.rc = "ok" THEN evs \o t ELSE evs
    BY <1>1, OutIs
  <1>9. Extends(evs, evs')
    BY <1>7, <1>8, Joined, NothingMore
  <1>10. Untyped
    <2>1. CASE dec.data /\ r.rc = "ok"
      BY <1>7, <1>8, <2>1, UntypedBy
    <2>2. CASE ~ (dec.data /\ r.rc = "ok")
      BY <1>8, <2>2 DEF Untyped
    <2> QED  BY <2>1, <2>2
  <1> QED  BY <1>1, <1>9, <1>10
(* The step of a stream that begins no list of elements, and one that      *)
(* begins one.                                                             *)
LEMMA StreamTurn ==
  ASSUME IInv, OwnSeq(evs), pc = "body", dec.type \in Streams, dec' = dec,
         Extends(evs, evs'), Untyped, InTurn(evs) /\ CountInv => InTurn(evs'),
         pc' = "body" /\ dec.data /\ InTurn(evs) /\ CountInv =>
           /\ loop'.part = "blocks" => loop'.num = Follows(evs', "d_stream_entry")
           /\ Sub("pend", loop.pend, "d_stream_pend")'
           /\ Sub("conp", loop.conp, "d_stream_cons_pend")'
  PROVE  KeepsTurn
  <1>1. ASSUME InTurn(evs), CountInv PROVE CountInv'
    <2> SUFFICES ASSUME pc' = "body", dec'.data PROVE CountInv'
      BY DEF CountInv
    <2>1. Len(evs) > 0
      BY <1>1 DEF CountInv
    <2>2. Len(evs') > 0
      <3>1. Len(evs) <= Len(evs') /\ Len(evs') \in Nat
        BY OwnLen DEF Extends
      <3> QED  BY <2>1, <3>1
    <2>3. /\ dec.type \notin {"hash", "set", "list", "zset", "zset_2"}
          /\ dec.type \notin Zipped \cup {"hash_zipmap", "set_intset"}
      BY DEF Streams, Zipped
    <2>4. /\ loop'.part = "blocks" => loop'.num = Follows(evs', "d_stream_entry")
          /\ Sub("pend", loop.pend, "d_stream_pend")'
          /\ Sub("conp", loop.conp, "d_stream_cons_pend")'
      BY <1>1
    <2> QED  BY <2>2, <2>3, <2>4 DEF CountInv, Loop
  <1> QED  BY <1>1 DEF KeepsTurn, CallsGoOn
LEMMA StreamBlockTurn ==
  ASSUME IInv, OwnSeq(evs), StreamBlock
  PROVE  KeepsTurn /\ dec' = dec /\ pc = "body"
  <1>1. /\ pc = "body" /\ dec' = dec /\ dec.type \in Streams /\ loop.part = "blocks"
        /\ evs' = evs
    BY DEF StreamBlock, Part, Body
  <1>2. \E h : loop' = [loop EXCEPT !.cnt = @ - 1, !.entry = h] \/ loop' = loop
    BY DEF StreamBlock
  <1>3. loop'.part = "blocks" /\ loop'.num = loop.num
    BY <1>1, <1>2 DEF IInv, LoopOK
  <1>4. Extends(evs, evs') /\ Untyped /\ (InTurn(evs) => InTurn(evs'))
    BY <1>1, NothingMore DEF Untyped
  <1>5. ASSUME dec.data, CountInv PROVE loop'.num = Follows(evs', "d_stream_entry")
    BY <1>1, <1>3, <1>5 DEF CountInv
  <1>6. Sub("pend", loop.pend, "d_stream_pend")' /\ Sub("conp", loop.conp, "d_stream_cons_pend")'
    BY <1>3 DEF Sub
  <1> QED  BY <1>1, <1>4, <1>5, <1>6, StreamTurn

(* Its entries are numbered by a loop that is not begun anew for each of   *)
(* its listpacks, and that passes over those that were deleted.            *)
LEMMA StreamEntryTurn ==
  ASSUME IInv, OwnSeq(evs), StreamEntry
  PROVE  KeepsTurn /\ dec' = dec /\ pc = "body"
  <1> DEFINE e == read_entry([loop.entry EXCEPT !.items = @ - 1])
             r == IF e.ok THEN Start(NoSize) ELSE Failed(Start(NoSize), "trunc")
             n == loop.num
             live == ~ Flag(e, DELETED)
             f == <<"d_stream_entry", n, <<EntryId(e), Fields(e), FieldValues(e)>>>>
             o == Opens("entry_list", n = 0)
             t == IF live THEN o \o <<f>> ELSE <<>>
  <1>1. /\ pc = "body" /\ dec' = dec /\ dec.type \in Streams /\ loop.part = "blocks"
        /\ Return(r, "body") /\ Out(r, t)
        /\ loop' = [loop EXCEPT !.entry = e, !.num = IF live THEN @ + 1 ELSE @]
    BY DEF StreamEntry, Part, Body
  <1> HIDE DEF e, r, live
  <1>2. loop'.part = "blocks" /\ loop'.num = IF live THEN n + 1 ELSE n
    BY <1>1 DEF IInv, LoopOK
  <1>3. evs' = IF dec.data /\ r.rc = "ok" THEN evs \o t ELSE evs
    <2>1. Out(r, t)
      BY <1>1
    <2> HIDE DEF t
    <2> QED  BY <2>1, OutIs
  <1>4. pc' = IF r.rc = "ok" THEN "body" ELSE "error"
    BY <1>1 DEF Return
  <1>5. f[1] = "d_stream_entry" /\ f[2] = n
    OBVIOUS
  <1>6. Sub("pend", loop.pend, "d_stream_pend")' /\ Sub("conp", loop.conp, "d_stream_cons_pend")'
    BY <1>2 DEF Sub
  <1>7. CASE dec.data /\ r.rc = "ok" /\ live
    <2> HIDE DEF f, o, n
    <2>1. evs' = evs \o (o \o <<f>>)
      BY <1>3, <1>7
    <2>2. Quiet(o) /\ OwnSeq(o) /\ OwnSeq(<<f>>)
      BY SomeQuiet, OneElement DEF Quiet, o
    <2>3. evs' = (evs \o o) \o <<f>>
      BY <2>1, <2>2, Regrouped
    <2>4. OwnSeq(o \o <<f>>)
      BY <2>2, Joined DEF Extends
    <2>5. Extends(evs, evs')
      BY <2>1, <2>4, Joined
    <2>6. ASSUME InTurn(evs), CountInv
          PROVE  InTurn(evs') /\ n + 1 = Follows(evs', "d_stream_entry")
      <3> DEFINE m == evs \o o
      <3>1. Len(evs) > 0 /\ n = Follows(evs, "d_stream_entry")
        BY <1>1, <1>7, <2>6 DEF CountInv, n
      <3>2. OwnSeq(m) /\ InTurn(m) /\ (Len(o) > 0 => Resting(m)) /\ (Len(o) = 0 => m = evs)
        BY <2>2, <2>6, QuietGrows DEF Extends
      <3>3. Len(o) = IF n = 0 THEN 1 ELSE 0
        BY OneElement, NoneQuiet DEF o, Opens
      <3> HIDE DEF m
      <3>4. Len(m) > 0 /\ n = Follows(m, "d_stream_entry")
        <4>1. CASE n = 0
          <5>1. Resting(m)
            BY <3>2, <3>3, <4>1
          <5>2. "d_stream_entry" \in Elements
            BY DEF Elements
          <5> QED  BY <4>1, <5>1, <5>2, RestingFollows DEF Resting
        <4>2. CASE n # 0
          BY <3>1, <3>2, <3>3, <4>2
        <4> QED  BY <4>1, <4>2
      <3>5. /\ InTurn(m \o <<f>>)
            /\ Len(m \o <<f>>) > 0 /\ Last(m \o <<f>>) = f
        <4>1. f[2] = Follows(m, f[1])
          BY <1>5, <3>4 DEF f
        <4> QED  BY <3>2, <3>4, <4>1, ElementGrows
      <3>6. evs' = m \o <<f>>
        BY <2>3 DEF m
      <3>7. f[1] = "d_stream_entry" /\ f[2] = n
        BY <1>5 DEF f
      <3> QED  BY <3>5, <3>6, <3>7 DEF Follows
    <2>7. loop'.num = n + 1
      BY <1>2, <1>7
    <2>8. ASSUME CountInv, InTurn(evs) PROVE CountInv'
      <3>1. Len(evs') > 0
        <4>1. Len(evs) > 0
          BY <1>1, <1>7, <2>8 DEF CountInv
        <4>2. Len(evs) <= Len(evs') /\ Len(evs') \in Nat
          BY <2>5, OwnLen DEF Extends
        <4> QED  BY <4>1, <4>2
      <3>2. loop'.num = Follows(evs', "d_stream_entry")
        BY <2>6, <2>7, <2>8
      <3>3. /\ dec.type \notin {"hash", "set", "list", "zset", "zset_2"}
            /\ dec.type \notin Zipped \cup {"hash_zipmap", "set_intset"}
        BY <1>1 DEF Streams, Zipped
      <3> QED  BY <1>1, <1>6, <3>1, <3>2, <3>3 DEF CountInv, Loop
    <2>9. InTurn(evs) /\ CountInv => InTurn(evs') /\ CountInv'
      <3> SUFFICES ASSUME InTurn(evs), CountInv PROVE InTurn(evs') /\ CountInv'
        OBVIOUS
      <3>1. InTurn(evs')
        BY <2>6
      <3>2. CountInv'
        BY <2>8
      <3> QED  BY <3>1, <3>2
    <2>10. Untyped
      <3> DEFINE m == evs \o o
      <3>1. /\ OwnSeq(m) /\ OwnSeq(<<f>>) /\ Len(<<f>>) = 1 /\ <<f>>[1] = f
            /\ f[1] # "d_start_type"
        BY <1>5, <2>2, OneElement, Joined DEF Extends
      <3>2. /\ Len(o) \in Nat /\ Len(evs) \in Nat /\ Len(m) = Len(evs) + Len(o)
            /\ \A i \in 1 .. Len(o) : m[Len(evs) + i] = o[i]
        BY <2>2, Joined
      <3> HIDE DEF m
      <3>3. /\ \A i \in 1 .. Len(m) : (m \o <<f>>)[i] = m[i]
            /\ \A i \in 1 .. 1 : (m \o <<f>>)[Len(m) + i] = <<f>>[i]
        BY <3>1, Joined
      <3>4. CASE Len(o) > 0
        <4>1. 1 \in 1 .. Len(o) /\ Len(evs) + 1 \in 1 .. Len(m)
          BY <3>2, <3>4
        <4>2. o[1][1] # "d_start_type"
          BY <2>2, <4>1 DEF Quiet, Loud
        <4> QED  BY <2>3, <3>2, <3>3, <4>1, <4>2 DEF Untyped, m
      <3>5. CASE Len(o) = 0
        <4>1. Len(evs) + 1 = Len(m) + 1 /\ 1 \in 1 .. 1
          BY <3>2, <3>5
        <4>2. (m \o <<f>>)[Len(evs) + 1] = f
          BY <3>1, <3>3, <4>1
        <4> QED  BY <2>3, <3>1, <4>2 DEF Untyped, m
      <3> QED  BY <3>2, <3>4, <3>5
    <2> QED  BY <1>1, <2>5, <2>9, <2>10 DEF KeepsTurn, CallsGoOn
  <1>8. CASE ~ (dec.data /\ r.rc = "ok" /\ live)
    <2>1. evs' = evs
      BY <1>3, <1>8, NothingMore
    <2>2. Extends(evs, evs') /\ Untyped /\ (InTurn(evs) => InTurn(evs'))
      BY <2>1, NothingMore DEF Untyped
    <2>3. ASSUME pc' = "body", dec.data, CountInv
          PROVE  loop'.num = Follows(evs', "d_stream_entry")
      <3>1. ~ live
        BY <1>4, <1>8, <2>3
      <3> QED  BY <1>1, <1>2, <2>1, <2>3, <3>1 DEF CountInv
    <2> QED  BY <1>1, <1>6, <2>2, <2>3, StreamTurn
  <1> QED  BY <1>7, <1>8
LEMMA QuietOutAfter ==
  ASSUME OwnSeq(evs), NEW first, NEW r, NEW t, Quiet(first), Quiet(t),
         OutAfter(first, r, t)
  PROVE  Extends(evs, evs') /\ Untyped /\ (InTurn(evs) => InTurn(evs'))
  <1> DEFINE m == evs \o first
  <1>1. OwnSeq(first)
    BY DEF Quiet
  <1>2. evs' = IF dec.data THEN IF r.rc = "ok" THEN m \o t ELSE m ELSE evs
    BY <1>1, OutAfterIs
  <1>3. Extends(evs, m) /\ (InTurn(evs) => InTurn(m))
    BY QuietGrows
  <1>8. Untyped
    <2>1. OwnSeq(t) /\ OwnSeq(first) /\ Quiet(first \o t)
      BY BothQuiet DEF Quiet
    <2>2. m \o t = evs \o (first \o t)
      BY <2>1, Regrouped
    <2>3. CASE ~ dec.data
      BY <1>2, <2>3 DEF Untyped
    <2>4. CASE evs' = evs \o first
      BY <2>4, QuietGrows DEF Untyped
    <2>5. CASE evs' = evs \o (first \o t)
      <3> DEFINE u == first \o t
      <3> HIDE DEF u
      <3>1. evs' = evs \o u /\ Quiet(u)
        BY <2>1, <2>5 DEF u
      <3> QED  BY <3>1, QuietGrows DEF Untyped
    <2> QED  BY <1>2, <2>2, <2>3, <2>4, <2>5
  <1> HIDE DEF m
  <1>4. OwnSeq(m)
    BY <1>3 DEF Extends
  <1>5. Extends(m, m \o t) /\ (InTurn(m) => InTurn(m \o t))
    BY <1>4, QuietGrows
  <1> DEFINE u == m \o t
  <1> HIDE DEF u
  <1>6. Extends(evs, u)
    <2>1. OwnSeq(u) /\ Len(evs) <= Len(m) /\ Len(m) <= Len(u)
      BY <1>3, <1>5 DEF Extends, u
    <2>2. Len(evs) \in Nat /\ Len(m) \in Nat /\ Len(u) \in Nat
      BY <1>4, <2>1, OwnLen
    <2>3. ASSUME NEW i \in 1 .. Len(evs) PROVE u[i] = evs[i]
      <3>1. i \in 1 .. Len(m)
        BY <2>1, <2>2
      <3>2. m[i] = evs[i]
        BY <1>3 DEF Extends
      <3>3. u[i] = m[i]
        BY <1>5, <3>1 DEF Extends, u
      <3> QED  BY <3>2, <3>3
    <2>4. Len(evs) <= Len(u)
      BY <2>1, <2>2
    <2> QED  BY <2>1, <2>3, <2>4 DEF Extends
  <1>7. Extends(evs, evs)
    BY NothingMore
  <1> QED  BY <1>2, <1>3, <1>5, <1>6, <1>7, <1>8 DEF u

LEMMA StreamInfoTurn ==
  ASSUME IInv, OwnSeq(evs), StreamInfo
  PROVE  KeepsTurn /\ dec' = dec /\ pc = "body"
  <1> DEFINE c == Closes("entry_list", loop.num # 0)
             old == dec.type = "stream_listpack"
             d == Count(Count2(Start(NoSize)))
             r == Count(IF old THEN d ELSE Count(Count2(Count2(d))))
             v == r.vals
             groups == v[Len(v)]
             info == <<IF old THEN v[1] ELSE v[8], <<v[2], v[3]>>, groups>>
  <1>1. pc = "body" /\ dec' = dec /\ dec.type \in Streams
    BY DEF StreamInfo, Part, Body
  <1>2. /\ Return(r, "body")
        /\ OutAfter(c, r, <<<<"d_stream_info", 0, info>>>> \o
                          Opens("group_list", groups # 0))
        /\ loop' = IF r.rc = "ok"
                   THEN [loop EXCEPT !.part = "groups", !.entry = NewEntry,
                                     !.group = NewCount(groups)]
                   ELSE loop
    BY DEF StreamInfo
  <1> HIDE DEF r, groups, info
  <1> DEFINE e == <<"d_stream_info", 0, info>>
             o == Opens("group_list", groups # 0)
             t == <<e>> \o o
  <1>3. Quiet(c) /\ Quiet(o)
    BY SomeQuiet
  <1>4. e[1] \notin Loud
    BY DEF Elements, Loud
  <1>5. OutAfter(c, r, t)
    BY <1>2
  <1> HIDE DEF c, e, o
  <1>6. Quiet(t)
    BY <1>3, <1>4, OneQuiet, BothQuiet
  <1> HIDE DEF t
  <1>7. Extends(evs, evs') /\ Untyped /\ (InTurn(evs) => InTurn(evs'))
    BY <1>3, <1>5, <1>6, QuietOutAfter
  <1>8. pc' = "body" => loop'.part = "groups"
    BY <1>2 DEF Return, IInv, LoopOK
  <1>9. pc' = "body" => /\ Sub("pend", loop.pend, "d_stream_pend")'
                        /\ Sub("conp", loop.conp, "d_stream_cons_pend")'
                        /\ loop'.part # "blocks"
    BY <1>8 DEF Sub
  <1> QED  BY <1>1, <1>7, <1>9, StreamTurn
(* A group or a consumer: one call, and its list of pending entries begins *)
(* to be counted.                                                          *)
LEMMA BeginsPending ==
  ASSUME OwnSeq(evs), NEW r, NEW e, e[1] \notin Loud, NEW part, NEW some,
         Return(r, "body"), Out(r, <<e>> \o Opens(part, some))
  PROVE  /\ Extends(evs, evs') /\ Untyped /\ (InTurn(evs) => InTurn(evs'))
         /\ pc' = "body" => r.rc = "ok"
         /\ dec.data /\ r.rc = "ok" => \A c \in Elements : Follows(evs', c) = 0
  <1> DEFINE o == Opens(part, some)
             s == <<e>>
             t == s \o o
  <1>1. Quiet(o) /\ Quiet(s) /\ Len(s) = 1
    BY SomeQuiet, OneQuiet, OneElement
  <1>2. Out(r, t)
    OBVIOUS
  <1> HIDE DEF o, s
  <1>3. Quiet(t) /\ Len(t) > 0
    BY <1>1, BothQuiet
  <1> HIDE DEF t
  <1>4. /\ Extends(evs, evs') /\ Untyped /\ (InTurn(evs) => InTurn(evs'))
        /\ pc' = IF r.rc = "ok" THEN "body" ELSE "error"
        /\ dec.data /\ r.rc = "ok" /\ Len(t) > 0 => Resting(evs')
    BY <1>2, <1>3, QuietOut
  <1>5. dec.data /\ r.rc = "ok" => \A c \in Elements : Follows(evs', c) = 0
    BY <1>3, <1>4, RestingFollows
  <1> QED  BY <1>4, <1>5

LEMMA StreamGroupTurn ==
  ASSUME IInv, OwnSeq(evs), StreamGroup
  PROVE  KeepsTurn /\ dec' = dec /\ pc = "body"
  <1> DEFINE last == Count2(Name(Start(NoSize)))
             r == Count(IF dec.type = "stream_listpack" THEN last ELSE Count(last))
             v == r.vals
             pending == v[Len(v)]
             x == <<v[1], <<v[2], v[3]>>, pending>>
             e == <<"d_stream_group", loop.group.num, x>>
             some == pending # 0
  <1>1. pc = "body" /\ dec' = dec /\ dec.type \in Streams
    BY DEF StreamGroup, Part, Body
  <1>2. /\ Return(r, "body") /\ Out(r, <<e>> \o Opens("pending_list", some))
        /\ loop' = IF r.rc = "ok" THEN [loop EXCEPT !.part = "pend", !.pend = NewCount(pending)]
                   ELSE loop
    BY DEF StreamGroup
  <1> HIDE DEF r, pending, x, some
  <1>3. e[1] \notin Loud
    BY DEF Elements, Loud
  <1> HIDE DEF e
  <1>4. /\ Extends(evs, evs') /\ Untyped /\ (InTurn(evs) => InTurn(evs'))
        /\ pc' = "body" => r.rc = "ok"
        /\ dec.data /\ r.rc = "ok" => \A c \in Elements : Follows(evs', c) = 0
    BY <1>2, <1>3, BeginsPending
  <1>5. ASSUME pc' = "body", dec.data
        PROVE  /\ loop'.part # "blocks"
               /\ Sub("pend", loop.pend, "d_stream_pend")'
               /\ Sub("conp", loop.conp, "d_stream_cons_pend")'
    <2>1. loop'.part = "pend" /\ loop'.pend = NewCount(pending)
      BY <1>2, <1>4, <1>5 DEF IInv, LoopOK
    <2>2. Follows(evs', "d_stream_pend") = 0
      BY <1>4, <1>5 DEF Elements
    <2>3. "num" \in DOMAIN loop'.pend /\ loop'.pend.num = 0
      BY <2>1 DEF NewCount
    <2> QED  BY <2>1, <2>2, <2>3 DEF Sub
  <1> QED  BY <1>1, <1>4, <1>5, StreamTurn

LEMMA StreamConsTurn ==
  ASSUME IInv, OwnSeq(evs), StreamCons
  PROVE  KeepsTurn /\ dec' = dec /\ pc = "body"
  <1> DEFINE r == Count(Field(Name(Start(NoSize))))
             n == r.vals[3]
             x == <<r.vals[1], r.vals[2][2], n>>
             e == <<"d_stream_cons", loop.cons.num, x>>
             some == n # 0
  <1>1. pc = "body" /\ dec' = dec /\ dec.type \in Streams
    BY DEF StreamCons, Part, Body
  <1>2. /\ Return(r, "body") /\ Out(r, <<e>> \o Opens("consumer_pending_list", some))
        /\ loop' = IF r.rc = "ok" THEN [loop EXCEPT !.part = "conp", !.conp = NewCount(n)]
                   ELSE loop
    BY DEF StreamCons
  <1> HIDE DEF r, n, x, some
  <1>3. e[1] \notin Loud
    BY DEF Elements, Loud
  <1> HIDE DEF e
  <1>4. /\ Extends(evs, evs') /\ Untyped /\ (InTurn(evs) => InTurn(evs'))
        /\ pc' = "body" => r.rc = "ok"
        /\ dec.data /\ r.rc = "ok" => \A c \in Elements : Follows(evs', c) = 0
    BY <1>2, <1>3, BeginsPending
  <1>5. ASSUME pc' = "body", dec.data
        PROVE  /\ loop'.part # "blocks"
               /\ Sub("pend", loop.pend, "d_stream_pend")'
               /\ Sub("conp", loop.conp, "d_stream_cons_pend")'
    <2>1. loop'.part = "conp" /\ loop'.conp = NewCount(n)
      BY <1>2, <1>4, <1>5 DEF IInv, LoopOK
    <2>2. Follows(evs', "d_stream_cons_pend") = 0
      BY <1>4, <1>5 DEF Elements
    <2>3. "num" \in DOMAIN loop'.conp /\ loop'.conp.num = 0
      BY <2>1 DEF NewCount
    <2> QED  BY <2>1, <2>2, <2>3 DEF Sub
  <1> QED  BY <1>1, <1>4, <1>5, StreamTurn

LEMMA StreamConsumersTurn ==
  ASSUME IInv, OwnSeq(evs), StreamConsumers
  PROVE  KeepsTurn /\ dec' = dec /\ pc = "body"
  <1> DEFINE r == Count(Start(NoSize))
             n == r.vals[1]
             c == Closes("pending_list", loop.pend.cnt # 0)
             o == Opens("consumer_list", n # 0)
  <1>1. pc = "body" /\ dec' = dec /\ dec.type \in Streams
    BY DEF StreamConsumers, Part, Body
  <1>2. /\ Return(r, "body") /\ OutAfter(c, r, o)
        /\ loop' = IF r.rc = "ok" THEN [loop EXCEPT !.part = "cons", !.cons = NewCount(n)]
                   ELSE loop
    BY DEF StreamConsumers
  <1>3. Quiet(c) /\ Quiet(o)
    BY SomeQuiet
  <1> HIDE DEF r, n, c, o
  <1>4. Extends(evs, evs') /\ Untyped /\ (InTurn(evs) => InTurn(evs'))
    BY <1>2, <1>3, QuietOutAfter
  <1>5. pc' = "body" => loop'.part = "cons"
    BY <1>2 DEF Return, IInv, LoopOK
  <1>6. pc' = "body" => /\ Sub("pend", loop.pend, "d_stream_pend")'
                        /\ Sub("conp", loop.conp, "d_stream_cons_pend")'
                        /\ loop'.part # "blocks"
    BY <1>5 DEF Sub
  <1> QED  BY <1>1, <1>4, <1>6, StreamTurn

LEMMA StreamEndsTurn ==
  ASSUME IInv, OwnSeq(evs), EndCons \/ EndGroup
  PROVE  KeepsTurn /\ dec' = dec /\ pc = "body"
  <1> DEFINE r == Start(NoSize)
             c == IF loop.part = "conp" THEN Closes("consumer_pending_list", loop.conp.cnt # 0)
                  ELSE Closes("consumer_list", loop.cons.cnt # 0)
             d == IF loop.part = "conp" THEN Closes("consumer", TRUE)
                  ELSE Closes("group", TRUE)
             t == c \o d
  <1>1. pc = "body" /\ dec' = dec /\ dec.type \in Streams
    BY DEF EndCons, EndGroup, Part, Body
  <1>2. /\ Return(r, "body") /\ Out(r, t)
        /\ \/ loop' = [loop EXCEPT !.part = "cons", !.cons.num = @ + 1]
           \/ loop' = [loop EXCEPT !.part = "groups", !.group.num = @ + 1]
    BY DEF EndCons, EndGroup, Part
  <1>3. Quiet(c) /\ Quiet(d)
    BY SomeQuiet
  <1> HIDE DEF c, d, r
  <1>4. Quiet(t)
    BY <1>3, BothQuiet
  <1> HIDE DEF t
  <1>5. Extends(evs, evs') /\ Untyped /\ (InTurn(evs) => InTurn(evs'))
    BY <1>2, <1>4, QuietOut
  <1>6. loop'.part \in {"cons", "groups"}
    BY <1>2 DEF IInv, LoopOK
  <1>7. /\ Sub("pend", loop.pend, "d_stream_pend")'
        /\ Sub("conp", loop.conp, "d_stream_cons_pend")'
        /\ loop'.part # "blocks"
    BY <1>6 DEF Sub
  <1> QED  BY <1>1, <1>5, <1>7, StreamTurn
(* An element of a list of pending entries. *)
LEMMA PendingTurn ==
  ASSUME OwnSeq(evs), pc = "body", NEW r, NEW c \in Elements, NEW n, NEW v,
         Return(r, "body"), Out(r, <<<<c, n, v>>>>),
         dec.data /\ CountInv => n = Follows(evs, c)
  PROVE  /\ Extends(evs, evs') /\ Untyped /\ (InTurn(evs) /\ CountInv => InTurn(evs'))
         /\ pc' = "body" /\ dec.data /\ InTurn(evs) /\ CountInv =>
              Follows(evs', c) = n + 1
  <1> DEFINE e == <<c, n, v>>
  <1>1. evs' = IF dec.data /\ r.rc = "ok" THEN evs \o <<e>> ELSE evs
    BY OutIs
  <1>2. pc' = IF r.rc = "ok" THEN "body" ELSE "error"
    BY DEF Return
  <1>3. e[1] = c /\ e[2] = n
    OBVIOUS
  <1> HIDE DEF e
  <1>4. CASE dec.data /\ r.rc = "ok"
    <2>1. evs' = evs \o <<e>>
      BY <1>1, <1>4
    <2>2. Extends(evs, evs')
      BY <2>1, OneElement, Joined
    <2>3. ASSUME InTurn(evs), CountInv PROVE InTurn(evs') /\ Follows(evs', c) = n + 1
      <3>1. Len(evs) > 0 /\ n = Follows(evs, c)
        BY <1>4, <2>3 DEF CountInv
      <3>2. InTurn(evs \o <<e>>) /\ Last(evs \o <<e>>) = e
        BY <1>3, <2>3, <3>1, ElementGrows
      <3> QED  BY <1>3, <2>1, <3>2 DEF Follows
    <2>4. Untyped
      <3>1. OwnSeq(<<e>>) /\ <<e>>[1] = e
        BY OneElement
      <3>2. e[1] # "d_start_type"
        BY <1>3 DEF Elements
      <3> QED  BY <2>1, <3>1, <3>2, UntypedBy
    <2> QED  BY <2>2, <2>3, <2>4
  <1>5. CASE ~ (dec.data /\ r.rc = "ok")
    <2>1. evs' = evs /\ (pc' # "body" \/ ~ dec.data)
      BY <1>1, <1>2, <1>5
    <2> QED  BY <2>1, NothingMore DEF Untyped
  <1> QED  BY <1>4, <1>5

LEMMA StreamPendTurn ==
  ASSUME IInv, OwnSeq(evs), StreamPend
  PROVE  KeepsTurn /\ dec' = dec /\ pc = "body"
  <1> DEFINE r == Count(Field(Field(Start(NoSize))))
             x == <<Id(r.vals[1]), r.vals[2][2], r.vals[3]>>
             n == loop.pend.num
             c == "d_stream_pend"
  <1>1. pc = "body" /\ dec' = dec /\ dec.type \in Streams /\ loop.part = "pend"
    BY DEF StreamPend, Part, Body
  <1>2. /\ Return(r, "body") /\ Out(r, <<<<c, n, x>>>>)
        /\ loop' = [loop EXCEPT !.pend.num = @ + 1]
    BY DEF StreamPend
  <1> HIDE DEF r, x
  <1>3. dec.data /\ CountInv => "num" \in DOMAIN loop.pend /\ n = Follows(evs, c)
    BY <1>1 DEF CountInv, Sub
  <1>4. c \in Elements
    BY DEF Elements
  <1>5. /\ Extends(evs, evs') /\ Untyped /\ (InTurn(evs) /\ CountInv => InTurn(evs'))
        /\ pc' = "body" /\ dec.data /\ InTurn(evs) /\ CountInv =>
              Follows(evs', c) = n + 1
    <2> HIDE DEF c, n
    <2> QED  BY <1>1, <1>2, <1>3, <1>4, PendingTurn
  <1>6. loop'.part = "pend"
    BY <1>1, <1>2 DEF IInv, LoopOK
  <1>7. "num" \in DOMAIN loop.pend => "num" \in DOMAIN loop'.pend /\ loop'.pend.num = n + 1
    BY <1>2 DEF IInv, LoopOK
  <1>8. ASSUME pc' = "body", dec.data, InTurn(evs), CountInv
        PROVE  /\ loop'.part # "blocks"
               /\ Sub("pend", loop.pend, "d_stream_pend")'
               /\ Sub("conp", loop.conp, "d_stream_cons_pend")'
    BY <1>3, <1>5, <1>6, <1>7, <1>8 DEF Sub
  <1> QED  BY <1>1, <1>5, <1>8, StreamTurn

LEMMA StreamConsPendTurn ==
  ASSUME IInv, OwnSeq(evs), StreamConsPend
  PROVE  KeepsTurn /\ dec' = dec /\ pc = "body"
  <1> DEFINE r == Field(Start(NoSize))
             x == <<Id(r.vals[1])>>
             n == loop.conp.num
             c == "d_stream_cons_pend"
  <1>1. pc = "body" /\ dec' = dec /\ dec.type \in Streams /\ loop.part = "conp"
    BY DEF StreamConsPend, Part, Body
  <1>2. /\ Return(r, "body") /\ Out(r, <<<<c, n, x>>>>)
        /\ loop' = [loop EXCEPT !.conp.num = @ + 1]
    BY DEF StreamConsPend
  <1> HIDE DEF r, x
  <1>3. dec.data /\ CountInv => "num" \in DOMAIN loop.conp /\ n = Follows(evs, c)
    BY <1>1 DEF CountInv, Sub
  <1>4. c \in Elements
    BY DEF Elements
  <1>5. /\ Extends(evs, evs') /\ Untyped /\ (InTurn(evs) /\ CountInv => InTurn(evs'))
        /\ pc' = "body" /\ dec.data /\ InTurn(evs) /\ CountInv =>
              Follows(evs', c) = n + 1
    <2> HIDE DEF c, n
    <2> QED  BY <1>1, <1>2, <1>3, <1>4, PendingTurn
  <1>6. loop'.part = "conp"
    BY <1>1, <1>2 DEF IInv, LoopOK
  <1>7. "num" \in DOMAIN loop.conp => "num" \in DOMAIN loop'.conp /\ loop'.conp.num = n + 1
    BY <1>2 DEF IInv, LoopOK
  <1>8. ASSUME pc' = "body", dec.data, InTurn(evs), CountInv
        PROVE  /\ loop'.part # "blocks"
               /\ Sub("pend", loop.pend, "d_stream_pend")'
               /\ Sub("conp", loop.conp, "d_stream_cons_pend")'
    BY <1>3, <1>5, <1>6, <1>7, <1>8 DEF Sub
  <1> QED  BY <1>1, <1>5, <1>8, StreamTurn
-----------------------------------------------------------------------------
(* Every step. *)

(* What a step of decode_hdr() or decode_body() does to the calls, and to  *)
(* the type of the key at hand.                                            *)
Announces == evs' = evs \o <<<<"d_start_type", 0, <<dec'.type>>>>>>
SameKey == pc \in {"len", "start", "body"} /\ dec'.type = dec.type

LEMMA HeaderSteps ==
  ASSUME IInv, OwnSeq(evs),
         Open \/ (\E k \in Metas : Meta(k)) \/ ModuleAux \/ EofMark \/ KeyType
              \/ KeyHdr \/ StartKey
  PROVE  /\ CallsGoOn /\ (KeyType \/ Untyped)
         /\ pc' \in {"len", "start", "body"} => Announces \/ SameKey
  <1>1. CASE Open
    <2>1. pc' \in {"hdr", "error"}
      BY <1>1 DEF Open, OpenFile, OpenDump
    <2> QED  BY <1>1, <2>1, HeaderTurn DEF KeepsTurn
  <1>2. CASE ModuleAux \/ EofMark
    <2>1. pc' \in {"hdr", "error"}
      BY <1>2 DEF ModuleAux, EofMark, Return
    <2> QED  BY <1>2, <2>1, HeaderTurn DEF KeepsTurn
  <1>3. CASE \E k \in Metas : Meta(k)
    <2>1. PICK k \in Metas : Meta(k)
      BY <1>3
    <2>2. pc' \in {"hdr", "error"}
      BY <2>1 DEF Meta, Return
    <2> QED  BY <2>1, <2>2, MetaTurn DEF KeepsTurn
  <1>4. CASE KeyType
    BY <1>4, KeyTypeTurn DEF Announces
  <1>5. CASE KeyHdr
    <2>1. pc = "len" /\ dec'.type = dec.type
      <3> DEFINE k == Length(Start(NoSize))
                 t == Text(k)
                 r == Unzip(IF dec.is_rdb_file THEN Length(t) ELSE k)
      <3>1. /\ pc = "len"
            /\ dec' = IF r.rc # "ok" THEN dec
                      ELSE IF dec.is_rdb_file
                      THEN [dec EXCEPT !.rlen = r.len, !.key = t.vals[1],
                                       !.key_block = IF k.len[1] = "lzf" THEN t.p.buf ELSE 0]
                      ELSE [dec EXCEPT !.rlen = r.len]
        BY <1>5 DEF KeyHdr
      <3> HIDE DEF r, t, k
      <3> QED  BY <3>1 DEF IInv, DecOK
    <2> QED  BY <1>5, <2>1, HeaderTurn DEF SameKey, KeepsTurn
  <1>6. CASE StartKey
    BY <1>6, StartKeyTurn DEF SameKey, KeepsTurn
  <1> QED  BY <1>1, <1>2, <1>3, <1>4, <1>5, <1>6

LEMMA BodySteps ==
  ASSUME IInv, OwnSeq(evs),
         BodyString \/ HashEntry \/ SetMember \/ ListElem \/ ZSetMember \/ EndLoop
           \/ ZipList \/ ZipMap \/ IntSet \/ Module \/ DecodeStream
  PROVE  KeepsTurn /\ SameKey /\ dec' = dec /\ pc = "body"
  <1>1. CASE HashEntry \/ SetMember \/ ListElem \/ ZSetMember
    BY <1>1, ElementsTurn DEF SameKey
  <1>2. CASE BodyString \/ ZipList \/ ZipMap \/ IntSet
    BY <1>2, PiecesTurn DEF SameKey
  <1>3. CASE EndLoop \/ EndStream \/ StreamNoName \/ Module
    BY <1>3, EndsTurn DEF SameKey
  <1>4. CASE StreamBlock \/ StreamEntry \/ StreamInfo
    BY <1>4, StreamBlockTurn, StreamEntryTurn, StreamInfoTurn DEF SameKey
  <1>5. CASE StreamGroup \/ StreamPend
    BY <1>5, StreamGroupTurn, StreamPendTurn DEF SameKey
  <1>6. CASE StreamConsumers \/ StreamCons \/ StreamConsPend
    BY <1>6, StreamConsumersTurn, StreamConsTurn, StreamConsPendTurn DEF SameKey
  <1>7. CASE EndCons \/ EndGroup
    BY <1>7, StreamEndsTurn DEF SameKey
  <1> QED  BY <1>1, <1>2, <1>3, <1>4, <1>5, <1>6, <1>7 DEF DecodeStream

(* A type that was announced stays announced, as every call that was made. *)
LEMMA StaysAnnounced ==
  ASSUME OwnSeq(evs), Announced, Extends(evs, evs'),
         pc' \in {"len", "start", "body"} => Announces \/ SameKey
  PROVE  Announced' /\ (NoQuicklists' => NoQuicklists)
  <1>1. Len(evs) \in Nat /\ Len(evs') \in Nat /\ Len(evs) <= Len(evs')
        /\ \A i \in 1 .. Len(evs) : evs'[i] = evs[i]
    BY OwnLen DEF Extends
  <1>2. \A i \in 1 .. Len(evs) : i \in 1 .. Len(evs')
    BY <1>1
  <1>3. NoQuicklists' => NoQuicklists
    BY <1>1, <1>2 DEF NoQuicklists
  <1>4. ASSUME pc' \in {"len", "start", "body"}
        PROVE  \E i \in 1 .. Len(evs') : /\ evs'[i][1] = "d_start_type"
                                         /\ evs'[i][3] = <<dec'.type>>
    <2>1. CASE SameKey
      <3>1. PICK i \in 1 .. Len(evs) : evs[i][1] = "d_start_type" /\ evs[i][3] = <<dec.type>>
        BY <2>1 DEF Announced, SameKey
      <3>2. evs'[i] = evs[i] /\ dec'.type = dec.type /\ i \in 1 .. Len(evs')
        BY <1>1, <1>2, <2>1, <3>1 DEF SameKey
      <3> QED  BY <3>1, <3>2
    <2>2. CASE Announces
      <3> DEFINE e == <<"d_start_type", 0, <<dec'.type>>>>
                 t == <<e>>
      <3>1. e[1] = "d_start_type" /\ e[3] = <<dec'.type>>
        OBVIOUS
      <3>2. evs' = evs \o t
        BY <2>2 DEF Announces
      <3> HIDE DEF e
      <3>3. OwnSeq(t) /\ Len(t) = 1 /\ t[1] = e
        BY OneElement
      <3> HIDE DEF t
      <3>4. /\ Len(evs \o t) = Len(evs) + Len(t)
            /\ \A i \in 1 .. Len(t) : (evs \o t)[Len(evs) + i] = t[i]
        BY <3>3, Joined
      <3> DEFINE n == Len(evs) + 1
      <3>5. evs'[n] = e /\ n \in 1 .. Len(evs')
        BY <1>1, <3>2, <3>3, <3>4
      <3> QED  BY <3>1, <3>5
    <2> QED  BY <1>4, <2>1, <2>2
  <1> QED  BY <1>3, <1>4 DEF Announced

LEMMA KeptCalls ==
  ASSUME OwnSeq(evs), CallsInv, CallsGoOn,
         pc' \in {"len", "start", "body"} => Announces \/ SameKey
  PROVE  CallsInv'
  <1>1. Announced /\ Extends(evs, evs')
    BY DEF CallsInv, CallsGoOn
  <1>2. Announced' /\ (NoQuicklists' => NoQuicklists)
    BY <1>1, StaysAnnounced
  <1>3. OwnSeq(evs')
    BY <1>1 DEF Extends
  <1>4. NoQuicklists' => InTurn(evs') /\ CountInv'
    BY <1>2 DEF CallsInv, CallsGoOn
  <1> QED  BY <1>2, <1>3, <1>4 DEF CallsInv

LEMMA QuickCalls ==
  ASSUME IInv, CallsInv, QuickNode
  PROVE  CallsInv'
  <1>1. OwnSeq(evs) /\ Announced
    BY DEF CallsInv
  <1>2. Extends(evs, evs') /\ dec' = dec /\ pc = "body" /\ dec.type \in Quick
    BY <1>1, QuickExtends
  <1>3. SameKey
    BY <1>2 DEF SameKey
  <1>4. Announced' /\ (NoQuicklists' => NoQuicklists)
    BY <1>1, <1>2, <1>3, StaysAnnounced
  <1>5. ~ NoQuicklists
    BY <1>1, <1>2 DEF Announced, NoQuicklists
  <1>6. OwnSeq(evs')
    BY <1>2 DEF Extends
  <1> QED  BY <1>4, <1>5, <1>6 DEF CallsInv

LEMMA LastCalls ==
  ASSUME CallsInv, KeyDone \/ EndOfFile \/ Error
  PROVE  CallsInv'
  <1>1. OwnSeq(evs)
    BY DEF CallsInv
  <1>2. pc' \in {"hdr", "done"}
        /\ \/ evs' = evs
           \/ \E ok : evs' = Append(evs, <<"d_finish", 0, <<ok>>>>)
    BY DEF KeyDone, EndOfFile, Error, Finish
  <1>3. KeepsTurn
    <2>1. CASE evs' = evs
      BY <1>1, <1>2, <2>1, SilentTurn
    <2>2. ASSUME NEW ok, evs' = Append(evs, <<"d_finish", 0, <<ok>>>>)
          PROVE  KeepsTurn
      <3> DEFINE e == <<"d_finish", 0, <<ok>>>>
      <3>1. e[1] \notin Loud
        BY DEF Elements, Loud
      <3>2. evs' = Append(evs, e)
        BY <2>2
      <3> HIDE DEF e
      <3>3. evs' = evs \o <<e>>
        BY <1>1, <3>2, AppendIs
      <3>4. Quiet(<<e>>)
        BY <3>1, OneQuiet
      <3> QED  BY <1>1, <1>2, <3>3, <3>4, QuietTurn
    <2> QED  BY <1>2, <2>1, <2>2
  <1> QED  BY <1>1, <1>2, <1>3, KeptCalls DEF KeepsTurn

LEMMA SameCalls == CallsInv /\ UNCHANGED vars => CallsInv'
  <1> SUFFICES ASSUME CallsInv, UNCHANGED vars PROVE CallsInv'
    OBVIOUS
  <1>1. evs' = evs /\ pc' = pc /\ dec' = dec /\ loop' = loop
    BY DEF vars, decode_vars
  <1> QED  BY <1>1 DEF CallsInv, Announced, NoQuicklists, InTurn, CountInv, Loop, Sub, Follows,
                       Resting

LEMMA StepCalls == IInv /\ CallsInv /\ [Next]_vars => CallsInv'
  <1> SUFFICES ASSUME IInv, CallsInv, [Next]_vars PROVE CallsInv'
    OBVIOUS
  <1>1. OwnSeq(evs)
    BY DEF CallsInv
  <1>2. ASSUME DecodeStep PROVE CallsInv'
    <2>1. Decode
      BY <1>2 DEF DecodeStep
    <2>2. CASE Open \/ (\E k \in Metas : Meta(k)) \/ ModuleAux \/ EofMark \/ KeyType
               \/ KeyHdr \/ StartKey
      <3>1. CallsGoOn /\ (pc' \in {"len", "start", "body"} => Announces \/ SameKey)
        BY <1>1, <2>2, HeaderSteps
      <3> QED  BY <1>1, <3>1, KeptCalls
    <2>3. CASE BodyString \/ HashEntry \/ SetMember \/ ListElem \/ ZSetMember \/ EndLoop
               \/ ZipList \/ ZipMap \/ IntSet \/ Module \/ DecodeStream
      BY <1>1, <2>3, BodySteps, KeptCalls DEF KeepsTurn
    <2>4. CASE QuickNode
      BY <2>4, QuickCalls
    <2> QED  BY <2>1, <2>2, <2>3, <2>4 DEF Decode
  <1>3. CASE KeyDone \/ EndOfFile \/ Error
    BY <1>3, LastCalls
  <1>4. CASE UNCHANGED vars
    BY <1>4, SameCalls
  <1> QED  BY <1>2, <1>3, <1>4 DEF Next, Step, Exited

LEMMA InitCalls == Init => CallsInv
  <1> SUFFICES ASSUME Init PROVE CallsInv
    OBVIOUS
  <1>1. evs = <<>> /\ pc = "hdr"
    BY DEF Init
  <1>2. OwnSeq(evs)
    BY <1>1, NoneQuiet DEF Quiet
  <1>3. InTurn(evs)
    BY <1>1 DEF InTurn
  <1> QED  BY <1>1, <1>2, <1>3 DEF CallsInv, Announced, CountInv

(* Every element that decode_body() reports carries the number that follows*)
(* the one before it, and the first one of a list 0, for every input that  *)
(* has no quicklist: the first element of a quicklist's second node repeats*)
(* the number of the first node's last, as the run "quicklist" shows.      *)
THEOREM ElementsInTurn == Spec => [](NoQuicklists => Numbered)
  <1>1. CallsInv => (NoQuicklists => Numbered)
    BY DEF CallsInv, InTurn, Numbered, Elements
  <1>2. IInv /\ CallsInv /\ [Next]_vars => CallsInv'
    BY StepCalls
  <1>3. Spec => []CallsInv
    BY <1>2, InitCalls, Invariance, PTL DEF Spec
  <1> QED  BY <1>1, <1>3, PTL
-----------------------------------------------------------------------------
(* The commands of -r. *)

(* The type of the key at hand is where RestoreOutput remembers it, and    *)
(* behind it the key, if it was read from there, until its command is due. *)
KeyPlace(t) ==
  LET n == Len(dec.key[2])
  IN  /\ n \in Nat /\ t + 2 + n <= Len(win)
      /\ win[t + 2][1] = "len" /\ win[t + 2][2] = n
      /\ SubSeq(win, t + 3, t + 2 + n) = dec.key[2]

RestoreOK == DOMAIN restore = {"type_offset", "is_matched", "ttl_ms", "idle", "freq"}

TypePlace == /\ restore.type_offset \in Nat /\ restore.type_offset + 1 <= Len(win)
             /\ win[restore.type_offset + 1][1] = "type"
             /\ win[restore.type_offset + 1][2] = dec.type

CutInv ==
  /\ RestoreOK
  /\ pc \in {"len", "start", "body", "keydone"} => TypePlace
  /\ pc = "len" => bptr.buf = Main /\ bptr.offset = restore.type_offset + 1
  /\ pc \in {"start", "body", "keydone"} /\ dec.is_rdb_file /\ dec.key_block = 0
       /\ dec.key[1] = "str" => KeyPlace(restore.type_offset)

LEMMA BodyPlaces ==
  ASSUME BodyString \/ HashEntry \/ SetMember \/ ListElem \/ ZSetMember \/ EndLoop
           \/ ZipList \/ ZipMap \/ IntSet \/ QuickNode \/ Module \/ DecodeStream
  PROVE  pc' \in {"body", "keydone", "error"} /\ win' = win
  <1>1. ASSUME NEW r, NEW to \in {"body", "keydone"}, Return(r, to)
        PROVE  pc' \in {"body", "keydone", "error"}
    BY <1>1 DEF Return
  <1>2. CASE HashEntry \/ SetMember \/ ListElem \/ ZSetMember
    BY <1>1, <1>2 DEF HashEntry, SetMember, ListElem, ZSetMember, Element, Body
  <1>3. CASE BodyString
    BY <1>1, <1>3 DEF BodyString, Body
  <1>4. CASE EndLoop
    BY <1>1, <1>4 DEF EndLoop, Body
  <1>5. CASE ZipList \/ ZipMap \/ IntSet
    BY <1>1, <1>5 DEF ZipList, ZipMap, IntSet, Packed, Body
  <1>6. CASE QuickNode
    BY <1>1, <1>6 DEF QuickNode, Body
  <1>7. CASE Module
    BY <1>1, <1>7 DEF Module, Body
  <1>8. CASE StreamBlock
    BY <1>1, <1>8 DEF StreamBlock, Part, Body
  <1>9. CASE StreamEntry
    BY <1>1, <1>9 DEF StreamEntry, Part, Body
  <1>10. CASE StreamInfo
    BY <1>1, <1>10 DEF StreamInfo, Part, Body
  <1>11. CASE StreamNoName
    BY <1>1, <1>11 DEF StreamNoName, Part, Body
  <1>12. CASE StreamGroup
    BY <1>1, <1>12 DEF StreamGroup, Part, Body
  <1>13. CASE StreamPend
    BY <1>1, <1>13 DEF StreamPend, Part, Body
  <1>14. CASE StreamConsumers
    BY <1>1, <1>14 DEF StreamConsumers, Part, Body
  <1>15. CASE StreamCons
    BY <1>1, <1>15 DEF StreamCons, Part, Body
  <1>16. CASE StreamConsPend
    BY <1>1, <1>16 DEF StreamConsPend, Part, Body
  <1>17. CASE EndCons \/ EndGroup
    BY <1>1, <1>17 DEF EndCons, EndGroup, Part, Body
  <1>18. CASE EndStream
    BY <1>1, <1>18 DEF EndStream, Part, Body
  <1> QED  BY <1>2, <1>3, <1>4, <1>5, <1>6, <1>7, <1>8, <1>9, <1>10, <1>11, <1>12, <1>13,
              <1>14, <1>15, <1>16, <1>17, <1>18 DEF DecodeStream

(* Only the announcement of a type moves the place of the type.            *)
LEMMA Heard ==
  ASSUME DecodeStep, Untyped, RestoreOK
  PROVE  RestoreOK' /\ restore'.type_offset = restore.type_offset
  <1> DEFINE e == evs'[Len(evs) + 1]
  <1>1. restore' = IF evs' = evs THEN restore ELSE Hears(restore, e)
    BY DEF DecodeStep
  <1>2. CASE evs' = evs
    BY <1>1, <1>2 DEF RestoreOK
  <1>3. CASE evs' # evs
    <2>1. e[1] # "d_start_type" /\ restore' = Hears(restore, e)
      BY <1>1, <1>3 DEF Untyped
    <2> HIDE DEF e
    <2> QED  BY <2>1 DEF Hears, RestoreOK
  <1> QED  BY <1>2, <1>3

(* One call more: it is behind the others.                                 *)
LEMMA OneMoreCall ==
  ASSUME NEW s, OwnSeq(s), NEW e
  PROVE  s \o <<e>> # s /\ (s \o <<e>>)[Len(s) + 1] = e
  <1> DEFINE u == <<e>>
  <1>1. OwnSeq(u) /\ Len(u) = 1 /\ u[1] = e
    BY OneElement
  <1> HIDE DEF u
  <1>2. /\ Len(s \o u) = Len(s) + Len(u) /\ Len(s) \in Nat
        /\ \A i \in 1 .. Len(u) : (s \o u)[Len(s) + i] = u[i]
    <2>1. OwnSeq(u)
      BY <1>1
    <2> QED  BY <2>1, Joined
  <1> DEFINE w == s \o u
  <1>3. Len(w) = Len(s) + Len(u) /\ \A i \in 1 .. Len(u) : w[Len(s) + i] = u[i]
    BY <1>2
  <1>4. Len(s) \in Nat
    BY <1>2
  <1> HIDE DEF w
  <1>5. Len(w) # Len(s) /\ w[Len(s) + 1] = e
    BY <1>1, <1>3, <1>4
  <1>6. w # s
    BY <1>5
  <1> QED  BY <1>5, <1>6 DEF u, w

(* A type announced is the one in front of the cursor.                     *)
LEMMA KeyTypeCut ==
  ASSUME IInv, OwnSeq(evs), CutInv, DecodeStep, KeyType
  PROVE  CutInv'
  <1> DEFINE r == Start(NoSize)
             t == get_rdb_type(IF bptr.avail > 0 THEN Here(r) ELSE NoSize)
             s == CASE bptr.avail = 0 -> Failed(r, "trunc")
                    [] bptr.avail > 0 /\ t = "bad" -> Failed(r, "type")
                    [] bptr.avail > 0 /\ t # "bad" -> Skip(r, 1)
             e == <<"d_start_type", 0, <<t>>>>
  <1>1. /\ pc = "hdr" /\ Return(s, "len") /\ Calls(s, <<e>>)
        /\ dec' = [dec EXCEPT !.type = t] /\ win' = win
    BY DEF KeyType
  <1>2. restore' = IF evs' = evs THEN restore ELSE Hears(restore, evs'[Len(evs) + 1])
    BY DEF DecodeStep
  <1>3. PICK m \in 0 .. Len(win) : GoodCursor(bptr, heap, m)
    BY SomeEnd
  <1>4. bptr \in Bufptr /\ bptr.avail \in Nat /\ bptr.offset \in Nat /\ Len(win) \in Nat
    BY SomeEnd DEF Bufptr
  <1>5. e[1] = "d_start_type"
    OBVIOUS
  <1> HIDE DEF e
  <1>6. pc' = IF s.rc = "ok" THEN "len" ELSE "error"
    BY <1>1 DEF Return
  <1>7. evs' = IF s.rc = "ok" THEN evs \o <<e>> ELSE evs
    BY <1>1, CallsAre
  <1>8. CASE s.rc = "ok"
    <2>1. bptr.avail > 0 /\ t # "bad" /\ s = Skip(r, 1)
      <3>1. r.rc = "ok" /\ DOMAIN r = {"p", "heap", "len", "vals", "rc"}
        BY DEF Start
      <3> HIDE DEF r, t
      <3>2. Failed(r, "trunc").rc = "trunc" /\ Failed(r, "type").rc = "type"
        BY <3>1 DEF Failed
      <3> QED  BY <1>4, <1>8, <3>2
    <2>2. bptr.buf = Main
      <3>1. bptr.buf = Main \/ bptr.avail <= 0
        BY <1>1 DEF IInv, PlaceInv, Within
      <3> HIDE DEF r, t, s
      <3> QED  BY <1>4, <2>1, <3>1
    <2>3. bptr.offset + bptr.avail <= Len(win)
      BY <1>3, <1>4, <2>2 DEF GoodCursor
    <2>4. Here(r) = win[bptr.offset + 1]
      BY <2>2 DEF Here, Bytes, Start
    <2>5. win[bptr.offset + 1][1] = "type" /\ win[bptr.offset + 1][2] = t
      <3> HIDE DEF r
      <3> QED  BY <2>1, <2>4 DEF get_rdb_type
    <2>6. s.p = Incr(bptr, 1)
      BY <2>1 DEF Skip, Start
    <2> HIDE DEF r, t, s
    <2>7. bptr'.buf = Main /\ bptr'.offset = bptr.offset + 1
      BY <1>1, <1>4, <2>2, <2>6 DEF Return, Incr, Bufptr
    <2>8. evs' = evs \o <<e>> /\ pc' = "len"
      BY <1>6, <1>7, <1>8
    <2>9. evs' # evs /\ evs'[Len(evs) + 1] = e
      BY <2>8, OneMoreCall
    <2>10. restore' = [restore EXCEPT !.is_matched = FALSE, !.type_offset = bptr.offset]
      BY <1>2, <1>5, <2>9 DEF Hears
    <2>11. RestoreOK' /\ restore'.type_offset = bptr.offset
      BY <2>10 DEF CutInv, RestoreOK
    <2>12. dec'.type = t
      BY <1>1 DEF IInv, DecOK
    <2>13. TypePlace'
      BY <1>1, <1>4, <2>1, <2>3, <2>5, <2>11, <2>12 DEF TypePlace
    <2> QED  BY <2>7, <2>8, <2>11, <2>13 DEF CutInv
  <1>9. CASE s.rc # "ok"
    <2>1. pc' = "error" /\ restore' = restore
      BY <1>2, <1>6, <1>7, <1>9
    <2> QED  BY <2>1 DEF CutInv, RestoreOK
  <1> QED  BY <1>8, <1>9

(* A length read where nothing is parked: it is the cell at the cursor.    *)
LEMMA LengthHere ==
  ASSUME NEW r, NEW e \in 0 .. Len(win), Core(r, e, 0), r.p.buf = Main,
         r.rc = "ok", Length(r).rc = "ok", Len(win) \in Nat
  PROVE  /\ Core(Length(r), e, 0) /\ Length(r).rc = "ok"
         /\ Length(r).len = win[r.p.offset + 1]
         /\ Length(r).vals = r.vals /\ Length(r).heap = r.heap
         /\ Length(r).p.buf = Main /\ Length(r).p.offset = r.p.offset + 1
         /\ Length(r).len[1] \in {"len", "int", "lzf"}
  <1>1. r.p \in Bufptr /\ r.p.sav = Null /\ r.p.sav_avail = 0
    BY DEF Core, GoodCursor, Bufptr, Null, Main
  <1>2. Look(r.p) = r.p
    BY <1>1 DEF Look
  <1> DEFINE a == AfterLook(r)
  <1>3. /\ DOMAIN a = DOMAIN r /\ a.p = r.p /\ a.heap = r.heap /\ a.vals = r.vals
        /\ a.rc = "ok"
    BY <1>2 DEF AfterLook, Core
  <1>4. Length(r) = Header(a)
    BY <1>3, LengthIs, LookedIs
  <1> HIDE DEF a
  <1>a. Core(a, e, 0)
    BY <1>3 DEF Core
  <1> DEFINE s == Skip(a, 1)
             h == Here(a)
  <1>5. CanIncr(a.p, 1) /\ h[1] \in {"len", "int", "lzf"}
        /\ Length(r) = [s EXCEPT !.len = h]
    <2>1. "trunc" \in Codes /\ "hdr" \in Codes
      BY DEF Codes
    <2>2. Failed(a, "trunc").rc = "trunc" /\ Failed(a, "hdr").rc = "hdr"
      BY <1>a, <2>1, FailedKeeps, Zenon
    <2>3. Header(a) = CASE ~ CanIncr(a.p, 1) -> Failed(a, "trunc")
                        [] CanIncr(a.p, 1) /\ h[1] \in {"len", "int", "lzf"} ->
                             [s EXCEPT !.len = h]
                        [] OTHER -> Failed(a, "hdr")
      BY DEF Header
    <2> HIDE DEF s, h
    <2> QED  BY <1>4, <2>2, <2>3
  <1>6. h = win[r.p.offset + 1]
    BY <1>3 DEF Here, Bytes
  <1>7. /\ Core(s, e, 0) /\ s.p.buf = Main /\ s.p.offset = r.p.offset + 1
        /\ s.heap = r.heap /\ s.vals = r.vals
    <2>1. /\ Core(s, e, 0) /\ s.p.buf = a.p.buf /\ s.p.offset = a.p.offset + 1
          /\ s.heap = a.heap /\ s.vals = a.vals
      <3>1. e \in Nat
        OBVIOUS
      <3> QED  BY <1>a, <1>5, <3>1, StepKeeps, Zenon
    <2> HIDE DEF s
    <2> QED  BY <1>3, <2>1
  <1> HIDE DEF s, h
  <1> DEFINE k == Length(r)
  <1>8. /\ DOMAIN k = DOMAIN s /\ k.p = s.p /\ k.heap = s.heap /\ k.vals = s.vals
        /\ k.rc = s.rc /\ k.len = h
    BY <1>5, <1>7 DEF Core
  <1> HIDE DEF k
  <1>9. Core(k, e, 0)
    BY <1>7, <1>8 DEF Core
  <1> QED  BY <1>5, <1>6, <1>7, <1>8, <1>9 DEF k
(* Bytes taken are the ones at the cursor.                                 *)
LEMMA TakeIs ==
  ASSUME NEW r, NEW e \in Nat, NEW m, Core(r, e, m), NEW n \in Nat, Take(r, n).rc = "ok"
  PROVE  /\ CanIncr(r.p, n) /\ Take(r, n).p.buf = r.p.buf
         /\ Take(r, n).vals = Append(r.vals, <<"str", Ahead(r, n)>>)
  <1> DEFINE x == <<"str", Ahead(r, n)>>
             v == Value(r, x)
             s == Skip(v, n)
  <1>1. Take(r, n) = IF CanIncr(r.p, n) THEN s ELSE Failed(r, "trunc")
    BY DEF Take
  <1> HIDE DEF x, s
  <1>2. CanIncr(r.p, n)
    <2>1. "trunc" \in Codes
      BY DEF Codes
    <2>2. Failed(r, "trunc").rc = "trunc"
      BY <2>1, FailedKeeps, Zenon
    <2> QED  BY <1>1, <2>2
  <1>3. Core(v, e, m) /\ v.p = r.p /\ v.vals = Append(r.vals, x)
    BY ValueKeeps, Zenon
  <1> HIDE DEF v
  <1>4. CanIncr(v.p, n)
    BY <1>2, <1>3
  <1>5. s.p.buf = v.p.buf /\ s.vals = v.vals
    BY <1>3, <1>4, SkipKeeps, Zenon DEF s
  <1> QED  BY <1>1, <1>2, <1>3, <1>5 DEF x

(* A string expanded is in a block.                                        *)
LEMMA ExpandMoves ==
  ASSUME NEW r, NEW e \in Nat, NEW m, Core(r, e, m), r.len[1] = "lzf", Expand(r).rc = "ok"
  PROVE  Expand(r).p.buf # Main
  <1> DEFINE p == r.p
             z == r.len[2]
             l == r.len[3]
             d == Decompress(p, z, l)
  <1>1. p.alloced \in Nat
    BY DEF Core, GoodCursor, Bufptr
  <1>2. d.buf = p.alloced + 1
    <2> DEFINE i == Incr(p, z)
               q == Parked(i)
    <2>1. i.alloced = p.alloced
      BY DEF Incr, Core, GoodCursor, Bufptr
    <2>2. q.alloced = i.alloced
      BY DEF Parked, Incr, Core, GoodCursor, Bufptr
    <2>3. d.buf = q.alloced + 1
      BY DEF Decompress
    <2> HIDE DEF d, q, i, p
    <2> QED  BY <2>1, <2>2, <2>3
  <1>3. CanIncr(r.p, z) /\ Here(r)[1] = "zip"
    <2>1. "lzf" \in Codes
      BY DEF Codes
    <2>2. Failed(r, "lzf").rc = "lzf"
      BY <2>1, FailedKeeps, Zenon
    <2>3. ~ CanIncr(r.p, z) => Expand(r) = Failed(r, "lzf")
      BY DEF Expand
    <2> DEFINE s == Skip(r, z)
    <2>4. CanIncr(r.p, z) /\ Here(r)[1] # "zip" => Expand(r) = Failed(s, "lzf")
      BY DEF Expand
    <2>5. DOMAIN s = DOMAIN r /\ "rc" \in DOMAIN r
      BY DEF Core, Skip
    <2> HIDE DEF s
    <2>6. Failed(s, "lzf").rc = "lzf"
      BY <2>5 DEF Failed
    <2> QED  BY <2>2, <2>3, <2>4, <2>6
  <1>4. Expand(r) = [r EXCEPT !.p = d, !.heap = Append(@, Here(r)[2])]
    BY <1>3 DEF Expand
  <1> HIDE DEF d
  <1>5. Expand(r).p = d
    BY <1>4 DEF Core
  <1> HIDE DEF p
  <1> QED  BY <1>1, <1>2, <1>5 DEF Main
(* A key read where it is, and not out of a block, is what is behind its   *)
(* length.                                                                 *)
LEMMA KeyText ==
  ASSUME NEW k, NEW e \in 0 .. Len(win), WellFormed(win), Core(k, e, 0), k.rc = "ok",
         k.p.buf = Main, k.vals = <<>>, HeaderRead(k),
         Text(k).rc = "ok", Text(k).vals[1][1] = "str",
         k.len[1] = "lzf" => Text(k).p.buf = 0
  PROVE  /\ k.len[1] = "len" /\ k.p.offset + k.len[2] <= Len(win)
         /\ Text(k).vals[1] =
              <<"str", SubSeq(win, k.p.offset + 1, k.p.offset + k.len[2])>>
  <1>1. e \in Nat /\ Len(win) \in Nat /\ win \in Seq({win[i] : i \in DOMAIN win})
    BY DEF WellFormed, Cells
  <1>2. k.len[1] # "int"
    <2> SUFFICES ASSUME k.len[1] = "int" PROVE FALSE
      OBVIOUS
    <2>1. Text(k) = Value(k, k.len)
      BY TextIs DEF IsInt, Integer
    <2>2. Value(k, k.len).vals = Append(k.vals, k.len)
      BY ValueKeeps, Zenon
    <2>3. Append(<<>>, k.len)[1] = k.len
      OBVIOUS
    <2> QED  BY <2>1, <2>2, <2>3
  <1> DEFINE x == Expand(k)
             n == LenOf(x.len)
  <1>3. x.rc = "ok" /\ Text(k) = Take(x, n)
    <2>1. Text(k) = IF x.rc = "ok" THEN Data(x) ELSE x
      BY <1>2, TextIs, consumeIs DEF IsInt
    <2>2. Data(x) = Take(x, n)
      BY DEF Data
    <2> HIDE DEF x
    <2> QED  BY <2>1, <2>2
  <1>4. CASE k.len[1] = "lzf"
    <2>1. x.p.buf # Main
      BY <1>1, <1>3, <1>4, ExpandMoves
    <2> DEFINE z == 0
    <2>2. z \in Nat /\ Ready(k, e, z, z)
      BY DEF Ready, Within
    <2> HIDE DEF z
    <2>3. Core(x, e, z) /\ x.len = k.len
      BY <2>2, ExpandKeeps, Zenon
    <2>4. n \in Nat
      BY <2>3 DEF HeaderRead, IsSize
    <2> HIDE DEF x, n
    <2>5. Take(x, n).p.buf = x.p.buf
      BY <1>1, <1>3, <2>3, <2>4, TakeIs, Zenon
    <2> QED  BY <1>3, <1>4, <2>1, <2>5 DEF Main
  <1>5. CASE k.len[1] = "len"
    <2>1. x = k
      BY <1>5 DEF Expand
    <2>2. n = k.len[2] /\ n \in Nat
      BY <1>5, <2>1 DEF LenOf, HeaderRead, IsSize
    <2>3. Text(k) = Take(k, n)
      BY <1>3, <2>1
    <2> HIDE DEF n, x
    <2>4. CanIncr(k.p, n) /\ Take(k, n).vals = Append(k.vals, <<"str", Ahead(k, n)>>)
      <3>1. Take(k, n).rc = "ok"
        BY <2>3
      <3> QED  BY <1>1, <2>2, <3>1, TakeIs, Zenon
    <2>5. Ahead(k, n) = SubSeq(win, k.p.offset + 1, k.p.offset + n)
      BY DEF Ahead, Bytes
    <2>6. k.p.offset + n <= Len(win)
      <3>1. /\ k.p.offset \in Nat /\ k.p.avail \in Nat /\ k.p.offset + k.p.avail = e
            /\ n <= k.p.avail
        BY <2>4 DEF Core, GoodCursor, Bufptr, CanIncr
      <3> QED  BY <1>1, <2>2, <3>1
    <2> DEFINE v == <<"str", Ahead(k, n)>>
    <2>7. Text(k).vals = Append(<<>>, v)
      BY <2>3, <2>4
    <2> HIDE DEF v
    <2>8. Text(k).vals[1] = v
      BY <2>7
    <2> QED  BY <1>5, <2>2, <2>5, <2>6, <2>8 DEF v
  <1> QED  BY <1>2, <1>4, <1>5 DEF HeaderRead, IsSize
(* The key is read, and it is behind the type.                             *)
LEMMA KeyHdrCut ==
  ASSUME IInv, CutInv, KeyHdr, restore' = restore
  PROVE  CutInv'
  <1> DEFINE s == Start(NoSize)
             k == Length(s)
             t == Text(k)
             r == Unzip(IF dec.is_rdb_file THEN Length(t) ELSE k)
             o == restore.type_offset
  <1>1. /\ pc = "len" /\ Return(r, "start") /\ win' = win
        /\ dec' = IF r.rc # "ok" THEN dec
                  ELSE IF dec.is_rdb_file
                  THEN [dec EXCEPT !.rlen = r.len, !.key = t.vals[1],
                                   !.key_block = IF k.len[1] = "lzf" THEN t.p.buf ELSE 0]
                  ELSE [dec EXCEPT !.rlen = r.len]
    BY DEF KeyHdr
  <1>2. PICK e \in 0 .. Len(win) : GoodCursor(bptr, heap, e)
    BY SomeEnd
  <1>3. Len(heap) \in Nat /\ WellFormed(win) /\ Len(win) \in Nat
    BY SomeEnd
  <1>4. /\ RestoreOK /\ TypePlace /\ bptr.buf = Main /\ bptr.offset = o + 1 /\ o \in Nat
    BY <1>1 DEF CutInv, TypePlace
  <1>5. dec.is_rdb_file /\ r.rc = "ok" => Length(t).rc = "ok"
    <2> DEFINE lt == Length(t)
    <2>1. Unzip(lt) = IF lt.rc = "ok" THEN Expand(lt) ELSE lt
      BY UnzipIs, Zenon
    <2>2. dec.is_rdb_file => r = Unzip(lt)
      OBVIOUS
    <2> HIDE DEF r, lt
    <2>3. dec.is_rdb_file /\ r.rc = "ok" => lt.rc = "ok"
      BY <2>1, <2>2
    <2> QED  BY <2>3 DEF lt
  <1> HIDE DEF r
  <1>6. pc' = (IF r.rc = "ok" THEN "start" ELSE "error")
    BY <1>1 DEF Return
  <1>7. CASE r.rc # "ok"
    <2>1. pc' = "error" /\ RestoreOK'
      BY <1>4, <1>6, <1>7 DEF RestoreOK
    <2> QED  BY <2>1 DEF CutInv
  <1>8. CASE r.rc = "ok"
    <2>1. pc' = "start" /\ RestoreOK'
      BY <1>4, <1>6, <1>8 DEF RestoreOK
    <2>2. /\ dec'.type = dec.type /\ dec'.is_rdb_file = dec.is_rdb_file
          /\ dec.is_rdb_file =>
               /\ dec'.key = t.vals[1]
               /\ dec'.key_block = IF k.len[1] = "lzf" THEN t.p.buf ELSE 0
      <3> DEFINE y == t.vals[1]
                 x == IF k.len[1] = "lzf" THEN t.p.buf ELSE 0
      <3>1. dec' = IF dec.is_rdb_file
                   THEN [dec EXCEPT !.rlen = r.len, !.key = y, !.key_block = x]
                   ELSE [dec EXCEPT !.rlen = r.len]
        BY <1>1, <1>8
      <3> HIDE DEF x, y
      <3>2. /\ dec'.type = dec.type /\ dec'.is_rdb_file = dec.is_rdb_file
            /\ dec.is_rdb_file => dec'.key = y /\ dec'.key_block = x
        BY <3>1 DEF IInv, DecOK
      <3> QED  BY <3>2 DEF x, y
    <2>3. TypePlace'
      BY <1>1, <1>4, <2>2 DEF TypePlace
    <2>4. ASSUME dec'.is_rdb_file, dec'.key_block = 0, dec'.key[1] = "str"
          PROVE  KeyPlace(o)'
      <3>1. t.vals[1][1] = "str" /\ (k.len[1] = "lzf" => t.p.buf = 0) /\ dec'.key = t.vals[1]
        BY <2>2, <2>4
      <3>2. Length(t).rc = "ok"
        BY <1>5, <1>8, <2>2, <2>4
      <3>3. t.rc = "ok"
        BY <3>2, LengthIs
      <3>4. k.rc = "ok"
        BY <3>3, TextIs
      <3> HIDE DEF t
      <3> DEFINE z == 0
      <3>5. z \in Nat /\ Within(bptr, z) /\ pc # "done"
        BY <1>1, <1>4 DEF Within
      <3> HIDE DEF z
      <3>6. /\ Ready(s, e, z, Len(heap)) /\ s.vals = <<>> /\ s.rc = "ok"
            /\ s.p = bptr /\ s.heap = heap
        BY <1>2, <3>5, StartReady
      <3> HIDE DEF s
      <3>7. HeaderRead(k)
        <4>1. k.rc = "ok" => HeaderRead(k)
          BY <1>3, <3>5, <3>6, LengthKeeps
        <4> QED  BY <3>4, <4>1
      <3>8. Core(s, e, 0)
        BY <1>3, <3>6 DEF Ready, Core, GoodHeap
      <3>9. /\ Core(k, e, 0) /\ k.len = win[o + 2]
            /\ k.vals = <<>> /\ k.p.buf = Main /\ k.p.offset = o + 2
        <4>1. s.p.buf = Main /\ s.p.offset = o + 1
          BY <1>4, <3>6
        <4>2. /\ Core(k, e, 0) /\ k.len = win[s.p.offset + 1]
              /\ k.vals = s.vals /\ k.p.buf = Main /\ k.p.offset = s.p.offset + 1
          BY <1>3, <3>4, <3>6, <3>8, <4>1, LengthHere
        <4> HIDE DEF k
        <4> QED  BY <1>4, <3>6, <4>1, <4>2
      <3> HIDE DEF k
      <3> DEFINE n == k.len[2]
      <3>10. /\ k.len[1] = "len" /\ k.p.offset + n <= Len(win)
             /\ t.vals[1] = <<"str", SubSeq(win, k.p.offset + 1, k.p.offset + n)>>
        BY <1>3, <3>1, <3>3, <3>4, <3>7, <3>9, KeyText DEF t
      <3>11. n \in Nat
        BY <3>7, <3>10 DEF HeaderRead, IsSize, LenOf
      <3> HIDE DEF n, o
      <3> DEFINE d == dec'.key[2]
                 i == o + 2
      <3>12. /\ d = SubSeq(win, i + 1, i + n) /\ i \in Nat /\ i + n <= Len(win)
             /\ i = o + 2 /\ i + 1 = o + 3
        <4> DEFINE y == SubSeq(win, k.p.offset + 1, k.p.offset + n)
        <4>1. t.vals[1] = <<"str", y>>
          BY <3>10
        <4> HIDE DEF y
        <4>2. d = y
          BY <3>1, <4>1
        <4>3. k.p.offset = i /\ i \in Nat /\ i = o + 2 /\ i + 1 = o + 3
          BY <1>4, <3>9 DEF o
        <4> HIDE DEF d, i
        <4> QED  BY <3>10, <4>2, <4>3 DEF y
      <3> HIDE DEF d, i
      <3>13. Len(d) = n
        <4> DEFINE S == {win[j] : j \in DOMAIN win}
        <4>1. win \in Seq(S)
          BY <1>3 DEF WellFormed, Cells
        <4> HIDE DEF S
        <4>2. i \in Nat /\ n \in Nat /\ i + n <= Len(win)
          BY <3>11, <3>12
        <4>3. /\ Len(SubSeq(win, i + 1, i + n)) = n
              /\ \A j \in 1 .. n : SubSeq(win, i + 1, i + n)[j] = win[i + j]
          BY <4>1, <4>2, PartOf
        <4> QED  BY <3>12, <4>3
      <3>14. win[o + 2][1] = "len" /\ win[o + 2][2] = n
        BY <3>9, <3>10 DEF n
      <3>15. /\ Len(d) \in Nat /\ o + 2 + Len(d) <= Len(win) /\ win[o + 2][2] = Len(d)
             /\ SubSeq(win, o + 3, o + 2 + Len(d)) = d
        BY <3>11, <3>12, <3>13, <3>14
      <3> QED  BY <1>1, <3>14, <3>15 DEF KeyPlace, d, o
    <2>5. KeyPlace(o)' => KeyPlace(restore.type_offset)'
      BY DEF KeyPlace
    <2> QED  BY <2>1, <2>3, <2>4, <2>5 DEF CutInv
  <1> QED  BY <1>7, <1>8
(* A step inside a key leaves its type and the key where they are.         *)
LEMMA InsideCut ==
  ASSUME CutInv, pc \in {"start", "body"}, pc' \in {"body", "keydone", "error"},
         win' = win, RestoreOK', restore'.type_offset = restore.type_offset,
         dec'.type = dec.type, dec'.is_rdb_file = dec.is_rdb_file,
         dec'.key = dec.key, dec'.key_block = dec.key_block
  PROVE  CutInv'
  <1>1. TypePlace
    BY DEF CutInv
  <1>2. TypePlace'
    BY <1>1 DEF TypePlace
  <1>3. ASSUME dec'.is_rdb_file, dec'.key_block = 0, dec'.key[1] = "str"
        PROVE  KeyPlace(restore.type_offset)'
    <2>1. KeyPlace(restore.type_offset)
      BY <1>3 DEF CutInv
    <2> QED  BY <2>1 DEF KeyPlace
  <1> QED  BY <1>2, <1>3 DEF CutInv

(* So do the steps between two keys, which have none to look for.          *)
LEMMA OutsideCut ==
  ASSUME RestoreOK', pc' \in {"hdr", "error", "done"}
  PROVE  CutInv'
  BY DEF CutInv

LEMMA StartKeyCut ==
  ASSUME IInv, CutInv, StartKey, RestoreOK', restore'.type_offset = restore.type_offset
  PROVE  CutInv'
  <1> DEFINE r == IF dec.type \in Modules /\ dec.rlen[1] # "len"
                  THEN Failed(Start(dec.rlen), "hdr") ELSE Start(dec.rlen)
             match == match_key(dec.filter, dec.key)
  <1>1. /\ pc = "start" /\ Return(r, "body") /\ win' = win
        /\ dec' = IF r.rc = "ok" THEN [dec EXCEPT !.data = match] ELSE dec
    BY DEF StartKey
  <1> HIDE DEF r, match
  <1>2. pc' \in {"body", "error"}
    BY <1>1 DEF Return
  <1>3. /\ dec'.type = dec.type /\ dec'.is_rdb_file = dec.is_rdb_file
        /\ dec'.key = dec.key /\ dec'.key_block = dec.key_block
    BY <1>1 DEF IInv, DecOK
  <1> QED  BY <1>1, <1>2, <1>3, InsideCut

LEMMA DecodeCut ==
  ASSUME IInv, OwnSeq(evs), CutInv, DecodeStep
  PROVE  CutInv'
  <1>1. Decode /\ RestoreOK
    BY DEF DecodeStep, CutInv
  <1>2. CASE KeyType
    BY <1>2, KeyTypeCut
  <1>3. CASE KeyHdr
    <2>1. restore' = restore
      BY <1>3 DEF DecodeStep, KeyHdr
    <2> QED  BY <1>3, <2>1, KeyHdrCut
  <1>4. CASE StartKey
    <2>1. Untyped
      BY <1>4, StartKeyTurn DEF KeepsTurn
    <2>2. RestoreOK' /\ restore'.type_offset = restore.type_offset
      BY <1>1, <2>1, Heard
    <2> QED  BY <1>4, <2>2, StartKeyCut
  <1>5. CASE Open \/ ModuleAux \/ EofMark \/ \E k \in Metas : Meta(k)
    <2>1. pc' \in {"hdr", "error"}
      BY <1>5 DEF Open, OpenFile, OpenDump, ModuleAux, EofMark, Meta, Return
    <2>2. Untyped
      <3>1. CASE Open \/ ModuleAux \/ EofMark
        BY <3>1, HeaderTurn DEF KeepsTurn
      <3>2. CASE \E k \in Metas : Meta(k)
        BY <3>2, MetaTurn DEF KeepsTurn
      <3> QED  BY <1>5, <3>1, <3>2
    <2>3. RestoreOK'
      BY <1>1, <2>2, Heard
    <2> QED  BY <2>1, <2>3, OutsideCut
  <1>6. CASE BodyString \/ HashEntry \/ SetMember \/ ListElem \/ ZSetMember \/ EndLoop
               \/ ZipList \/ ZipMap \/ IntSet \/ QuickNode \/ Module \/ DecodeStream
    <2>1. pc' \in {"body", "keydone", "error"} /\ win' = win
      BY <1>6, BodyPlaces
    <2>2. Untyped /\ dec' = dec /\ pc = "body"
      <3>1. CASE QuickNode
        BY <3>1, QuickExtends
      <3>2. CASE ~ QuickNode
        BY <1>6, <3>2, BodySteps DEF KeepsTurn
      <3> QED  BY <3>1, <3>2
    <2>3. RestoreOK' /\ restore'.type_offset = restore.type_offset
      BY <1>1, <2>2, Heard
    <2> QED  BY <2>1, <2>2, <2>3, InsideCut
  <1> QED  BY <1>1, <1>2, <1>3, <1>4, <1>5, <1>6 DEF Decode

LEMMA StepCut == IInv /\ CallsInv /\ CutInv /\ [Next]_vars => CutInv'
  <1> SUFFICES ASSUME IInv, CallsInv, CutInv, [Next]_vars PROVE CutInv'
    OBVIOUS
  <1>1. OwnSeq(evs) /\ RestoreOK
    BY DEF CallsInv, CutInv
  <1>2. CASE DecodeStep
    BY <1>1, <1>2, DecodeCut
  <1>3. CASE KeyDone \/ EndOfFile \/ Error
    <2>1. pc' \in {"hdr", "done"}
      BY <1>3 DEF KeyDone, EndOfFile, Error, Finish
    <2>2. restore' = reset_state(restore) \/ restore' = restore
      BY <1>3 DEF KeyDone, write_restore_cmd, EndOfFile, Error, main_vars
    <2>3. RestoreOK'
      BY <1>1, <2>2 DEF RestoreOK, reset_state, NewRestore
    <2> QED  BY <2>1, <2>3, OutsideCut
  <1>4. CASE UNCHANGED vars
    <2>1. /\ pc' = pc /\ dec' = dec /\ bptr' = bptr /\ win' = win /\ restore' = restore
      BY <1>4 DEF vars, decode_vars, main_vars
    <2> QED  BY <2>1 DEF CutInv, RestoreOK, TypePlace, KeyPlace
  <1> QED  BY <1>2, <1>3, <1>4 DEF Next, Step, Exited

LEMMA InitCut == Init => CutInv
  BY DEF Init, CutInv, RestoreOK, NewRestore
(* A part of the front of a sequence is a part of the sequence.            *)
LEMMA SameCut ==
  ASSUME NEW S, NEW c \in Seq(S), NEW L \in 0 .. Len(c), NEW w, w = SubSeq(c, 1, L),
         NEW i \in Nat \ {0}, NEW j \in 0 .. L
  PROVE  SubSeq(w, i, j) = SubSeq(c, i, j)
  <1>1. /\ Len(w) = L /\ w \in Seq(S) /\ \A k \in 1 .. L : w[k] = c[k]
    OBVIOUS
  <1> DEFINE n == IF i <= j THEN (j - i) + 1 ELSE 0
             x == SubSeq(w, i, j)
             y == SubSeq(c, i, j)
  <1>2. \A k \in i .. j : w[k] = c[k] /\ w[k] \in S /\ c[k] \in S
    BY <1>1
  <1>3. /\ x \in Seq(S) /\ Len(x) = n
        /\ \A k \in 1 .. n : x[k] = w[i + k - 1]
    OBVIOUS
  <1>4. /\ y \in Seq(S) /\ Len(y) = n
        /\ \A k \in 1 .. n : y[k] = c[i + k - 1]
    OBVIOUS
  <1>5. \A k \in 1 .. n : i + k - 1 \in i .. j
    OBVIOUS
  <1> HIDE DEF n, x, y
  <1>6. \A k \in 1 .. n : x[k] = y[k]
    BY <1>2, <1>3, <1>4, <1>5
  <1>7. x = y
    BY <1>3, <1>4, <1>6, SeqEqual
  <1> QED  BY <1>7 DEF x, y
(* What RestoreOutput cuts out of a window that has not moved is a part of *)
(* the input, up to where the next key begins.                             *)
LEMMA KeyDoneCutsOut ==
  ASSUME IInv, CutInv, OwnSeq(cmds), KeyDone, cmds' # cmds, start_offset = 0,
         ~ (dec.is_rdb_file /\ cmds'[Len(cmds')].key = Garbage)
  PROVE  CutOut(cmds'[Len(cmds')], start_offset' + bptr'.offset)
  <1> DEFINE p == FreeAlloced(bptr)
             t == restore.type_offset
             c == input.cells
             cmd == cmds'[Len(cmds')]
             next == start_offset' + bptr'.offset
  <1>1. /\ pc = "keydone" /\ InWindow(p) /\ cmds' = Append(cmds, Command(p))
        /\ \/ Refill(p)
           \/ bptr' = p /\ start_offset' = start_offset
    BY DEF KeyDone, write_restore_cmd
  <1>2. cmd = Command(p)
    <2> DEFINE x == Command(p)
    <2>1. cmds' = Append(cmds, x)
      BY <1>1
    <2> HIDE DEF x
    <2>2. cmds'[Len(cmds')] = x
      BY <2>1 DEF OwnSeq
    <2> QED  BY <2>2 DEF x
  <1>3. PICK e \in 0 .. Len(win) : GoodCursor(bptr, heap, e)
    BY SomeEnd
  <1>4. Len(heap) \in Nat /\ WellFormed(win) /\ Len(win) \in Nat
    BY SomeEnd
  <1>5. GoodCursor(p, <<>>, e) /\ p.buf \in {Null, Main}
    <2>1. Within(bptr, 0)
      BY <1>1 DEF IInv, PlaceInv
    <2>2. e \in Nat
      BY <1>4
    <2> QED  BY <1>3, <1>4, <2>1, <2>2, FreeGood
  <1> HIDE DEF p
  <1>6. p.offset \in 0 .. Len(win)
    BY <1>4, <1>5 DEF GoodCursor, Bufptr, Null, Main
  <1>7. next = p.offset
    <2>1. CASE Refill(p)
      <3>1. start_offset' = p.offset
        BY <1>6, <2>1 DEF Refill
      <3>2. bptr'.offset = 0
        BY <1>5, <2>1 DEF Refill, GoodCursor, Bufptr
      <3> QED  BY <1>6, <3>1, <3>2
    <2>2. CASE bptr' = p /\ start_offset' = start_offset
      BY <1>6, <2>2
    <2> QED  BY <1>1, <2>1, <2>2
  <1> DEFINE L == Len(win)
             S == {c[j] : j \in DOMAIN c}
  <1>8. c \in Seq(S) /\ L \in 0 .. Len(c) /\ win = SubSeq(c, 1, L)
    <2>1. WellFormed(c)
      BY WindowOK DEF IInv
    <2>2. c \in Seq(S)
      BY <2>1 DEF WellFormed, Cells
    <2>3. /\ 0 + L <= Len(c) /\ L \in Nat /\ win = SubSeq(c, 0 + 1, 0 + L)
      BY DEF IInv, WindowInv
    <2>4. Len(c) \in Nat
      BY <2>2
    <2> HIDE DEF L, c
    <2>5. 0 + L = L /\ 0 + 1 = 1
      BY <2>3
    <2> QED  BY <2>3, <2>4, <2>5, <2>2
  <1> HIDE DEF S, cmd, next
  <1>9. /\ \A j \in 1 .. L : win[j] = c[j]
        /\ \A i \in Nat \ {0}, j \in 0 .. L : SubSeq(win, i, j) = SubSeq(c, i, j)
    <2>1. \A j \in 1 .. L : win[j] = c[j]
      BY <1>8
    <2>2. ASSUME NEW i \in Nat \ {0}, NEW j \in 0 .. L
          PROVE  SubSeq(win, i, j) = SubSeq(c, i, j)
      <3> HIDE DEF L, c
      <3> QED  BY <1>8, SameCut
    <2> QED  BY <2>1, <2>2
  <1>10. /\ t \in Nat /\ t + 1 <= L /\ win[t + 1][1] = "type" /\ win[t + 1][2] = dec.type
    BY <1>1 DEF CutInv, TypePlace
  <1>11. ASSUME dec.is_rdb_file
         PROVE  /\ KeyPlace(t) /\ cmd.key = dec.key /\ KeyBytes # Garbage
    <2>1. KeyBytes # Garbage /\ cmd.key = KeyBytes
      BY <1>2, <1>11 DEF Command, cmd
    <2>2. dec.key[1] = "str" /\ dec.key_block = 0 /\ KeyBytes = dec.key
      BY <2>1 DEF KeyBytes
    <2> QED  BY <1>1, <1>11, <2>1, <2>2 DEF CutInv
  <1> DEFINE n == IF dec.is_rdb_file THEN 1 + Len(cmd.key[2]) ELSE 0
             i == t + 1
             cells(j, k) == SubSeq(c, j, k)
  <1>12. /\ n \in Nat
         /\ dec.is_rdb_file => /\ i + n <= L /\ n = 1 + Len(cmd.key[2])
                               /\ n >= 1 /\ Len(cmd.key[2]) \in Nat
    <2> DEFINE l == Len(dec.key[2])
    <2>1. CASE dec.is_rdb_file
      <3>1. l \in Nat /\ t + 2 + l <= L /\ n = 1 + l /\ Len(cmd.key[2]) = l
        BY <1>11, <2>1 DEF KeyPlace
      <3> DEFINE m == Len(cmd.key[2])
      <3>2. n = 1 + m /\ m = l
        BY <2>1, <3>1
      <3> HIDE DEF l, L, n, t, m
      <3>3. n \in Nat /\ i + n <= L /\ n >= 1 /\ m \in Nat
        BY <1>10, <3>1, <3>2
      <3> QED  BY <3>2, <3>3 DEF m
    <2>2. CASE ~ dec.is_rdb_file
      BY <2>2
    <2> QED  BY <2>1, <2>2
  <1>13. c[i][1] = "type" /\ c[i][2] = dec.type /\ i \in 1 .. Len(c) /\ c[i] = win[t + 1]
    <2>1. i \in 1 .. L /\ i \in 1 .. Len(c)
      BY <1>8, <1>10
    <2> QED  BY <1>9, <1>10, <2>1
  <1>14. dec.is_rdb_file => /\ c[i + 1][1] = "len"
                            /\ c[i + 1][2] = Len(cmd.key[2])
                            /\ cells(i + 2, i + n) = cmd.key[2]
    <2> SUFFICES ASSUME dec.is_rdb_file
                 PROVE  /\ c[i + 1][1] = "len"
                        /\ c[i + 1][2] = Len(cmd.key[2])
                        /\ cells(i + 2, i + n) = cmd.key[2]
      OBVIOUS
    <2> DEFINE d == cmd.key[2]
               l == Len(d)
    <2>1. /\ l \in Nat /\ t + 2 + l <= L
          /\ win[t + 2][1] = "len" /\ win[t + 2][2] = l
          /\ SubSeq(win, t + 3, t + 2 + l) = d
      BY <1>11 DEF KeyPlace
    <2>2. n = 1 + l
      OBVIOUS
    <2> HIDE DEF d, l, n, L, t
    <2>3. /\ i + 1 = t + 2 /\ i + 2 = t + 3 /\ i + n = t + 2 + l
          /\ t + 2 \in 1 .. L /\ t + 3 \in Nat \ {0} /\ t + 2 + l \in 0 .. L
      BY <1>4, <1>10, <2>1, <2>2 DEF L
    <2>4. c[t + 2] = win[t + 2] /\ SubSeq(c, t + 3, t + 2 + l) = SubSeq(win, t + 3, t + 2 + l)
      <3> DEFINE x == t + 3
                 y == t + 2 + l
                 z == t + 2
      <3>1. x \in Nat \ {0} /\ y \in 0 .. L /\ z \in 1 .. L
        BY <2>3
      <3> HIDE DEF x, y, z
      <3>2. SubSeq(win, x, y) = SubSeq(c, x, y)
        BY <1>9, <3>1
      <3>3. win[z] = c[z]
        BY <1>9, <3>1
      <3> QED  BY <3>2, <3>3 DEF x, y, z
    <2> QED  BY <2>1, <2>3, <2>4 DEF d, l
  <1>15. cmd.body = <<c[i]>> \o cells(i + n + 1, next)
    <2> DEFINE ds == DataStart + 1
    <2>1. cmd.body = <<win[t + 1]>> \o SubSeq(win, ds, p.offset - 0)
      <3> DEFINE x == <<win[t + 1]>> \o SubSeq(win, ds, p.offset - start_offset)
      <3>1. ~ (KeyBytes = Garbage /\ dec.is_rdb_file)
        BY <1>11
      <3>2. Command(p) = [key |-> KeyBytes, ttl |-> 0, body |-> x]
        BY <3>1 DEF Command
      <3> HIDE DEF x
      <3>3. cmd.body = x
        BY <1>2, <3>2
      <3> HIDE DEF ds, t
      <3>4. x = <<win[t + 1]>> \o SubSeq(win, ds, p.offset - 0)
        BY DEF x
      <3> QED  BY <3>3, <3>4
    <2>2. ds = i + n + 1
      <3>1. dec.is_rdb_file => cmd.key = dec.key
        BY <1>11
      <3>2. DataStart = (t - 0) + 1 + (IF dec.is_rdb_file THEN 1 + Len(dec.key[2]) ELSE 0)
        BY DEF DataStart
      <3>3. (IF dec.is_rdb_file THEN 1 + Len(dec.key[2]) ELSE 0) = n
        BY <3>1
      <3>4. DataStart = (t - 0) + 1 + n
        BY <3>2, <3>3
      <3> HIDE DEF n, t
      <3> QED  BY <1>10, <1>12, <3>4
    <2> HIDE DEF ds, n, L, t
    <2>3. i + n + 1 \in Nat \ {0} /\ next \in 0 .. L /\ p.offset - 0 = next
      BY <1>6, <1>7, <1>10, <1>12 DEF L
    <2>4. SubSeq(win, ds, p.offset - 0) = cells(i + n + 1, next)
      BY <1>9, <2>2, <2>3
    <2> QED  BY <1>13, <2>1, <2>4
  <1>16. CutOut(cmd, next)
    BY <1>13, <1>14, <1>15 DEF CutOut
  <1> QED  BY <1>16 DEF cmd, next

(* The commands are appended, one for each key.                            *)
LEMMA StepCmds ==
  ASSUME OwnSeq(cmds), [Next]_vars
  PROVE  OwnSeq(cmds') /\ (cmds' # cmds => KeyDone)
  <1>1. CASE KeyDone
    <2>1. cmds' = cmds \/ \E x : cmds' = Append(cmds, x)
      BY <1>1 DEF KeyDone, write_restore_cmd
    <2>2. ASSUME NEW x, cmds' = Append(cmds, x) PROVE OwnSeq(cmds')
      <3>1. OwnSeq(<<x>>) /\ cmds' = cmds \o <<x>>
        BY <2>2, OneElement, AppendIs
      <3> QED  BY <3>1, Joined DEF Extends
    <2> QED  BY <1>1, <2>1, <2>2
  <1>2. CASE DecodeStep \/ EndOfFile \/ Error \/ UNCHANGED vars
    <2>1. cmds' = cmds
      BY <1>2 DEF DecodeStep, EndOfFile, Error, vars, main_vars
    <2> QED  BY <2>1
  <1> QED  BY <1>1, <1>2 DEF Next, Step, Exited

LEMMA InitCmds == Init => OwnSeq(cmds)
  <1> SUFFICES ASSUME Init PROVE OwnSeq(cmds)
    OBVIOUS
  <1>1. cmds = <<>>
    BY DEF Init
  <1>2. OwnSeq(<<>>)
    BY NoneQuiet DEF Quiet
  <1> QED  BY <1>1, <1>2

(* As long as the window has not moved, a command of -r is cut out of the  *)
(* input, damaged or not: the type that restore_type() announced, and what *)
(* is between the key that follows it and the place where the next begins. *)
(* Only a key that the input does not hold as it is has none.              *)
THEOREM CommandsAreCut == Spec => CutFromInput
  <1>1. ASSUME IInv, CutInv, OwnSeq(cmds), [Next]_vars
        PROVE  [cmds' # cmds /\ start_offset = 0 =>
                  LET cmd == cmds'[Len(cmds')]
                  IN  \/ dec.is_rdb_file /\ cmd.key = Garbage
                      \/ CutOut(cmd, start_offset' + bptr'.offset)]_vars
    BY <1>1, StepCmds, KeyDoneCutsOut
  <1>2. OwnSeq(cmds) /\ [Next]_vars => OwnSeq(cmds)'
    BY StepCmds
  <1>3. Spec => []OwnSeq(cmds)
    BY <1>2, InitCmds, PTL DEF Spec
  <1>4. Spec => []CallsInv
    BY StepCalls, InitCalls, Invariance, PTL DEF Spec
  <1>5. Spec => []CutInv
    BY <1>4, StepCut, InitCut, Invariance, PTL DEF Spec
  <1> QED  BY <1>1, <1>3, <1>5, Invariance, PTL DEF Spec, CutFromInput
===============================================================================
