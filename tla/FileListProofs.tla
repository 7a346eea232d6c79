--------------------------- MODULE FileListProofs ---------------------------
(***************************************************************************)
(* Proofs about FileList, for every listing, upload, filter, combination   *)
(* of options, id list, PATH_MAX and set of failures.                      *)
(*                                                                         *)
(* What is written is the entries laid end to end: a sequence R with R[i]  *)
(* what begins with the entry i, and for each entry a tag that says what   *)
(* was left out.  The invariant says where in it the decoder is, that what *)
(* it has read is what was sent, and that it leaves this place only when   *)
(* it fails, or when the formats disagree and it meets a field of another  *)
(* width than it expects.                                                  *)
(***************************************************************************)
EXTENDS FileList, Induction, SequenceTheorems, FiniteSetTheorems, TLAPS

-----------------------------------------------------------------------------
(* The fields of an entry.                                                 *)

(* What a field may hold, and what an entry is on the wire.                *)
Flag      == {"long", "top", "name", "time", "mode", "uid", "gid", "rdev"}
FieldWidth == {"byte", "int", "long", "bytes", "string", "md4", "id name"}
Held      == (SUBSET Flag) \cup Int \cup Seq(Nat) \cup Mode
WireField == [w : FieldWidth, v : Held]
OnWire(e) == [e EXCEPT !.time = Int32(@)]

(* The attributes by their places.                                         *)
LEMMA AttributeNames ==
  /\ Len(Attributes) = 8 /\ DOMAIN Attributes = 1 .. 8
  /\ Attributes[1] = "length" /\ Attributes[2] = "time" /\ Attributes[3] = "mode"
  /\ Attributes[4] = "uid" /\ Attributes[5] = "gid" /\ Attributes[6] = "rdev"
  /\ Attributes[7] = "link" /\ Attributes[8] = "sum"
BY DEF Attributes

(* A field is a record of its width and its value.                         *)
LEMMA FieldIs ==
  ASSUME NEW w \in FieldWidth, NEW v \in Held
  PROVE  Field(w, v) \in WireField /\ Field(w, v).w = w /\ Field(w, v).v = v
BY DEF Field, WireField

(* The width of each attribute.                                            *)
LEMMA Widths ==
  /\ Width("length") = "long" /\ Width("time") = "int" /\ Width("mode") = "int"
  /\ Width("uid") = "int" /\ Width("gid") = "int" /\ Width("rdev") = "int"
  /\ Width("link") = "string" /\ Width("sum") = "md4"
BY DEF Width

(* Each attribute of an entry makes a field.                               *)
LEMMA AttributeField ==
  ASSUME NEW e \in Info, NEW k \in 1 .. 8
  PROVE  Field(Width(Attributes[k]), e[Attributes[k]]) \in WireField
<1> DEFINE s == Attributes[k]
<1>1. s \in {"length", "time", "mode", "uid", "gid", "rdev", "link", "sum"}
  <2>1. k \in {1, 2, 3, 4, 5, 6, 7, 8}
    OBVIOUS
  <2> QED BY <2>1, AttributeNames
<1> HIDE DEF s
<1>2. Width(s) \in {"long", "string", "md4", "int"}
  BY <1>1, Widths
<1>3. Width(s) \in FieldWidth
  BY <1>2 DEF FieldWidth
<1>4. e[s] \in Nat \cup Int \cup Mode \cup Seq(Nat)
  BY <1>1 DEF Info
<1>5. e[s] \in Held
  BY <1>4 DEF Held
<1>6. Field(Width(s), e[s]) \in WireField
  BY <1>3, <1>5, FieldIs
<1> QED BY <1>6 DEF s

(* A time of any width, as the int32 that is written.                      *)
LEMMA Int32Fits ==
  ASSUME NEW t \in Int
  PROVE  Int32(t) \in -TimeLimit .. TimeLimit - 1
<1>1. TimeLimit \in Nat \ {0}
  BY FileListAssumption
<1> DEFINE m == 2 * TimeLimit
           b == t + TimeLimit
<1>2. b \in Int /\ m \in Nat \ {0}
  BY <1>1
<1>3. Int32(t) = (b % m) - TimeLimit
  BY DEF Int32
<1>4. m = 2 * TimeLimit
  OBVIOUS
<1> HIDE DEF m, b
<1>5. b % m \in 0 .. m - 1
  BY <1>2
<1> QED BY <1>1, <1>3, <1>4, <1>5

(* The wire changes nothing of an entry but its time.                      *)
LEMMA OnWireIs ==
  ASSUME NEW e \in Info
  PROVE  /\ OnWire(e) \in Info /\ OnWire(e).time = Int32(e.time)
         /\ OnWire(e).time \in -TimeLimit .. TimeLimit - 1
         /\ \A s \in {"name", "length", "mode", "uid", "gid", "rdev", "link", "sum"} : OnWire(e)[s] = e[s]
<1>1. e.time \in Int
  BY DEF Info
<1>2. Int32(e.time) \in -TimeLimit .. TimeLimit - 1
  BY <1>1, Int32Fits
<1>3. TimeLimit \in Nat
  BY FileListAssumption
<1>4. Int32(e.time) \in Int
  BY <1>2, <1>3
<1> DEFINE t == Int32(e.time)
           o == [e EXCEPT !.time = t]
<1>5. OnWire(e) = o
  BY DEF OnWire
<1> HIDE DEF t
<1>6. o.time = t /\ \A s \in {"name", "length", "mode", "uid", "gid", "rdev", "link", "sum"} : o[s] = e[s]
  BY DEF Info
<1>7. t \in Int => o \in Info
  BY DEF Info
<1>8. t = Int32(e.time)
  BY DEF t
<1> HIDE DEF o
<1> QED BY <1>2, <1>4, <1>5, <1>6, <1>7, <1>8

(* A time that fits is its own 32-bit value.                               *)
LEMMA TimeFits ==
  ASSUME NEW e \in Info, e.time \in -TimeLimit .. TimeLimit - 1
  PROVE  OnWire(e) = e
<1> DEFINE t == e.time
           m == 2 * TimeLimit
           b == t + TimeLimit
<1>1. TimeLimit \in Nat \ {0}
  BY FileListAssumption
<1>2. b \in 0 .. m - 1 /\ m \in Nat \ {0} /\ b - TimeLimit = t
  BY <1>1
<1>3. Int32(t) = (b % m) - TimeLimit
  BY DEF Int32
<1>4. [e EXCEPT !.time = t] = e
  BY DEF Info
<1>5. OnWire(e) = [e EXCEPT !.time = Int32(t)]
  BY DEF OnWire
<1> HIDE DEF m, b, t
<1>6. b % m = b
  BY <1>2
<1>7. Int32(t) = t
  BY <1>2, <1>3, <1>6
<1> QED BY <1>4, <1>5, <1>7

(* A sequence that begins with x.                                          *)
LEMMA HeadTail ==
  ASSUME NEW S, NEW x \in S, NEW s \in Seq(S)
  PROVE  /\ <<x>> \o s \in Seq(S) /\ <<x>> \o s # <<>>
         /\ Head(<<x>> \o s) = x /\ Tail(<<x>> \o s) = s
<1> DEFINE c == <<x>> \o s
<1>1. <<x>> \in Seq(S) /\ Len(<<x>>) = 1 /\ <<x>>[1] = x
  OBVIOUS
<1>2. /\ c \in Seq(S) /\ Len(c) = 1 + Len(s)
      /\ \A i \in 1 .. Len(c) : c[i] = IF i <= 1 THEN <<x>>[i] ELSE s[i - 1]
  BY <1>1, ConcatProperties
<1> HIDE DEF c
<1>3. c # <<>> /\ Head(c) = x
  BY <1>1, <1>2
<1>4. Tail(c) \in Seq(S) /\ Len(Tail(c)) = Len(s)
  BY <1>2, <1>3
<1>5. \A i \in 1 .. Len(s) : Tail(c)[i] = s[i]
  BY <1>2, <1>3, <1>4
<1>6. Tail(c) = s
  BY <1>4, <1>5
<1> QED BY <1>2, <1>3, <1>6 DEF c

(* A field or nothing is a sequence of fields.                             *)
LEMMA OneField ==
  ASSUME NEW S, NEW B, NEW x \in S
  PROVE  (IF B THEN <<x>> ELSE <<>>) \in Seq(S)
OBVIOUS

(* The attributes, one after the other.                                    *)
Piece(e, omitted, k) ==
  IF Sends(Attributes[k], e.mode) /\ Attributes[k] \notin omitted
  THEN <<Field(Width(Attributes[k]), e[Attributes[k]])>> ELSE <<>>

(* What an attribute adds to an entry is fields.                           *)
LEMMA PieceIs ==
  ASSUME NEW e \in Info, NEW omitted, NEW k \in 1 .. 8
  PROVE  Piece(e, omitted, k) \in Seq(WireField)
<1>1. Field(Width(Attributes[k]), e[Attributes[k]]) \in WireField
  BY AttributeField
<1> QED BY <1>1 DEF Piece

(* AttributesFrom, attribute by attribute.                                 *)
LEMMA AttributesFromIs ==
  ASSUME NEW e \in Info, NEW omitted
  PROVE  /\ AttributesFrom(e, omitted) \in [1 .. 9 -> Seq(WireField)]
         /\ AttributesFrom(e, omitted)[9] = <<>>
         /\ \A k \in 1 .. 8 : AttributesFrom(e, omitted)[k]
              = Piece(e, omitted, k) \o AttributesFrom(e, omitted)[k + 1]
<1> DEFINE P(k) == IF Sends(Attributes[k], e.mode) /\ Attributes[k] \notin omitted
                   THEN <<Field(Width(Attributes[k]), e[Attributes[k]])>> ELSE <<>>
           G(g) == [k \in 1 .. Len(Attributes) + 1 |->
                     IF k > Len(Attributes) THEN <<>> ELSE P(k) \o g[k + 1]]
           from == CHOOSE g : g = G(g)
<1>1. Len(Attributes) = 8 /\ 8 + 1 = 9
  BY AttributeNames
<1>2. AttributesFrom(e, omitted) = from
  BY Zenon DEF AttributesFrom
<1>3. \A g : G(g) = [k \in 1 .. 9 |-> IF k > 8 THEN <<>> ELSE P(k) \o g[k + 1]]
  BY <1>1, Zenon
<1>4. \A k \in 1 .. 8 : P(k) = Piece(e, omitted, k)
  BY Zenon DEF Piece
<1> HIDE DEF P
<1>5. PICK p \in [1 .. 8 -> Seq(WireField)] : \A k \in 1 .. 8 : p[k] = Piece(e, omitted, k)
  <2> DEFINE q == [k \in 1 .. 8 |-> Piece(e, omitted, k)]
  <2>1. q \in [1 .. 8 -> Seq(WireField)] /\ \A k \in 1 .. 8 : q[k] = Piece(e, omitted, k)
    BY PieceIs
  <2> QED BY <2>1
<1>6. \A g : G(g) = [k \in 1 .. 9 |-> IF k > 8 THEN <<>> ELSE p[k] \o g[k + 1]]
  <2>1. ASSUME NEW g, NEW k \in 1 .. 9
        PROVE  (IF k > 8 THEN <<>> ELSE P(k) \o g[k + 1]) = (IF k > 8 THEN <<>> ELSE p[k] \o g[k + 1])
    <3>1. CASE k > 8
      BY <3>1
    <3>2. CASE ~(k > 8)
      <4>1. k \in 1 .. 8
        BY <3>2
      <4>2. P(k) = p[k]
        BY <1>4, <1>5, <4>1, Zenon
      <4> QED BY <3>2, <4>2
    <3> QED BY <3>1, <3>2
  <2> HIDE DEF G
  <2> QED BY <1>3, <2>1
<1> HIDE DEF G
<1>7. from = G(from)
  <2> DEFINE g8 == p[8] \o <<>>
             g7 == p[7] \o g8
             g6 == p[6] \o g7
             g5 == p[5] \o g6
             g4 == p[4] \o g5
             g3 == p[3] \o g4
             g2 == p[2] \o g3
             g1 == p[1] \o g2
             w  == <<g1, g2, g3, g4, g5, g6, g7, g8, <<>>>>
  <2>1. DOMAIN w = 1 .. 9 /\ w = [k \in 1 .. 9 |-> w[k]]
    OBVIOUS
  <2>2. /\ w[1] = p[1] \o w[2] /\ w[2] = p[2] \o w[3] /\ w[3] = p[3] \o w[4]
        /\ w[4] = p[4] \o w[5] /\ w[5] = p[5] \o w[6] /\ w[6] = p[6] \o w[7]
        /\ w[7] = p[7] \o w[8] /\ w[8] = p[8] \o w[9] /\ w[9] = <<>>
    <3> HIDE DEF g1, g2, g3, g4, g5, g6, g7, g8
    <3> QED BY DEF g1, g2, g3, g4, g5, g6, g7, g8
  <2> HIDE DEF w
  <2>3. \A k \in 1 .. 9 : w[k] = IF k > 8 THEN <<>> ELSE p[k] \o w[k + 1]
    <3>1. \A k \in 1 .. 9 : k \in {1, 2, 3, 4, 5, 6, 7, 8, 9}
      OBVIOUS
    <3>2. /\ 1 + 1 = 2 /\ 2 + 1 = 3 /\ 3 + 1 = 4 /\ 4 + 1 = 5 /\ 5 + 1 = 6 /\ 6 + 1 = 7
          /\ 7 + 1 = 8 /\ 8 + 1 = 9
      OBVIOUS
    <3>3. \A k \in {1, 2, 3, 4, 5, 6, 7, 8} : w[k] = p[k] \o w[k + 1]
      BY <2>2, <3>2, ZenonT(60)
    <3>4. \A k \in {1, 2, 3, 4, 5, 6, 7, 8} : ~(k > 8)
      OBVIOUS
    <3>5. 9 > 8
      OBVIOUS
    <3> QED BY <2>2, <3>1, <3>3, <3>4, <3>5, ZenonT(60)
  <2>4. w = G(w)
    BY <1>6, <2>1, <2>3
  <2> HIDE DEF from
  <2>5. from = CHOOSE g : g = G(g)
    BY DEF from
  <2> QED BY <2>4, <2>5, Zenon
<1> HIDE DEF from
<1>8. \A k \in 1 .. 9 : from[k] = IF k > 8 THEN <<>> ELSE p[k] \o from[k + 1]
  BY <1>6, <1>7
<1>9. from[9] = <<>> /\ \A k \in 1 .. 8 : from[k] = p[k] \o from[k + 1]
  <2>1. \A k \in 1 .. 8 : k \in 1 .. 9 /\ ~(k > 8)
    OBVIOUS
  <2>2. 9 \in 1 .. 9 /\ 9 > 8
    OBVIOUS
  <2> QED BY <1>8, <2>1, <2>2, Zenon
<1>10. \A k \in 1 .. 9 : from[k] \in Seq(WireField)
  <2>1. \A s, t \in Seq(WireField) : s \o t \in Seq(WireField)
    BY ConcatProperties
  <2>2. from[9] \in Seq(WireField)
    BY <1>9
  <2>3. \A k \in 1 .. 8 : from[k + 1] \in Seq(WireField) => from[k] \in Seq(WireField)
    BY <1>9, <2>1
  <2>4. \A k \in 1 .. 9 : k \in {1, 2, 3, 4, 5, 6, 7, 8, 9}
    OBVIOUS
  <2>5. from[8] \in Seq(WireField) /\ from[7] \in Seq(WireField)
    BY <2>2, <2>3
  <2>6. from[6] \in Seq(WireField) /\ from[5] \in Seq(WireField)
    BY <2>5, <2>3
  <2>7. from[4] \in Seq(WireField) /\ from[3] \in Seq(WireField)
    BY <2>6, <2>3
  <2>8. from[2] \in Seq(WireField) /\ from[1] \in Seq(WireField)
    BY <2>7, <2>3
  <2> QED BY <2>2, <2>4, <2>5, <2>6, <2>7, <2>8
<1>11. from \in [1 .. 9 -> Seq(WireField)]
  <2>1. from = [k \in 1 .. 9 |-> from[k]]
    BY <1>6, <1>7
  <2> QED BY <2>1, <1>10
<1> QED BY <1>2, <1>5, <1>9, <1>11

(* Fields are laid end to end in any grouping.                             *)
LEMMA Assoc ==
  \A x, y, z \in Seq(WireField) : (x \o y) \o z = x \o (y \o z)
<1>1. ASSUME NEW x \in Seq(WireField), NEW y \in Seq(WireField), NEW z \in Seq(WireField)
      PROVE  (x \o y) \o z = x \o (y \o z)
  BY ConcatAssociative
<1> QED BY <1>1

(* The name of e as it is sent under the tag t: what precedes the          *)
(* attributes of an entry.                                                 *)
Tag == [F : SUBSET Flag, n : Nat, missing : {{}, {"sum"}, {"link", "sum"}},
        has : SUBSET {Attributes[k] : k \in 1 .. 8}]

Rest(e, t)      == SubSeq(e.name, t.n + 1, Len(e.name))
SizeField(e, t) == Field(IF "long" \in t.F THEN "int" ELSE "byte", Len(Rest(e, t)))
NameField(e, t) == Field("bytes", Rest(e, t))
Title(e, t) ==
  <<Field("byte", t.F)>> \o (IF "name" \in t.F THEN <<Field("byte", t.n)>> ELSE <<>>)
    \o <<SizeField(e, t), NameField(e, t)>>

Part(e, t, k) ==
  IF Attributes[k] \in t.has \ (t.F \cup t.missing)
  THEN <<Field(Width(Attributes[k]), OnWire(e)[Attributes[k]])>> ELSE <<>>

(* r is the entry of e and rest, a[k] what of it begins with the attribute *)
(* k.                                                                      *)
EntryAt(e, t, r, a, rest) ==
  /\ r = Title(e, t) \o a[1]
  /\ \A k \in 1 .. 8 : a[k] = Part(e, t, k) \o a[k + 1]
  /\ a[9] = rest

(* The fields before the attributes.                                       *)
LEMMA TitleIs ==
  ASSUME NEW e \in Info, NEW t \in Tag, t.n <= Len(e.name)
  PROVE  /\ Rest(e, t) \in Seq(Nat) /\ Len(Rest(e, t)) = Len(e.name) - t.n
         /\ \A i \in 1 .. Len(Rest(e, t)) : Rest(e, t)[i] = e.name[t.n + i]
         /\ Field("byte", t.F) \in WireField /\ Field("byte", t.n) \in WireField
         /\ SizeField(e, t) \in WireField /\ NameField(e, t) \in WireField
         /\ Title(e, t) \in Seq(WireField)
<1>1. e.name \in Seq(Nat) /\ t.n \in Nat /\ t.F \in SUBSET Flag
  BY DEF Info, Tag
<1>2. /\ Rest(e, t) \in Seq(Nat) /\ Len(Rest(e, t)) = Len(e.name) - t.n
      /\ \A i \in 1 .. Len(Rest(e, t)) : Rest(e, t)[i] = e.name[t.n + i]
  <2> DEFINE s == e.name
             n == t.n
  <2>1. s \in Seq(Nat) /\ n \in Nat /\ n <= Len(s)
    BY <1>1
  <2> HIDE DEF s, n
  <2> DEFINE q == SubSeq(s, n + 1, Len(s))
  <2>2. q \in Seq(Nat) /\ Len(q) = Len(s) - n
    BY <2>1
  <2>3. \A i \in 1 .. Len(q) : q[i] = s[n + i]
    BY <2>1, <2>2
  <2> QED BY <2>2, <2>3 DEF Rest, s, n
<1> HIDE DEF Rest
<1>3. Len(Rest(e, t)) \in Nat
  BY <1>2
<1>4. t.F \in Held /\ t.n \in Held /\ Rest(e, t) \in Held /\ Len(Rest(e, t)) \in Held
  BY <1>1, <1>2, <1>3 DEF Held
<1>5. /\ "byte" \in FieldWidth /\ "int" \in FieldWidth /\ "bytes" \in FieldWidth
      /\ (IF "long" \in t.F THEN "int" ELSE "byte") \in FieldWidth
  BY DEF FieldWidth
<1>6. /\ Field("byte", t.F) \in WireField /\ Field("byte", t.n) \in WireField
      /\ SizeField(e, t) \in WireField /\ NameField(e, t) \in WireField
  BY <1>4, <1>5, FieldIs DEF SizeField, NameField
<1>7. Title(e, t) \in Seq(WireField)
  <2> DEFINE A == <<Field("byte", t.F)>>
             B == IF "name" \in t.F THEN <<Field("byte", t.n)>> ELSE <<>>
             C == <<SizeField(e, t), NameField(e, t)>>
  <2>1. A \in Seq(WireField) /\ B \in Seq(WireField) /\ C \in Seq(WireField)
    BY <1>6
  <2>2. Title(e, t) = A \o B \o C
    BY DEF Title
  <2> HIDE DEF A, B, C
  <2>3. A \o B \in Seq(WireField)
    BY <2>1, ConcatProperties
  <2> QED BY <2>1, <2>2, <2>3, ConcatProperties
<1> QED BY <1>2, <1>6, <1>7

(* The fields of an attribute under a tag.                                 *)
LEMMA PartIs ==
  ASSUME NEW e \in Info, NEW t, NEW k \in 1 .. 8
  PROVE  Part(e, t, k) \in Seq(WireField)
<1>1. Field(Width(Attributes[k]), OnWire(e)[Attributes[k]]) \in WireField
  BY OnWireIs, AttributeField
<1> QED BY <1>1 DEF Part

(* An entry, and nothing after it.                                         *)
LEMMA EntryIs ==
  ASSUME NEW e \in Info, NEW t \in Tag, t.n <= Len(e.name),
         \A k \in 1 .. 8 : Attributes[k] \in t.has <=> Sends(Attributes[k], e.mode)
  PROVE  /\ Entry(OnWire(e), t.F, t.n, t.missing) \in Seq(WireField)
         /\ EntryAt(e, t, Entry(OnWire(e), t.F, t.n, t.missing),
                    AttributesFrom(OnWire(e), t.F \cup t.missing), <<>>)
<1> DEFINE a == AttributesFrom(OnWire(e), t.F \cup t.missing)
<1>1. OnWire(e) \in Info /\ OnWire(e).name = e.name /\ OnWire(e).mode = e.mode
  BY OnWireIs
<1>2. /\ a \in [1 .. 9 -> Seq(WireField)] /\ a[9] = <<>>
      /\ \A k \in 1 .. 8 : a[k] = Piece(OnWire(e), t.F \cup t.missing, k) \o a[k + 1]
  BY <1>1, AttributesFromIs
<1>3. Entry(OnWire(e), t.F, t.n, t.missing) = Title(e, t) \o a[1]
  BY <1>1, Zenon DEF Entry, Title, SizeField, NameField, Rest
<1> HIDE DEF a
<1>4. a[1] \in Seq(WireField) /\ Title(e, t) \in Seq(WireField)
  BY <1>2, TitleIs
<1>5. Title(e, t) \o a[1] \in Seq(WireField)
  BY <1>4, ConcatProperties
<1>6. \A k \in 1 .. 8 : Piece(OnWire(e), t.F \cup t.missing, k) = Part(e, t, k)
  BY <1>1 DEF Piece, Part
<1>7. EntryAt(e, t, Title(e, t) \o a[1], a, <<>>)
  BY <1>2, <1>6 DEF EntryAt
<1> QED BY <1>3, <1>5, <1>7 DEF a

(* After each of the eight attributes there is a place.                    *)
LEMMA NextPlaceIs == \A k \in 1 .. 8 : k \in 1 .. 9 /\ k + 1 \in 1 .. 9
OBVIOUS

(* What follows an entry does not change how it begins.                    *)
LEMMA EntryGoesOn ==
  ASSUME NEW e \in Info, NEW t \in Tag, t.n <= Len(e.name),
         NEW r \in Seq(WireField), NEW a \in [1 .. 9 -> Seq(WireField)],
         NEW rest \in Seq(WireField), NEW more \in Seq(WireField),
         EntryAt(e, t, r, a, rest)
  PROVE  EntryAt(e, t, r \o more, [k \in 1 .. 9 |-> a[k] \o more], rest \o more)
<1> DEFINE c == [k \in 1 .. 9 |-> a[k] \o more]
<1>1. \A x, y, z \in Seq(WireField) : (x \o y) \o z = x \o (y \o z)
  BY Assoc
<1>2. \A k \in 1 .. 9 : a[k] \in Seq(WireField) /\ c[k] = a[k] \o more
  OBVIOUS
<1> HIDE DEF c
<1>3. r \o more = Title(e, t) \o c[1]
  <2>1. 1 \in 1 .. 9
    OBVIOUS
  <2>2. a[1] \in Seq(WireField) /\ c[1] = a[1] \o more
    BY <1>2, <2>1
  <2>3. Title(e, t) \in Seq(WireField)
    BY TitleIs
  <2>4. (Title(e, t) \o a[1]) \o more = Title(e, t) \o (a[1] \o more)
    BY <1>1, <2>2, <2>3
  <2>5. r = Title(e, t) \o a[1]
    BY DEF EntryAt
  <2> QED BY <2>2, <2>4, <2>5
<1>4. ASSUME NEW k \in 1 .. 8 PROVE c[k] = Part(e, t, k) \o c[k + 1]
  <2>1. Part(e, t, k) \in Seq(WireField)
    BY PartIs
  <2>2. k \in 1 .. 9 /\ k + 1 \in 1 .. 9
    BY NextPlaceIs
  <2>3. a[k] = Part(e, t, k) \o a[k + 1]
    BY DEF EntryAt
  <2>4. a[k + 1] \in Seq(WireField) /\ c[k + 1] = a[k + 1] \o more /\ c[k] = a[k] \o more
    BY <1>2, <2>2
  <2>5. (Part(e, t, k) \o a[k + 1]) \o more
          = Part(e, t, k) \o (a[k + 1] \o more)
    BY <1>1, <2>1, <2>4
  <2> QED BY <2>3, <2>4, <2>5
<1>5. c[9] = rest \o more
  <2>1. a[9] = rest
    BY DEF EntryAt
  <2>2. 9 \in 1 .. 9
    OBVIOUS
  <2> QED BY <1>2, <2>1, <2>2
<1>6. EntryAt(e, t, r \o more, c, rest \o more)
  BY <1>3, <1>4, <1>5 DEF EntryAt
<1> QED BY <1>6 DEF c

(* What is left of an entry when its size, and when its name is next.      *)
NameIn(e, t, a) == <<NameField(e, t)>> \o a[1]
SizeIn(e, t, a) == <<SizeField(e, t)>> \o NameIn(e, t, a)

(* A pair is its first followed by its second.                             *)
LEMMA TwoFields ==
  ASSUME NEW S, NEW y \in S, NEW z \in S
  PROVE  <<y>> \o <<z>> = <<y, z>>
<1> DEFINE c == <<y>> \o <<z>>
           p == <<y>>
           q == <<z>>
<1>1. p \in Seq(S) /\ q \in Seq(S) /\ Len(p) = 1 /\ Len(q) = 1 /\ p[1] = y /\ q[1] = z
  OBVIOUS
<1>2. c = p \o q
  OBVIOUS
<1> HIDE DEF p, q, c
<1>3. /\ c \in Seq(S) /\ Len(c) = 2
      /\ \A i \in 1 .. 2 : c[i] = IF i <= 1 THEN p[i] ELSE q[i - 1]
  BY <1>1, <1>2, ConcatProperties
<1>4. c[1] = y /\ c[2] = z
  BY <1>1, <1>3
<1>5. c = <<y, z>>
  BY <1>3, <1>4
<1> QED BY <1>5 DEF c

(* What the decoder finds as it reads the fields before the attributes.    *)
LEMMA TitleReads ==
  ASSUME NEW e \in Info, NEW t \in Tag, t.n <= Len(e.name),
         NEW a \in [1 .. 9 -> Seq(WireField)], NEW r, NEW rest, EntryAt(e, t, r, a, rest)
  PROVE  /\ NameIn(e, t, a) # <<>> /\ Head(NameIn(e, t, a)) = NameField(e, t)
         /\ Tail(NameIn(e, t, a)) = a[1]
         /\ SizeIn(e, t, a) # <<>> /\ Head(SizeIn(e, t, a)) = SizeField(e, t)
         /\ Tail(SizeIn(e, t, a)) = NameIn(e, t, a)
         /\ r # <<>> /\ Head(r) = Field("byte", t.F)
         /\ "name" \notin t.F => Tail(r) = SizeIn(e, t, a)
         /\ "name" \in t.F => Tail(r) # <<>>
         /\ "name" \in t.F => Head(Tail(r)) = Field("byte", t.n)
         /\ "name" \in t.F => Tail(Tail(r)) = SizeIn(e, t, a)
<1> DEFINE A == Field("byte", t.F)
           N == Field("byte", t.n)
           B == IF "name" \in t.F THEN <<N>> ELSE <<>>
           Y == SizeField(e, t)
           Z == NameField(e, t)
           q == a[1]
<1>1. A \in WireField /\ N \in WireField /\ Y \in WireField /\ Z \in WireField
  BY TitleIs
<1>2. q \in Seq(WireField)
  OBVIOUS
<1>3. r = ((<<A>> \o B) \o <<Y, Z>>) \o q
  BY DEF EntryAt, Title
<1>4. NameIn(e, t, a) = <<Z>> \o q /\ SizeIn(e, t, a) = <<Y>> \o (<<Z>> \o q)
  BY DEF NameIn, SizeIn
<1>5. B \in Seq(WireField)
  BY <1>1
<1>6. ("name" \in t.F => B = <<N>>) /\ ("name" \notin t.F => B = <<>>)
  OBVIOUS
<1> HIDE DEF A, N, B, Y, Z, q
<1> DEFINE n == <<Z>> \o q
           s == <<Y>> \o n
<1>7. n \in Seq(WireField) /\ n # <<>> /\ Head(n) = Z /\ Tail(n) = q
  BY <1>1, <1>2, HeadTail
<1>8. s \in Seq(WireField) /\ s # <<>> /\ Head(s) = Y /\ Tail(s) = n
  <2> HIDE DEF n
  <2> QED BY <1>1, <1>7, HeadTail
<1>9. <<Y, Z>> \o q = s
  <2>1. <<Y>> \in Seq(WireField) /\ <<Z>> \in Seq(WireField)
    BY <1>1
  <2>2. <<Y, Z>> = <<Y>> \o <<Z>>
    BY <1>1, TwoFields
  <2>3. (<<Y>> \o <<Z>>) \o q = <<Y>> \o (<<Z>> \o q)
    BY <1>2, <2>1, Assoc
  <2> QED BY <2>2, <2>3
<1>10. r = <<A>> \o (B \o s)
  <2>1. <<A>> \in Seq(WireField) /\ <<Y, Z>> \in Seq(WireField)
    BY <1>1
  <2>2. <<A>> \o B \in Seq(WireField)
    BY <1>5, <2>1, ConcatProperties
  <2>3. ((<<A>> \o B) \o <<Y, Z>>) \o q = (<<A>> \o B) \o (<<Y, Z>> \o q)
    BY <1>2, <2>1, <2>2, Assoc
  <2> HIDE DEF s
  <2>4. (<<A>> \o B) \o s = <<A>> \o (B \o s)
    BY <1>5, <1>8, <2>1, Assoc
  <2> QED BY <1>3, <1>9, <2>3, <2>4
<1> HIDE DEF s
<1>11. B \o s \in Seq(WireField)
  BY <1>5, <1>8, ConcatProperties
<1>12. r # <<>> /\ Head(r) = A /\ Tail(r) = B \o s
  BY <1>1, <1>10, <1>11, HeadTail
<1>13. CASE "name" \in t.F
  <2>1. B \o s # <<>> /\ Head(B \o s) = N /\ Tail(B \o s) = s
    <3>1. <<N>> \o s # <<>> /\ Head(<<N>> \o s) = N /\ Tail(<<N>> \o s) = s
      BY <1>1, <1>8, HeadTail
    <3> QED BY <1>6, <1>13, <3>1
  <2> QED BY <1>4, <1>7, <1>8, <1>12, <1>13, <2>1 DEF A, N, Y, Z, q, s
<1>14. CASE "name" \notin t.F
  <2>1. B \o s = s
    BY <1>6, <1>8, <1>14, ConcatEmptySeq
  <2> QED BY <1>4, <1>7, <1>8, <1>12, <1>14, <2>1 DEF A, Y, Z, q, s
<1> QED BY <1>13, <1>14

(* The same for an entry with a shared prefix: the size of the prefix.     *)
LEMMA SharedReads ==
  ASSUME NEW e \in Info, NEW t \in Tag, t.n <= Len(e.name), "name" \in t.F,
         NEW a \in [1 .. 9 -> Seq(WireField)], NEW r, NEW rest, EntryAt(e, t, r, a, rest)
  PROVE  /\ Tail(r) # <<>> /\ Head(Tail(r)).w = "byte" /\ Head(Tail(r)).v = t.n
         /\ Tail(Tail(r)) = SizeIn(e, t, a)
<1>1. /\ NameIn(e, t, a) # <<>> /\ Head(NameIn(e, t, a)) = NameField(e, t)
      /\ Tail(NameIn(e, t, a)) = a[1]
      /\ SizeIn(e, t, a) # <<>> /\ Head(SizeIn(e, t, a)) = SizeField(e, t)
      /\ Tail(SizeIn(e, t, a)) = NameIn(e, t, a)
      /\ r # <<>> /\ Head(r) = Field("byte", t.F)
      /\ "name" \notin t.F => Tail(r) = SizeIn(e, t, a)
      /\ "name" \in t.F => Tail(r) # <<>>
      /\ "name" \in t.F => Head(Tail(r)) = Field("byte", t.n)
      /\ "name" \in t.F => Tail(Tail(r)) = SizeIn(e, t, a)
  BY TitleReads, Zenon
<1>2. Tail(r) # <<>> /\ Head(Tail(r)) = Field("byte", t.n) /\ Tail(Tail(r)) = SizeIn(e, t, a)
  BY <1>1, Zenon
<1>3. Field("byte", t.n).w = "byte" /\ Field("byte", t.n).v = t.n
  BY DEF Field
<1> QED BY <1>2, <1>3, Zenon

(* What it finds at each attribute: its field, or the next attribute.      *)
LEMMA AttributeReads ==
  ASSUME NEW e \in Info, NEW t \in Tag,
         NEW a \in [1 .. 9 -> Seq(WireField)], NEW r, NEW rest, EntryAt(e, t, r, a, rest)
  PROVE  \A k \in 1 .. 8 :
           /\ Attributes[k] \in t.has \ (t.F \cup t.missing) =>
                /\ a[k] # <<>> /\ Tail(a[k]) = a[k + 1]
                /\ Head(a[k]).w = Width(Attributes[k]) /\ Head(a[k]).v = OnWire(e)[Attributes[k]]
           /\ Attributes[k] \notin t.has \ (t.F \cup t.missing) => a[k] = a[k + 1]
<1> SUFFICES ASSUME NEW k \in 1 .. 8
    PROVE  /\ Attributes[k] \in t.has \ (t.F \cup t.missing) =>
                /\ a[k] # <<>> /\ Tail(a[k]) = a[k + 1]
                /\ Head(a[k]).w = Width(Attributes[k]) /\ Head(a[k]).v = OnWire(e)[Attributes[k]]
           /\ Attributes[k] \notin t.has \ (t.F \cup t.missing) => a[k] = a[k + 1]
  OBVIOUS
<1> DEFINE s == Attributes[k]
           x == Field(Width(s), OnWire(e)[s])
           sends == s \in t.has \ (t.F \cup t.missing)
<1>1. OnWire(e) \in Info
  BY OnWireIs
<1>2. x \in WireField
  BY <1>1, AttributeField
<1>3. a[k] = Part(e, t, k) \o a[k + 1]
  BY DEF EntryAt
<1>4. Part(e, t, k) = IF sends THEN <<x>> ELSE <<>>
  BY DEF Part
<1>5. a[k + 1] \in Seq(WireField)
  <2>1. k + 1 \in 1 .. 9
    OBVIOUS
  <2> QED BY <2>1
<1>6. x.w = Width(s) /\ x.v = OnWire(e)[s]
  BY DEF Field
<1> HIDE DEF x, sends
<1>7. CASE sends
  <2>1. a[k] = <<x>> \o a[k + 1]
    BY <1>3, <1>4, <1>7
  <2>2. a[k] # <<>> /\ Head(a[k]) = x /\ Tail(a[k]) = a[k + 1]
    <3> DEFINE q == a[k + 1]
    <3>1. q \in Seq(WireField) /\ a[k] = <<x>> \o q
      BY <1>5, <2>1
    <3> HIDE DEF q
    <3>2. <<x>> \o q # <<>> /\ Head(<<x>> \o q) = x /\ Tail(<<x>> \o q) = q
      BY <1>2, <3>1, HeadTail
    <3>3. a[k] # <<>> /\ Head(a[k]) = x /\ Tail(a[k]) = q
      BY <3>1, <3>2
    <3> QED BY <3>3 DEF q
  <2>3. Head(a[k]).w = Width(s) /\ Head(a[k]).v = OnWire(e)[s]
    BY <1>6, <2>2
  <2> QED BY <1>7, <2>2, <2>3, Zenon DEF sends
<1>8. CASE ~sends
  <2>1. a[k] = <<>> \o a[k + 1]
    BY <1>3, <1>4, <1>8
  <2>2. a[k] = a[k + 1]
    BY <1>5, <2>1, ConcatEmptySeq
  <2> QED BY <1>8, <2>2 DEF sends
<1> QED BY <1>7, <1>8

(* What comes next where the last attributes were not sent.                *)
LEMMA NextWidth ==
  ASSUME NEW e \in Info, NEW t \in Tag,
         NEW a \in [1 .. 9 -> Seq(WireField)], NEW r, NEW rest, EntryAt(e, t, r, a, rest),
         rest # <<>>, Head(rest).w = "byte"
  PROVE  /\ \A k \in 1 .. 9 : a[k] # <<>>
         /\ Head(a[7]).w \in {"string", "md4", "byte"}
         /\ Head(a[8]).w \in {"md4", "byte"} /\ Head(a[9]).w = "byte"
<1>1. ASSUME NEW k \in 1 .. 8
      PROVE  /\ a[k + 1] # <<>> => a[k] # <<>>
             /\ a[k] = a[k + 1] \/ Head(a[k]).w = Width(Attributes[k])
  <2>1. \A j \in 1 .. 8 :
          /\ Attributes[j] \in t.has \ (t.F \cup t.missing) =>
               /\ a[j] # <<>> /\ Tail(a[j]) = a[j + 1]
               /\ Head(a[j]).w = Width(Attributes[j]) /\ Head(a[j]).v = OnWire(e)[Attributes[j]]
          /\ Attributes[j] \notin t.has \ (t.F \cup t.missing) => a[j] = a[j + 1]
    BY AttributeReads, Zenon
  <2> QED BY <2>1
<1>2. a[9] # <<>> /\ Head(a[9]).w = "byte"
  BY DEF EntryAt
<1>3. /\ 1 + 1 = 2 /\ 2 + 1 = 3 /\ 3 + 1 = 4 /\ 4 + 1 = 5 /\ 5 + 1 = 6 /\ 6 + 1 = 7
      /\ 7 + 1 = 8 /\ 8 + 1 = 9
  OBVIOUS
<1>4. a[8] # <<>> /\ Head(a[8]).w \in {"md4", "byte"}
  <2>1. 8 \in 1 .. 8
    OBVIOUS
  <2> QED BY <1>1, <1>2, <1>3, <2>1, AttributeNames, Widths
<1>5. a[7] # <<>> /\ Head(a[7]).w \in {"string", "md4", "byte"}
  <2>1. 7 \in 1 .. 8
    OBVIOUS
  <2> QED BY <1>1, <1>3, <1>4, <2>1, AttributeNames, Widths
<1>6. a[6] # <<>> /\ a[5] # <<>> /\ a[4] # <<>> /\ a[3] # <<>> /\ a[2] # <<>> /\ a[1] # <<>>
  <2>1. a[6] # <<>>
    BY <1>1, <1>3, <1>5
  <2>2. a[5] # <<>>
    BY <1>1, <1>3, <2>1
  <2>3. a[4] # <<>>
    BY <1>1, <1>3, <2>2
  <2>4. a[3] # <<>>
    BY <1>1, <1>3, <2>3
  <2>5. a[2] # <<>>
    BY <1>1, <1>3, <2>4
  <2>6. a[1] # <<>>
    BY <1>1, <1>3, <2>5
  <2> QED BY <2>1, <2>2, <2>3, <2>4, <2>5, <2>6
<1>7. \A k \in 1 .. 9 : k \in {1, 2, 3, 4, 5, 6, 7, 8, 9}
  OBVIOUS
<1> QED BY <1>2, <1>4, <1>5, <1>6, <1>7

-----------------------------------------------------------------------------
(* The entries laid end to end.                                            *)

Inherited == {"time", "mode", "uid", "gid", "rdev"}

(* What a tag says of an entry that is shared with another, before.        *)
Shares(t, e, before) ==
  /\ t.n > 0 => upload /\ t.n <= Len(before.name) /\ \A j \in 1 .. t.n : before.name[j] = e.name[j]
  /\ \A s \in Inherited : s \in t.F => Known(before)[s] = e[s]

(* What it says of the entry i.                                            *)
Fits(i, t) ==
  /\ t.n <= Len(encoded[i].name)
  /\ "long" \in t.F \/ "top" \in t.F
  /\ "name" \in t.F <=> t.n > 0
  /\ \A k \in 1 .. 8 : Attributes[k] \in t.has <=> Sends(Attributes[k], encoded[i].mode)
  /\ \A s \in Inherited : s \in t.F => s \in t.has
  /\ t.missing # {} => ~upload /\ abandoned # {}
  /\ IF i > 1 THEN Shares(t, encoded[i], encoded[i - 1])
     ELSE t.n = 0 /\ \A s \in Inherited : s \notin t.F

(* The entries are laid end to end: R[i] is what begins with the entry i.  *)
Laid(R, A, T) ==
  /\ R \in [1 .. Len(encoded) + 1 -> Seq(WireField)]
  /\ A \in [1 .. Len(encoded) -> [1 .. 9 -> Seq(WireField)]]
  /\ T \in [1 .. Len(encoded) -> Tag]
  /\ \A i \in 1 .. Len(encoded) :
       Fits(i, T[i]) /\ EntryAt(encoded[i], T[i], R[i], A[i], R[i + 1])

(* The layout depends on nothing but the entries and the options.          *)
LEMMA LaidStays ==
  ASSUME UNCHANGED <<upload, opts, encoded, abandoned>>, NEW R, NEW A, NEW T, Laid(R, A, T)
  PROVE  Laid(R, A, T)'
<1>1. \A s, m : Sends(s, m)' = Sends(s, m)
  BY DEF Sends
<1>2. \A e : Known(e)' = Known(e)
  BY <1>1 DEF Known
<1>3. \A i, t : Fits(i, t)' = Fits(i, t)
  BY DEF Fits, Shares, Known, Sends
<1> QED BY <1>3 DEF Laid

(* Whatever is written after the entries.                                  *)
LEMMA LaidGoesOn ==
  ASSUME encoded \in Seq(Info), NEW R, NEW A, NEW T, Laid(R, A, T), NEW more \in Seq(WireField)
  PROVE  Laid([j \in 1 .. Len(encoded) + 1 |-> R[j] \o more],
              [j \in 1 .. Len(encoded) |-> [k \in 1 .. 9 |-> A[j][k] \o more]], T)
<1> DEFINE R2 == [j \in 1 .. Len(encoded) + 1 |-> R[j] \o more]
           A2 == [j \in 1 .. Len(encoded) |-> [k \in 1 .. 9 |-> A[j][k] \o more]]
<1>1. /\ R \in [1 .. Len(encoded) + 1 -> Seq(WireField)]
      /\ A \in [1 .. Len(encoded) -> [1 .. 9 -> Seq(WireField)]]
      /\ T \in [1 .. Len(encoded) -> Tag]
  BY DEF Laid
<1>2. \A x, y \in Seq(WireField) : x \o y \in Seq(WireField)
  BY ConcatProperties
<1>3. R2 \in [1 .. Len(encoded) + 1 -> Seq(WireField)]
  <2>1. \A j \in 1 .. Len(encoded) + 1 : R[j] \o more \in Seq(WireField)
    BY <1>1, <1>2
  <2> QED BY <2>1
<1>4. A2 \in [1 .. Len(encoded) -> [1 .. 9 -> Seq(WireField)]]
  <2>1. ASSUME NEW j \in 1 .. Len(encoded), NEW k \in 1 .. 9 PROVE A[j][k] \o more \in Seq(WireField)
    <3>1. A[j][k] \in Seq(WireField)
      BY <1>1
    <3> QED BY <1>2, <3>1
  <2>2. ASSUME NEW j \in 1 .. Len(encoded)
        PROVE  [k \in 1 .. 9 |-> A[j][k] \o more] \in [1 .. 9 -> Seq(WireField)]
    BY <2>1
  <2> QED BY <2>2
<1>5. ASSUME NEW i \in 1 .. Len(encoded)
      PROVE  Fits(i, T[i]) /\ EntryAt(encoded[i], T[i], R2[i], A2[i], R2[i + 1])
  <2>1. Fits(i, T[i]) /\ EntryAt(encoded[i], T[i], R[i], A[i], R[i + 1])
    BY DEF Laid
  <2>2. PICK e \in Info : e = encoded[i]
    OBVIOUS
  <2>3. PICK t \in Tag : t = T[i]
    BY <1>1
  <2>4. t.n <= Len(e.name)
    BY <2>1, <2>2, <2>3 DEF Fits
  <2>5. i \in 1 .. Len(encoded) + 1 /\ i + 1 \in 1 .. Len(encoded) + 1
    OBVIOUS
  <2>6. PICK r \in Seq(WireField) : r = R[i]
    BY <1>1, <2>5
  <2>7. PICK rest \in Seq(WireField) : rest = R[i + 1]
    BY <1>1, <2>5
  <2>8. PICK a \in [1 .. 9 -> Seq(WireField)] : a = A[i]
    BY <1>1
  <2>9. EntryAt(e, t, r, a, rest)
    BY <2>1, <2>2, <2>3, <2>6, <2>7, <2>8
  <2>10. EntryAt(e, t, r \o more, [k \in 1 .. 9 |-> a[k] \o more], rest \o more)
    BY <2>4, <2>9, EntryGoesOn
  <2>11. /\ R2[i] = r \o more /\ R2[i + 1] = rest \o more
         /\ A2[i] = [k \in 1 .. 9 |-> a[k] \o more]
    BY <2>5, <2>6, <2>7, <2>8
  <2> HIDE DEF R2, A2
  <2> QED BY <2>1, <2>2, <2>3, <2>10, <2>11
<1> HIDE DEF R2, A2
<1>6. Laid(R2, A2, T)
  BY <1>1, <1>3, <1>4, <1>5 DEF Laid
<1> QED BY <1>6 DEF R2, A2

(* One more entry.                                                         *)
LEMMA LaidOneMore ==
  ASSUME encoded \in Seq(Info), NEW e \in Info, encoded' = Append(encoded, e),
         UNCHANGED <<upload, opts>>, abandoned # {} => abandoned' # {},
         NEW R, NEW A, NEW T, Laid(R, A, T), R[Len(encoded) + 1] = <<>>,
         NEW t \in Tag, NEW j, j = Len(encoded) + 1, Fits(j, t)'
  PROVE  \E R2, A2, T2 : /\ Laid(R2, A2, T2)' /\ R2[Len(encoded) + 2] = <<>>
                         /\ R2[1] = R[1] \o Entry(OnWire(e), t.F, t.n, t.missing)
<1>1. PICK N \in Nat : N = Len(encoded) /\ j = N + 1
  OBVIOUS
<1>2. /\ Len(encoded') = N + 1 /\ encoded'[N + 1] = e
      /\ \A i \in 1 .. N : encoded'[i] = encoded[i]
  BY <1>1
<1>3. t.n <= Len(e.name)
  <2>1. t.n <= Len(encoded'[N + 1].name)
    BY <1>1 DEF Fits
  <2> QED BY <1>2, <2>1
<1>4. PICK E \in Seq(WireField), c \in [1 .. 9 -> Seq(WireField)] :
        E = Entry(OnWire(e), t.F, t.n, t.missing) /\ EntryAt(e, t, E, c, <<>>)
  <2>1. \A k \in 1 .. 8 : Attributes[k] \in t.has <=> Sends(Attributes[k], e.mode)
    <3>1. \A k \in 1 .. 8 : Attributes[k] \in t.has <=> Sends(Attributes[k], encoded[N + 1].mode)'
      BY <1>1 DEF Fits
    <3> QED BY <1>2, <3>1 DEF Sends
  <2>2. /\ Entry(OnWire(e), t.F, t.n, t.missing) \in Seq(WireField)
        /\ EntryAt(e, t, Entry(OnWire(e), t.F, t.n, t.missing),
                   AttributesFrom(OnWire(e), t.F \cup t.missing), <<>>)
    BY <1>3, <2>1, EntryIs
  <2>3. OnWire(e) \in Info
    BY OnWireIs
  <2>4. AttributesFrom(OnWire(e), t.F \cup t.missing) \in [1 .. 9 -> Seq(WireField)]
    BY <2>3, AttributesFromIs
  <2> QED BY <2>2, <2>4
<1> DEFINE S == [i \in 1 .. N + 1 |-> R[i] \o E]
           B == [i \in 1 .. N |-> [k \in 1 .. 9 |-> A[i][k] \o E]]
           R2 == [i \in 1 .. N + 2 |-> IF i = N + 2 THEN <<>> ELSE S[i]]
           A2 == [i \in 1 .. N + 1 |-> IF i = N + 1 THEN c ELSE B[i]]
           T2 == [i \in 1 .. N + 1 |-> IF i = N + 1 THEN t ELSE T[i]]
<1>5. Laid(S, B, T)
  <2>1. Laid([i \in 1 .. Len(encoded) + 1 |-> R[i] \o E],
             [i \in 1 .. Len(encoded) |-> [k \in 1 .. 9 |-> A[i][k] \o E]], T)
    BY LaidGoesOn
  <2> QED BY <1>1, <2>1
<1>6. /\ S \in [1 .. N + 1 -> Seq(WireField)] /\ B \in [1 .. N -> [1 .. 9 -> Seq(WireField)]]
      /\ T \in [1 .. N -> Tag]
      /\ \A i \in 1 .. N : Fits(i, T[i]) /\ EntryAt(encoded[i], T[i], S[i], B[i], S[i + 1])
  BY <1>1, <1>5 DEF Laid
<1>7. S[N + 1] = E /\ S[1] = R[1] \o E
  <2>1. 1 \in 1 .. N + 1 /\ N + 1 \in 1 .. N + 1
    OBVIOUS
  <2>2. S[1] = R[1] \o E /\ S[N + 1] = R[N + 1] \o E
    BY <1>1, <2>1
  <2>3. <<>> \o E = E
    BY <1>4, ConcatEmptySeq
  <2> QED BY <1>1, <2>2, <2>3
<1> HIDE DEF S, B
<1>8. /\ R2[N + 2] = <<>> /\ \A i \in 1 .. N + 1 : R2[i] = S[i]
      /\ A2[N + 1] = c /\ \A i \in 1 .. N : A2[i] = B[i]
      /\ T2[N + 1] = t /\ \A i \in 1 .. N : T2[i] = T[i]
  <2>1. \A i \in 1 .. N + 1 : i \in 1 .. N + 2 /\ i # N + 2
    BY ONLY N \in Nat
  <2>2. \A i \in 1 .. N : i \in 1 .. N + 1 /\ i # N + 1
    BY ONLY N \in Nat
  <2>3. N + 2 \in 1 .. N + 2 /\ N + 1 \in 1 .. N + 1
    BY ONLY N \in Nat
  <2>4. R2[N + 2] = <<>> /\ A2[N + 1] = c /\ T2[N + 1] = t
    BY <2>3
  <2>5. ASSUME NEW i \in 1 .. N + 1 PROVE R2[i] = S[i]
    BY <2>1
  <2>6. ASSUME NEW i \in 1 .. N PROVE A2[i] = B[i] /\ T2[i] = T[i]
    BY <2>2
  <2> HIDE DEF R2, A2, T2
  <2> QED BY <2>4, <2>5, <2>6
<1>9. /\ R2 \in [1 .. N + 2 -> Seq(WireField)] /\ T2 \in [1 .. N + 1 -> Tag]
      /\ A2 \in [1 .. N + 1 -> [1 .. 9 -> Seq(WireField)]]
  <2>1. ASSUME NEW i \in 1 .. N + 2 PROVE (IF i = N + 2 THEN <<>> ELSE S[i]) \in Seq(WireField)
    <3>1. i # N + 2 => i \in 1 .. N + 1
      OBVIOUS
    <3>2. \A x \in 1 .. N + 1 : S[x] \in Seq(WireField)
      BY <1>6
    <3>3. <<>> \in Seq(WireField)
      OBVIOUS
    <3> QED BY <3>1, <3>2, <3>3
  <2>2. ASSUME NEW i \in 1 .. N + 1
        PROVE  /\ (IF i = N + 1 THEN c ELSE B[i]) \in [1 .. 9 -> Seq(WireField)]
               /\ (IF i = N + 1 THEN t ELSE T[i]) \in Tag
    <3>1. i # N + 1 => i \in 1 .. N
      OBVIOUS
    <3> QED BY <1>6, <3>1
  <2> QED BY <2>1, <2>2
<1> HIDE DEF R2, A2, T2
<1>10. ASSUME NEW i \in 1 .. N
       PROVE  Fits(i, T2[i])' /\ EntryAt(encoded[i], T2[i], R2[i], A2[i], R2[i + 1])'
  <2>1. Fits(i, T[i])'
    <3>1. Fits(i, T[i])
      BY <1>6
    <3>2. encoded'[i] = encoded[i] /\ (i > 1 => encoded'[i - 1] = encoded[i - 1])
      <4>1. i > 1 => i - 1 \in 1 .. N
        OBVIOUS
      <4> QED BY <1>2, <4>1
    <3>3. PICK q \in Tag : q = T[i]
      BY <1>6
    <3>4. Fits(i, q)
      BY <3>1, <3>3
    <3>5. Fits(i, q)'
      <4>1. \A k \in 1 .. 8 :
              Sends(Attributes[k], encoded[i].mode)' <=> Sends(Attributes[k], encoded[i].mode)
        BY <3>2 DEF Sends
      <4>2. i > 1 => Known(encoded[i - 1])' = Known(encoded[i - 1])
        BY <3>2 DEF Known, Sends
      <4>3. i > 1 => (Shares(q, encoded[i], encoded[i - 1]) => Shares(q, encoded[i], encoded[i - 1])')
        BY <3>2, <4>2 DEF Shares
      <4> QED BY <3>2, <3>4, <4>1, <4>3 DEF Fits
    <3> QED BY <3>3, <3>5
  <2>2. EntryAt(encoded[i], T[i], S[i], B[i], S[i + 1])
    BY <1>6
  <2>3. EntryAt(encoded[i], T[i], S[i], B[i], S[i + 1])'
    BY <1>2, <2>2
  <2>4. T2[i] = T[i] /\ R2[i] = S[i] /\ A2[i] = B[i] /\ R2[i + 1] = S[i + 1]
    <3>1. i \in 1 .. N + 1 /\ i + 1 \in 1 .. N + 1
      OBVIOUS
    <3> QED BY <1>8, <3>1
  <2> QED BY <2>1, <2>3, <2>4
<1>11. Fits(N + 1, T2[N + 1])'
  BY <1>1, <1>8
<1>12. EntryAt(encoded[N + 1], T2[N + 1], R2[N + 1], A2[N + 1], R2[N + 2])'
  <2>1. T2[N + 1] = t /\ A2[N + 1] = c /\ R2[N + 2] = <<>> /\ R2[N + 1] = E
    <3>1. N + 1 \in 1 .. N + 1
      OBVIOUS
    <3> QED BY <1>7, <1>8, <3>1
  <2>2. EntryAt(encoded'[N + 1], T2[N + 1], R2[N + 1], A2[N + 1], R2[N + 2])
    BY <1>2, <1>4, <2>1
  <2> QED BY <2>2
<1>13. Laid(R2, A2, T2)'
  <2>1. ASSUME NEW i \in 1 .. N + 1
        PROVE  Fits(i, T2[i])' /\ EntryAt(encoded[i], T2[i], R2[i], A2[i], R2[i + 1])'
    <3>1. CASE i \in 1 .. N
      BY <1>10, <3>1
    <3>2. CASE i = N + 1
      <4>1. i + 1 = N + 2
        BY <3>2
      <4> QED BY <1>11, <1>12, <3>2, <4>1
    <3>3. i \in 1 .. N \/ i = N + 1
      OBVIOUS
    <3> QED BY <3>1, <3>2, <3>3
  <2>2. Len(encoded') + 1 = N + 2
    BY <1>2
  <2> QED BY <1>2, <1>9, <2>1, <2>2 DEF Laid
<1>14. R2[1] = R[1] \o E
  <2>1. 1 \in 1 .. N + 1
    OBVIOUS
  <2> QED BY <1>7, <1>8, <2>1
<1> QED BY <1>1, <1>4, <1>8, <1>13, <1>14

Id == Nat \ {0}

IdName == Field("id name", 0)

-----------------------------------------------------------------------------
(* What follows the entries.                                               *)

(* The fields of which an id list is made.                                 *)
LEMMA IdFields ==
  /\ IdName \in WireField /\ EndOfList \in WireField
  /\ \A n \in Nat : Field("int", n) \in WireField
<1>1. {} \in Held /\ \A n \in Nat : n \in Held
  BY DEF Held
<1> QED BY <1>1, FieldIs DEF IdName, EndOfList, FieldWidth

(* An id list, field by field.                                             *)
LEMMA IdListIs ==
  ASSUME NEW ids \in Seq(Id)
  PROVE  /\ IdList(ids) \in Seq(WireField) /\ Len(IdList(ids)) = 2 * Len(ids) + 1
         /\ \A j \in 1 .. 2 * Len(ids) + 1 : IdList(ids)[j] =
              IF j % 2 = 0 THEN IdName
              ELSE Field("int", IF j < 2 * Len(ids) THEN ids[(j + 1) \div 2] ELSE 0)
<1> DEFINE m == 2 * Len(ids) + 1
           x(j) == IF j % 2 = 0 THEN IdName
                   ELSE Field("int", IF j < 2 * Len(ids) THEN ids[(j + 1) \div 2] ELSE 0)
<1>1. IdList(ids) = [j \in 1 .. m |-> x(j)]
  BY DEF IdList, IdName
<1>2. m \in Nat
  OBVIOUS
<1>3. ASSUME NEW j \in 1 .. m PROVE x(j) \in WireField
  <2>1. CASE j % 2 = 0
    BY <2>1, IdFields
  <2>2. CASE j % 2 # 0 /\ j < 2 * Len(ids)
    <3>1. (j + 1) \div 2 \in 1 .. Len(ids)
      BY <2>2
    <3>2. ids[(j + 1) \div 2] \in Nat
      BY <3>1 DEF Id
    <3>3. x(j) = Field("int", ids[(j + 1) \div 2])
      BY <2>2
    <3> HIDE DEF x
    <3> QED BY <3>2, <3>3, IdFields
  <2>3. CASE j % 2 # 0 /\ ~(j < 2 * Len(ids))
    <3>1. x(j) = Field("int", 0)
      BY <2>3
    <3> HIDE DEF x
    <3> QED BY <3>1, IdFields
  <2> QED BY <2>1, <2>2, <2>3
<1> DEFINE l == [j \in 1 .. m |-> x(j)]
<1>4. l \in Seq(WireField) /\ Len(l) = m
  <2>1. \A j \in 1 .. m : x(j) \in WireField
    BY <1>3
  <2> HIDE DEF m, x
  <2> QED BY <1>2, <2>1
<1>5. \A j \in 1 .. m : l[j] = x(j)
  OBVIOUS
<1> HIDE DEF l
<1> QED BY <1>1, <1>4, <1>5 DEF l

(* A list of ids goes on with the list of the others.                      *)
LEMMA IdListMore ==
  ASSUME NEW ids \in Seq(Id), ids # <<>>
  PROVE  IdList(ids) = <<Field("int", Head(ids)), IdName>> \o IdList(Tail(ids))
<1> DEFINE p == <<Field("int", Head(ids)), IdName>>
           q == IdList(Tail(ids))
           r == IdList(ids)
           n == Len(ids)
<1>1. /\ n \in Nat \ {0} /\ Tail(ids) \in Seq(Id) /\ Len(Tail(ids)) = n - 1
      /\ \A i \in 1 .. n - 1 : Tail(ids)[i] = ids[i + 1]
      /\ Head(ids) = ids[1] /\ ids[1] \in Nat
  BY DEF Id
<1>2. /\ r \in Seq(WireField) /\ Len(r) = 2 * n + 1
      /\ \A j \in 1 .. 2 * n + 1 : r[j] =
           IF j % 2 = 0 THEN IdName ELSE Field("int", IF j < 2 * n THEN ids[(j + 1) \div 2] ELSE 0)
  BY IdListIs
<1>3. /\ q \in Seq(WireField) /\ Len(q) = 2 * (n - 1) + 1
      /\ \A j \in 1 .. 2 * (n - 1) + 1 : q[j] =
           IF j % 2 = 0 THEN IdName
           ELSE Field("int", IF j < 2 * (n - 1) THEN Tail(ids)[(j + 1) \div 2] ELSE 0)
  <2>1. PICK o \in Seq(Id) : o = Tail(ids)
    BY <1>1
  <2>2. /\ IdList(o) \in Seq(WireField) /\ Len(IdList(o)) = 2 * Len(o) + 1
        /\ \A j \in 1 .. 2 * Len(o) + 1 : IdList(o)[j] =
             IF j % 2 = 0 THEN IdName
             ELSE Field("int", IF j < 2 * Len(o) THEN o[(j + 1) \div 2] ELSE 0)
    BY IdListIs
  <2>3. Len(o) = n - 1
    BY <1>1, <2>1
  <2> HIDE DEF n
  <2> QED BY <2>1, <2>2, <2>3
<1>4. p \in Seq(WireField) /\ Len(p) = 2 /\ p[1] = Field("int", Head(ids)) /\ p[2] = IdName
  BY <1>1, IdFields
<1> HIDE DEF p, q, r, n
<1>5. /\ p \o q \in Seq(WireField) /\ Len(p \o q) = 2 * n + 1
      /\ \A j \in 1 .. 2 * n + 1 : (p \o q)[j] = IF j <= 2 THEN p[j] ELSE q[j - 2]
  <2>1. 2 + (2 * (n - 1) + 1) = 2 * n + 1
    BY <1>1
  <2>2. /\ p \o q \in Seq(WireField) /\ Len(p \o q) = Len(p) + Len(q)
        /\ \A j \in 1 .. Len(p) + Len(q) : (p \o q)[j] = IF j <= Len(p) THEN p[j] ELSE q[j - Len(p)]
    BY <1>3, <1>4, ConcatProperties
  <2>3. Len(p) + Len(q) = 2 * n + 1
    BY <1>3, <1>4, <2>1
  <2> QED BY <1>4, <2>2, <2>3
<1>6. ASSUME NEW j \in 1 .. 2 * n + 1 PROVE r[j] = (p \o q)[j]
  <2>1. CASE j = 1
    <3>1. r[1] = Field("int", ids[1])
      <4>1. 1 % 2 # 0 /\ (1 + 1) \div 2 = 1 /\ 1 < 2 * n /\ 1 \in 1 .. 2 * n + 1
        BY <1>1
      <4> QED BY <1>2, <4>1
    <3>2. (p \o q)[1] = p[1]
      BY <1>5, <2>1
    <3> QED BY <1>1, <1>4, <2>1, <3>1, <3>2
  <2>2. CASE j = 2
    <3>1. r[2] = IdName
      <4>1. 2 % 2 = 0 /\ 2 \in 1 .. 2 * n + 1
        BY <1>1
      <4> QED BY <1>2, <4>1
    <3>2. (p \o q)[2] = p[2]
      BY <1>5, <2>2
    <3> QED BY <1>4, <2>2, <3>1, <3>2
  <2>3. CASE j > 2
    <3>1. PICK i \in 1 .. 2 * (n - 1) + 1 : i = j - 2 /\ j = i + 2
      BY <1>1, <2>3
    <3>2. (p \o q)[j] = q[i]
      BY <1>5, <2>3, <3>1
    <3>3. i % 2 = j % 2 /\ (i < 2 * (n - 1) <=> j < 2 * n) /\ (j + 1) \div 2 = (i + 1) \div 2 + 1
      BY <1>1, <3>1
    <3>4. CASE j % 2 = 0
      BY <1>2, <1>3, <3>1, <3>2, <3>3, <3>4
    <3>5. CASE j % 2 # 0 /\ j < 2 * n
      <4>1. (i + 1) \div 2 \in 1 .. n - 1
        BY <1>1, <3>1, <3>3, <3>5
      <4>2. Tail(ids)[(i + 1) \div 2] = ids[(j + 1) \div 2]
        BY <1>1, <3>3, <4>1
      <4>3. q[i] = Field("int", Tail(ids)[(i + 1) \div 2])
        BY <1>3, <3>1, <3>3, <3>5
      <4>4. r[j] = Field("int", ids[(j + 1) \div 2])
        BY <1>2, <3>5
      <4> QED BY <3>2, <4>2, <4>3, <4>4
    <3>6. CASE j % 2 # 0 /\ ~(j < 2 * n)
      <4>1. q[i] = Field("int", 0)
        BY <1>3, <3>1, <3>3, <3>6
      <4>2. r[j] = Field("int", 0)
        BY <1>2, <3>6
      <4> QED BY <3>2, <4>1, <4>2
    <3> QED BY <3>4, <3>5, <3>6
  <2>4. j = 1 \/ j = 2 \/ j > 2
    BY <1>1
  <2> QED BY <2>1, <2>2, <2>3, <2>4
<1>7. r = p \o q
  <2>1. \A x, y \in Seq(WireField) : Len(x) = Len(y) /\ (\A i \in 1 .. Len(x) : x[i] = y[i]) => x = y
    OBVIOUS
  <2> QED BY <1>2, <1>5, <1>6, <2>1
<1> QED BY <1>7 DEF p, q, r

(* What follows the user list, and what the user list is.                  *)
AfterUsers(gid, g, n) == (IF gid THEN IdList(g) ELSE <<>>) \o <<Field("int", n)>>
AfterEnd(uid, gid, u, g, n) == (IF uid THEN IdList(u) ELSE <<>>) \o AfterUsers(gid, g, n)

(* What follows the entries, as the decoder reads it.                      *)
LEMMA TrailerIs ==
  ASSUME NEW u \in Seq(Id), NEW g \in Seq(Id), NEW n \in Nat
  PROVE  /\ \A gid \in BOOLEAN : AfterUsers(gid, g, n) \in Seq(WireField)
         /\ \A uid, gid \in BOOLEAN : AfterEnd(uid, gid, u, g, n) \in Seq(WireField)
         /\ opts.uid \in BOOLEAN /\ opts.gid \in BOOLEAN =>
              Trailer(u, g, n) = <<EndOfList>> \o AfterEnd(opts.uid, opts.gid, u, g, n)
<1>1. IdList(u) \in Seq(WireField) /\ IdList(g) \in Seq(WireField)
  BY IdListIs
<1>2. <<Field("int", n)>> \in Seq(WireField) /\ <<EndOfList>> \in Seq(WireField)
  BY IdFields
<1>3. \A x, y \in Seq(WireField) : x \o y \in Seq(WireField)
  BY ConcatProperties
<1>4. ASSUME NEW gid \in BOOLEAN PROVE AfterUsers(gid, g, n) \in Seq(WireField)
  <2>1. (IF gid THEN IdList(g) ELSE <<>>) \in Seq(WireField)
    BY <1>1
  <2> QED BY <1>2, <1>3, <2>1 DEF AfterUsers
<1>5. ASSUME NEW uid \in BOOLEAN, NEW gid \in BOOLEAN
      PROVE  AfterEnd(uid, gid, u, g, n) \in Seq(WireField)
  <2>1. (IF uid THEN IdList(u) ELSE <<>>) \in Seq(WireField)
    BY <1>1
  <2> QED BY <1>3, <1>4, <2>1 DEF AfterEnd
<1>6. ASSUME opts.uid \in BOOLEAN, opts.gid \in BOOLEAN
      PROVE  Trailer(u, g, n) = <<EndOfList>> \o AfterEnd(opts.uid, opts.gid, u, g, n)
  <2> DEFINE a == <<EndOfList>>
             b == IF opts.uid THEN IdList(u) ELSE <<>>
             c == IF opts.gid THEN IdList(g) ELSE <<>>
             d == <<Field("int", n)>>
  <2>1. a \in Seq(WireField) /\ b \in Seq(WireField) /\ c \in Seq(WireField) /\ d \in Seq(WireField)
    BY <1>1, <1>2
  <2>2. Trailer(u, g, n) = ((a \o b) \o c) \o d
    BY DEF Trailer
  <2>3. AfterEnd(opts.uid, opts.gid, u, g, n) = b \o (c \o d)
    BY DEF AfterEnd, AfterUsers
  <2> HIDE DEF a, b, c, d
  <2>4. PICK x \in Seq(WireField), y \in Seq(WireField) : x = a \o b /\ y = c \o d
    BY <1>3, <2>1
  <2>5. (x \o c) \o d = x \o (c \o d)
    BY <2>1, Assoc
  <2>6. (a \o b) \o y = a \o (b \o y)
    <3>1. a \in Seq(WireField) /\ b \in Seq(WireField) /\ y \in Seq(WireField)
      BY <2>1, <2>4
    <3> QED BY <3>1, Assoc
  <2> QED BY <2>2, <2>3, <2>4, <2>5, <2>6 DEF a
<1> QED BY <1>4, <1>5, <1>6

(* The last field of the trailer.                                          *)
LEMMA LastOfTrailer ==
  ASSUME NEW s \in Seq(WireField), NEW u \in Seq(Id), NEW g \in Seq(Id), NEW n \in Nat
  PROVE  Last(s \o Trailer(u, g, n)) = Field("int", n)
<1> DEFINE a == <<EndOfList>>
           b == IF opts.uid THEN IdList(u) ELSE <<>>
           c == IF opts.gid THEN IdList(g) ELSE <<>>
           x == Field("int", n)
           d == <<x>>
<1>1. a \in Seq(WireField) /\ b \in Seq(WireField) /\ c \in Seq(WireField) /\ x \in WireField
  BY IdListIs, IdFields
<1>2. Trailer(u, g, n) = ((a \o b) \o c) \o d
  BY DEF Trailer
<1> HIDE DEF a, b, c, x
<1>3. PICK y \in Seq(WireField) : y = (a \o b) \o c
  <2>1. a \o b \in Seq(WireField)
    BY <1>1, ConcatProperties
  <2> QED BY <1>1, <2>1, ConcatProperties
<1>4. d \in Seq(WireField) /\ Len(d) = 1 /\ d[1] = x
  BY <1>1
<1> HIDE DEF d
<1>5. PICK z \in Seq(WireField) : z = y \o d
  BY <1>4, ConcatProperties
<1>6. s \o z = (s \o y) \o d
  BY <1>4, <1>5, Assoc
<1>7. PICK w \in Seq(WireField) : w = s \o y
  BY ConcatProperties
<1>8. /\ Len(w \o d) = Len(w) + 1 /\ w \o d \in Seq(WireField)
      /\ \A i \in 1 .. Len(w) + 1 : (w \o d)[i] = IF i <= Len(w) THEN w[i] ELSE d[i - Len(w)]
  <2>1. /\ Len(w \o d) = Len(w) + Len(d) /\ w \o d \in Seq(WireField)
        /\ \A i \in 1 .. Len(w) + Len(d) : (w \o d)[i] = IF i <= Len(w) THEN w[i] ELSE d[i - Len(w)]
    BY <1>4, ConcatProperties
  <2> QED BY <1>4, <2>1
<1>9. (w \o d)[Len(w) + 1] = x
  BY <1>4, <1>8
<1>10. Last(w \o d) = x
  BY <1>8, <1>9 DEF Last
<1> QED BY <1>2, <1>3, <1>5, <1>6, <1>7, <1>10 DEF x

(* How a list of ids is read.                                              *)
LEMMA IdListReads ==
  ASSUME NEW ids \in Seq(Id), NEW r \in Seq(WireField)
  PROVE  /\ IdList(ids) \o r # <<>>
         /\ Head(IdList(ids) \o r) = Field("int", IF ids = <<>> THEN 0 ELSE Head(ids))
         /\ ids = <<>> => Tail(IdList(ids) \o r) = r
         /\ ids # <<>> => Tail(IdList(ids) \o r) = <<IdName>> \o (IdList(Tail(ids)) \o r)
<1>1. CASE ids = <<>>
  <2>1. IdList(ids) = <<Field("int", 0)>>
    <3>5. Len(ids) = 0 /\ 2 * Len(ids) + 1 = 1
      BY <1>1
    <3>6. /\ IdList(ids) \in Seq(WireField) /\ Len(IdList(ids)) = 2 * Len(ids) + 1
          /\ \A j \in 1 .. 2 * Len(ids) + 1 : IdList(ids)[j] =
               IF j % 2 = 0 THEN IdName
               ELSE Field("int", IF j < 2 * Len(ids) THEN ids[(j + 1) \div 2] ELSE 0)
      BY IdListIs
    <3>1. IdList(ids) \in Seq(WireField) /\ Len(IdList(ids)) = 1
      BY <3>5, <3>6
    <3>2. IdList(ids)[1] = Field("int", 0)
      <4>1. IdList(ids)[1] = IF 1 % 2 = 0 THEN IdName
              ELSE Field("int", IF 1 < 2 * Len(ids) THEN ids[(1 + 1) \div 2] ELSE 0)
        <5>1. 1 \in 1 .. 2 * Len(ids) + 1
          BY <3>5
        <5> QED BY <3>6, <5>1
      <4>2. 1 % 2 # 0 /\ ~(1 < 2 * Len(ids))
        BY <3>5
      <4> QED BY <4>1, <4>2
    <3>3. PICK s \in Seq(WireField) : s = IdList(ids)
      BY <3>1
    <3>4. s = <<s[1]>>
      BY <3>1, <3>3
    <3> QED BY <3>2, <3>3, <3>4
  <2>2. Field("int", 0) \in WireField
    BY IdFields
  <2> QED BY <1>1, <2>1, <2>2, HeadTail
<1>2. CASE ids # <<>>
  <2>1. PICK h \in WireField : h = Field("int", Head(ids))
    <3>1. Head(ids) \in Nat
      BY <1>2 DEF Id
    <3> QED BY <3>1, IdFields
  <2>2. PICK m \in Seq(WireField) : m = IdList(Tail(ids))
    <3>1. Tail(ids) \in Seq(Id)
      BY <1>2
    <3> QED BY <3>1, IdListIs
  <2>3. PICK d \in WireField : d = IdName
    BY IdFields
  <2>4. IdList(ids) = <<h, d>> \o m
    BY <1>2, <2>1, <2>2, <2>3, IdListMore
  <2>5. <<h, d>> \o m = <<h>> \o (<<d>> \o m)
    <3>1. <<h>> \o <<d>> = <<h, d>>
      BY TwoFields
    <3>2. <<h>> \in Seq(WireField) /\ <<d>> \in Seq(WireField)
      OBVIOUS
    <3> QED BY <3>1, <3>2, Assoc
  <2>6. PICK x \in Seq(WireField) : x = <<d>> \o m
    BY HeadTail
  <2>7. (<<h>> \o x) \o r = <<h>> \o (x \o r)
    <3>1. <<h>> \in Seq(WireField)
      OBVIOUS
    <3> QED BY <3>1, Assoc
  <2>8. x \o r = <<d>> \o (m \o r)
    <3>1. <<d>> \in Seq(WireField)
      OBVIOUS
    <3> QED BY <2>6, <3>1, Assoc
  <2>9. PICK y \in Seq(WireField) : y = x \o r
    BY ConcatProperties
  <2>10. IdList(ids) \o r = <<h>> \o y
    BY <2>4, <2>5, <2>6, <2>7, <2>9
  <2>11. <<h>> \o y # <<>> /\ Head(<<h>> \o y) = h /\ Tail(<<h>> \o y) = y
    BY HeadTail
  <2> QED BY <1>2, <2>1, <2>2, <2>3, <2>8, <2>9, <2>10, <2>11
<1> QED BY <1>1, <1>2

(* What the decoder has before it while it reads what follows the entries. *)
Trailing(uid, gid, place, rest, n) ==
  \/ /\ place = "users" /\ uid
     /\ \E u, g \in Seq(Id) : rest = IdList(u) \o AfterUsers(gid, g, n)
  \/ /\ place = "user name" /\ uid
     /\ \E u, g \in Seq(Id) : rest = <<IdName>> \o (IdList(u) \o AfterUsers(gid, g, n))
  \/ /\ place = "groups" /\ gid
     /\ \E g \in Seq(Id) : rest = IdList(g) \o <<Field("int", n)>>
  \/ /\ place = "group name" /\ gid
     /\ \E g \in Seq(Id) : rest = <<IdName>> \o (IdList(g) \o <<Field("int", n)>>)
  \/ place = "ioErrors" /\ rest = <<Field("int", n)>>

NextPlace(place, gid, v) ==
  IF place \in {"user name", "group name"}
  THEN IF place = "user name" THEN "users" ELSE "groups"
  ELSE IF v # 0 THEN IF place = "users" THEN "user name" ELSE "group name"
  ELSE IF place = "users" /\ gid THEN "groups" ELSE "ioErrors"

TrailingWidth(place) == IF place \in {"user name", "group name"} THEN "id name" ELSE "int"

(* After the end of the entries.                                           *)
LEMMA TrailingStarts ==
  ASSUME NEW uid \in BOOLEAN, NEW gid \in BOOLEAN,
         NEW u \in Seq(Id), NEW g \in Seq(Id), NEW n \in Nat
  PROVE  Trailing(uid, gid, IF uid THEN "users" ELSE IF gid THEN "groups" ELSE "ioErrors",
                  AfterEnd(uid, gid, u, g, n), n)
<1>1. AfterUsers(gid, g, n) \in Seq(WireField)
  BY TrailerIs
<1>2. PICK m \in WireField : m = Field("int", n)
  BY IdFields
<1>3. ~gid => AfterUsers(gid, g, n) = <<m>>
  <2>1. <<>> \o <<m>> = <<m>>
    OBVIOUS
  <2> QED BY <1>2, <2>1 DEF AfterUsers
<1>4. gid => AfterUsers(gid, g, n) = IdList(g) \o <<m>>
  BY <1>2 DEF AfterUsers
<1>5. CASE uid
  <2>1. AfterEnd(uid, gid, u, g, n) = IdList(u) \o AfterUsers(gid, g, n)
    BY <1>5 DEF AfterEnd
  <2> QED BY <1>5, <2>1 DEF Trailing
<1>6. CASE ~uid
  <2>1. AfterEnd(uid, gid, u, g, n) = AfterUsers(gid, g, n)
    <3>1. PICK r \in Seq(WireField) : r = AfterUsers(gid, g, n)
      BY <1>1
    <3>2. <<>> \o r = r
      OBVIOUS
    <3> QED BY <1>6, <3>1, <3>2 DEF AfterEnd
  <2>2. CASE gid
    BY <1>2, <1>4, <1>6, <2>1, <2>2 DEF Trailing
  <2>3. CASE ~gid
    BY <1>2, <1>3, <1>6, <2>1, <2>3 DEF Trailing
  <2> QED BY <2>2, <2>3
<1> QED BY <1>5, <1>6

(* What is read next, and what is left after it.                           *)
LEMMA TrailingReads ==
  ASSUME NEW uid \in BOOLEAN, NEW gid \in BOOLEAN, NEW n \in Nat, NEW place, NEW r,
         Trailing(uid, gid, place, r, n)
  PROVE  /\ r # <<>> /\ Head(r).w = TrailingWidth(place)
         /\ place # "ioErrors" => Trailing(uid, gid, NextPlace(place, gid, Head(r).v), Tail(r), n)
         /\ place = "ioErrors" => Head(r).v = n /\ Tail(r) = <<>>
<1>1. PICK m \in WireField : m = Field("int", n) /\ m.w = "int" /\ m.v = n
  <2>1. n \in Held /\ "int" \in FieldWidth
    BY DEF Held, FieldWidth
  <2> QED BY <2>1, FieldIs
<1>2. <<m>> \in Seq(WireField)
  OBVIOUS
<1>3. \A v \in Nat : Field("int", v).w = "int" /\ Field("int", v).v = v
  BY DEF Field
<1>4. IdName \in WireField /\ IdName.w = "id name"
  BY IdFields DEF IdName, Field
<1>5. \A ids \in Seq(Id) : ids # <<>> => Head(ids) \in Nat /\ Head(ids) # 0 /\ Tail(ids) \in Seq(Id)
  BY DEF Id
<1>6. \A g \in Seq(Id) : AfterUsers(gid, g, n) \in Seq(WireField)
  BY TrailerIs
<1>7. CASE place = "users"
  <2>1. PICK u \in Seq(Id), g \in Seq(Id) : uid /\ r = IdList(u) \o AfterUsers(gid, g, n)
    BY <1>7 DEF Trailing
  <2>2. PICK z \in Seq(WireField) : z = AfterUsers(gid, g, n)
    BY <1>6
  <2>3. /\ r # <<>> /\ Head(r) = Field("int", IF u = <<>> THEN 0 ELSE Head(u))
        /\ u = <<>> => Tail(r) = z
        /\ u # <<>> => Tail(r) = <<IdName>> \o (IdList(Tail(u)) \o z)
    BY <2>1, <2>2, IdListReads
  <2>4. CASE u = <<>>
    <3>1. Head(r).w = "int" /\ Head(r).v = 0
      BY <1>3, <2>3, <2>4
    <3>2. Tail(r) = AfterEnd(FALSE, gid, u, g, n)
      <4>1. <<>> \o z = z
        OBVIOUS
      <4> QED BY <2>2, <2>3, <2>4, <4>1 DEF AfterEnd
    <3>3. Trailing(FALSE, gid, IF gid THEN "groups" ELSE "ioErrors", Tail(r), n)
      BY <3>2, TrailingStarts
    <3>4. Trailing(uid, gid, IF gid THEN "groups" ELSE "ioErrors", Tail(r), n)
      BY <3>3 DEF Trailing
    <3>5. NextPlace(place, gid, Head(r).v) = IF gid THEN "groups" ELSE "ioErrors"
      BY <1>7, <3>1 DEF NextPlace
    <3> QED BY <1>7, <2>3, <3>1, <3>4, <3>5 DEF TrailingWidth
  <2>5. CASE u # <<>>
    <3>1. Head(r).w = "int" /\ Head(r).v # 0
      BY <1>3, <1>5, <2>3, <2>5
    <3>2. Trailing(uid, gid, "user name", Tail(r), n)
      BY <1>5, <2>1, <2>2, <2>3, <2>5 DEF Trailing
    <3>3. NextPlace(place, gid, Head(r).v) = "user name"
      BY <1>7, <3>1 DEF NextPlace
    <3> QED BY <1>7, <2>3, <3>1, <3>2, <3>3 DEF TrailingWidth
  <2> QED BY <2>4, <2>5
<1>8. CASE place = "groups"
  <2>1. PICK g \in Seq(Id) : gid /\ r = IdList(g) \o <<m>>
    BY <1>1, <1>8 DEF Trailing
  <2>2. PICK z \in Seq(WireField) : z = <<m>>
    BY <1>2
  <2>3. /\ r # <<>> /\ Head(r) = Field("int", IF g = <<>> THEN 0 ELSE Head(g))
        /\ g = <<>> => Tail(r) = z
        /\ g # <<>> => Tail(r) = <<IdName>> \o (IdList(Tail(g)) \o z)
    BY <2>1, <2>2, IdListReads
  <2>4. CASE g = <<>>
    <3>1. Head(r).w = "int" /\ Head(r).v = 0
      BY <1>3, <2>3, <2>4
    <3>2. Trailing(uid, gid, "ioErrors", Tail(r), n)
      BY <1>1, <2>2, <2>3, <2>4 DEF Trailing
    <3>3. NextPlace(place, gid, Head(r).v) = "ioErrors"
      BY <1>8, <3>1 DEF NextPlace
    <3> QED BY <1>8, <2>3, <3>1, <3>2, <3>3 DEF TrailingWidth
  <2>5. CASE g # <<>>
    <3>1. Head(r).w = "int" /\ Head(r).v # 0
      BY <1>3, <1>5, <2>3, <2>5
    <3>2. Trailing(uid, gid, "group name", Tail(r), n)
      BY <1>1, <1>5, <2>1, <2>2, <2>3, <2>5 DEF Trailing
    <3>3. NextPlace(place, gid, Head(r).v) = "group name"
      BY <1>8, <3>1 DEF NextPlace
    <3> QED BY <1>8, <2>3, <3>1, <3>2, <3>3 DEF TrailingWidth
  <2> QED BY <2>4, <2>5
<1>9. CASE place = "user name"
  <2>1. PICK u \in Seq(Id), g \in Seq(Id) :
          uid /\ r = <<IdName>> \o (IdList(u) \o AfterUsers(gid, g, n))
    BY <1>9 DEF Trailing
  <2>2. PICK z \in Seq(WireField) : z = IdList(u) \o AfterUsers(gid, g, n)
    <3>1. PICK x \in Seq(WireField), y \in Seq(WireField) : x = IdList(u) /\ y = AfterUsers(gid, g, n)
      BY <1>6, IdListIs
    <3>2. x \o y \in Seq(WireField)
      BY ConcatProperties
    <3> QED BY <3>1, <3>2
  <2>3. r # <<>> /\ Head(r) = IdName /\ Tail(r) = z
    BY <1>4, <2>1, <2>2, HeadTail
  <2>4. Trailing(uid, gid, "users", Tail(r), n)
    BY <2>1, <2>2, <2>3 DEF Trailing
  <2> QED BY <1>4, <1>9, <2>3, <2>4 DEF TrailingWidth, NextPlace
<1>10. CASE place = "group name"
  <2>1. PICK g \in Seq(Id) : gid /\ r = <<IdName>> \o (IdList(g) \o <<m>>)
    BY <1>1, <1>10 DEF Trailing
  <2>2. PICK z \in Seq(WireField) : z = IdList(g) \o <<m>>
    <3>1. PICK x \in Seq(WireField) : x = IdList(g)
      BY IdListIs
    <3>2. x \o <<m>> \in Seq(WireField)
      BY <1>2, ConcatProperties
    <3> QED BY <3>1, <3>2
  <2>3. r # <<>> /\ Head(r) = IdName /\ Tail(r) = z
    BY <1>4, <2>1, <2>2, HeadTail
  <2>4. Trailing(uid, gid, "groups", Tail(r), n)
    BY <1>1, <2>1, <2>2, <2>3 DEF Trailing
  <2> QED BY <1>4, <1>10, <2>3, <2>4 DEF TrailingWidth, NextPlace
<1>11. CASE place = "ioErrors"
  <2>1. r = <<m>>
    BY <1>1, <1>11 DEF Trailing
  <2> QED BY <1>1, <1>11, <2>1 DEF TrailingWidth
<1>12. place \in {"users", "groups", "user name", "group name", "ioErrors"}
  BY DEF Trailing
<1> QED BY <1>7, <1>8, <1>9, <1>10, <1>11, <1>12

(* A set of numbers up to a bound has a largest one.                       *)
LEMMA Largest ==
  ASSUME NEW N \in Nat, NEW E \in SUBSET (0 .. N), E # {}
  PROVE  \E m \in E : \A n \in E : n <= m
<1> DEFINE S == {b \in Nat : \A D \in SUBSET (0 .. b) : D # {} => \E m \in D : \A n \in D : n <= m}
<1>1. 0 \in S
  <2>1. ASSUME NEW D \in SUBSET (0 .. 0), D # {} PROVE \E m \in D : \A n \in D : n <= m
    <3>1. \A n \in D : n = 0
      OBVIOUS
    <3>2. 0 \in D
      BY <2>1, <3>1
    <3> QED BY <3>1, <3>2
  <2> QED BY <2>1
<1>2. ASSUME NEW b \in Nat, b \in S PROVE b + 1 \in S
  <2>1. ASSUME NEW D \in SUBSET (0 .. b + 1), D # {} PROVE \E m \in D : \A n \in D : n <= m
    <3>1. CASE b + 1 \in D
      BY <3>1
    <3>2. CASE b + 1 \notin D
      <4>1. D \in SUBSET (0 .. b)
        BY <3>2
      <4> QED BY <1>2, <2>1, <4>1
    <3> QED BY <3>1, <3>2
  <2>2. b + 1 \in Nat
    OBVIOUS
  <2> QED BY <2>1, <2>2
<1>3. \A b \in Nat : b \in S => b + 1 \in S
  BY <1>2
<1> HIDE DEF S
<1>4. Nat \subseteq S
  BY <1>1, <1>3, NatSet
<1> QED BY <1>4 DEF S

-----------------------------------------------------------------------------
(* Clean names and sorted lists.                                           *)

(* What Clean has written and read of a part.                              *)
Cleaning == {c \in [out : Seq(Nat), ups : Nat, part : Seq(Nat)] : c.ups <= Len(c.out)}
Used(c)  == (IF c.out = <<>> THEN 0 ELSE Len(c.out) + 1) + Len(c.part)

(* One part of a name never makes filepath.Clean write more than it read.  *)
LEMMA CleanPartIs ==
  ASSUME NEW rooted \in BOOLEAN, NEW c \in Cleaning
  PROVE  /\ CleanPart(rooted, c) \in Cleaning
         /\ [CleanPart(rooted, c) EXCEPT !.part = <<>>] \in Cleaning
         /\ Len(CleanPart(rooted, c).out) <= Used(c)
         /\ c.part = <<>> => CleanPart(rooted, c) = c
<1> DEFINE out == c.out
           join == IF c.out = <<>> THEN c.part ELSE c.out \o <<Slash>> \o c.part
           ends == {n \in c.ups .. Len(c.out) - 1 : n = c.ups \/ c.out[n + 1] = Slash}
           m == CHOOSE m \in ends : \A n \in ends : n <= m
           p == CleanPart(rooted, c)
<1>1. /\ c.out \in Seq(Nat) /\ c.part \in Seq(Nat) /\ c.ups \in Nat /\ c.ups <= Len(c.out)
      /\ Len(c.out) \in Nat /\ Len(c.part) \in Nat /\ c = [out |-> c.out, ups |-> c.ups, part |-> c.part]
  BY DEF Cleaning
<1>2. c.out # <<>> => Len(c.out) > 0
  BY <1>1
<1>3. join \in Seq(Nat) /\ Len(join) = Used(c) /\ Len(c.out) <= Used(c)
  <2>1. CASE c.out = <<>>
    BY <1>1, <2>1 DEF Used
  <2>2. CASE c.out # <<>>
    <3>1. <<Slash>> \in Seq(Nat) /\ Len(<<Slash>>) = 1
      BY DEF Slash
    <3>2. c.out \o <<Slash>> \in Seq(Nat) /\ Len(c.out \o <<Slash>>) = Len(c.out) + 1
      BY <1>1, <3>1, ConcatProperties
    <3>3. PICK x \in Seq(Nat) : x = c.out \o <<Slash>>
      BY <3>2
    <3>4. x \o c.part \in Seq(Nat) /\ Len(x \o c.part) = Len(x) + Len(c.part)
      BY <1>1, ConcatProperties
    <3> QED BY <1>1, <2>2, <3>2, <3>3, <3>4 DEF Used
  <2> QED BY <2>1, <2>2
<1>4. ASSUME ends # {} PROVE m \in c.ups .. Len(c.out) - 1
  <2>1. ends \in SUBSET (0 .. Len(c.out))
    BY <1>1
  <2>2. \A n \in ends : n \in c.ups .. Len(c.out) - 1
    OBVIOUS
  <2> HIDE DEF ends
  <2>3. \E x \in ends : \A n \in ends : n <= x
    BY <1>1, <1>4, <2>1, Largest
  <2>4. m \in ends
    BY <2>3
  <2> QED BY <2>2, <2>4
<1>5. p = IF c.part \in {<<>>, <<Dot>>} THEN c
          ELSE IF c.part # <<Dot, Dot>> THEN [c EXCEPT !.out = join]
          ELSE IF ends # {} THEN [c EXCEPT !.out = SubSeq(c.out, 1, m)]
          ELSE IF rooted THEN c
          ELSE [c EXCEPT !.out = join, !.ups = Len(join)]
  BY DEF CleanPart
<1> HIDE DEF p, join, ends, m
<1>6. /\ \/ p = c
         \/ p = [c EXCEPT !.out = join]
         \/ ends # {} /\ p = [c EXCEPT !.out = SubSeq(c.out, 1, m)]
         \/ p = [c EXCEPT !.out = join, !.ups = Len(join)]
      /\ c.part = <<>> => p = c
  <2>1. c.part = <<>> => c.part \in {<<>>, <<Dot>>}
    OBVIOUS
  <2> QED BY <1>5, <2>1, Zenon
<1>7. p \in Cleaning /\ Len(p.out) <= Used(c)
  <2>1. CASE p = c
    BY <1>3, <2>1
  <2>2. CASE p = [c EXCEPT !.out = join]
    <3>1. p = [out |-> join, ups |-> c.ups, part |-> c.part]
      BY <1>1, <2>2
    <3>2. c.ups <= Len(join) /\ c.ups \in Nat
      BY <1>1, <1>3
    <3> QED BY <1>1, <1>3, <3>1, <3>2 DEF Cleaning
  <2>3. CASE ends # {} /\ p = [c EXCEPT !.out = SubSeq(c.out, 1, m)]
    <3>1. m \in Nat /\ c.ups <= m /\ m <= Len(c.out) - 1
      BY <1>1, <1>4, <2>3
    <3>2. PICK x \in Seq(Nat) : x = SubSeq(c.out, 1, m) /\ Len(x) = m
      <4>1. PICK s \in Seq(Nat) : s = c.out
        BY <1>1
      <4>2. SubSeq(s, 1, m) \in Seq(Nat) /\ Len(SubSeq(s, 1, m)) = m
        <5>1. m <= Len(s)
          BY <3>1, <4>1
        <5> QED BY <3>1, <5>1
      <4> QED BY <4>1, <4>2
    <3>3. p = [out |-> x, ups |-> c.ups, part |-> c.part]
      BY <1>1, <2>3, <3>2
    <3> QED BY <1>1, <1>3, <3>1, <3>2, <3>3 DEF Cleaning
  <2>4. CASE p = [c EXCEPT !.out = join, !.ups = Len(join)]
    <3>1. p = [out |-> join, ups |-> Len(join), part |-> c.part]
      BY <1>1, <2>4
    <3>2. Len(join) \in Nat
      BY <1>3
    <3> QED BY <1>1, <1>3, <3>1, <3>2 DEF Cleaning
  <2> QED BY <1>6, <2>1, <2>2, <2>3, <2>4
<1>8. [p EXCEPT !.part = <<>>] \in Cleaning
  <2>1. p \in [out : Seq(Nat), ups : Nat, part : Seq(Nat)] /\ p.ups <= Len(p.out)
    BY <1>7 DEF Cleaning
  <2>2. [p EXCEPT !.part = <<>>] = [out |-> p.out, ups |-> p.ups, part |-> <<>>]
    BY <2>1
  <2>3. <<>> \in Seq(Nat)
    OBVIOUS
  <2> QED BY <2>1, <2>2, <2>3 DEF Cleaning
<1> QED BY <1>6, <1>7, <1>8 DEF p

(* What Clean has used of its input is a number.                           *)
LEMMA UsedIs ==
  ASSUME NEW c \in Cleaning
  PROVE  /\ Len(c.out) \in Nat /\ Len(c.part) \in Nat /\ Used(c) \in Nat
         /\ c.out = <<>> => Used(c) = Len(c.part) /\ Len(c.out) = 0
         /\ c.out # <<>> => Used(c) = Len(c.out) + 1 + Len(c.part)
<1>1. PICK l \in Nat, q \in Nat : l = Len(c.out) /\ q = Len(c.part) /\ (c.out = <<>> => l = 0)
  BY DEF Cleaning
<1>2. CASE c.out = <<>>
  <2>1. Used(c) = 0 + q
    BY <1>1, <1>2 DEF Used
  <2> QED BY <1>1, <1>2, <2>1
<1>3. CASE c.out # <<>>
  <2>1. Used(c) = (l + 1) + q
    BY <1>1, <1>3, Zenon DEF Used
  <2>2. (l + 1) + q \in Nat
    OBVIOUS
  <2>3. Used(c) = Len(c.out) + 1 + Len(c.part)
    BY <1>1, <2>1
  <2> QED BY <1>1, <1>3, <2>1, <2>2, <2>3
<1> QED BY <1>2, <1>3

(* A clean name is a name, and no longer, but for "." instead of nothing.  *)
LEMMA CleanIs ==
  ASSUME NEW name \in Seq(Nat)
  PROVE  /\ Clean(name) \in Seq(Nat)
         /\ Len(Clean(name)) <= Len(name) \/ Len(Clean(name)) = 1
<1> DEFINE N == Len(name)
           rooted == name # <<>> /\ name[1] = Slash
           start == [out |-> <<>>, ups |-> 0, part |-> <<>>]
           next(n, c) == IF name[n] # Slash THEN [c EXCEPT !.part = Append(@, name[n])]
                         ELSE [CleanPart(rooted, c) EXCEPT !.part = <<>>]
           Is(r) == r = [n \in 0 .. N |-> IF n = 0 THEN start ELSE next(n, r[n - 1])]
           read == CHOOSE r : Is(r)
           body == CleanPart(rooted, read[N]).out
<1>1. Clean(name) = IF rooted THEN <<Slash>> \o body ELSE IF body = <<>> THEN <<Dot>> ELSE body
  BY Zenon DEF Clean
<1>2. N \in Nat /\ rooted \in BOOLEAN /\ start \in Cleaning
  <2>1. <<>> \in Seq(Nat) /\ Len(<<>>) = 0
    OBVIOUS
  <2> QED BY <2>1 DEF Cleaning
<1>3. \A n \in 1 .. N : name[n] \in Nat
  OBVIOUS
<1> HIDE DEF rooted
<1>4. ASSUME NEW n \in 1 .. N, NEW c \in Cleaning
      PROVE  /\ next(n, c) \in Cleaning
             /\ name[n] # Slash => next(n, c).out = c.out /\ Len(next(n, c).part) = Len(c.part) + 1
             /\ name[n] = Slash => /\ next(n, c).out = CleanPart(rooted, c).out
                                   /\ next(n, c).part = <<>>
  <2>1. /\ c \in [out : Seq(Nat), ups : Nat, part : Seq(Nat)] /\ c.ups <= Len(c.out)
        /\ c = [out |-> c.out, ups |-> c.ups, part |-> c.part]
    BY DEF Cleaning
  <2>2. CASE name[n] # Slash
    <3>1. PICK x \in Seq(Nat) : x = Append(c.part, name[n]) /\ Len(x) = Len(c.part) + 1
      <4>1. PICK s \in Seq(Nat), y \in Nat : s = c.part /\ y = name[n]
        BY <1>3, <2>1
      <4>2. Append(s, y) \in Seq(Nat) /\ Len(Append(s, y)) = Len(s) + 1
        BY AppendProperties
      <4> QED BY <4>1, <4>2
    <3>2. next(n, c) = [out |-> c.out, ups |-> c.ups, part |-> x]
      BY <2>1, <2>2, <3>1
    <3> HIDE DEF next
    <3>3. next(n, c) \in Cleaning
      BY <2>1, <3>2 DEF Cleaning
    <3> QED BY <2>2, <3>1, <3>2, <3>3
  <2>3. CASE name[n] = Slash
    <3>1. PICK p \in Cleaning : p = CleanPart(rooted, c)
      BY <1>2, CleanPartIs
    <3>2. next(n, c) = [p EXCEPT !.part = <<>>]
      BY <2>3, <3>1
    <3>3. [p EXCEPT !.part = <<>>] \in Cleaning
      BY <1>2, <3>1, CleanPartIs
    <3>4. p \in [out : Seq(Nat), ups : Nat, part : Seq(Nat)]
      BY DEF Cleaning
    <3> HIDE DEF next
    <3>5. next(n, c).out = p.out /\ next(n, c).part = <<>>
      BY <3>2, <3>4
    <3> QED BY <2>3, <3>1, <3>2, <3>3, <3>5
  <2> QED BY <2>2, <2>3
<1> DEFINE T == [n \in 1 .. N |-> [c \in Cleaning |-> next(n, c)]]
<1>5. T \in [1 .. N -> [Cleaning -> Cleaning]]
  <2> HIDE DEF next, N
  <2> QED BY <1>4
<1>6. PICK p \in [0 .. N -> Cleaning] : Follows(p, N, start, T)
  <2> HIDE DEF T, start, N
  <2> QED BY <1>2, <1>5, Solution, ZenonT(60)
<1> HIDE DEF start
<1>7. p[0] = start /\ \A n \in 1 .. N : p[n] = next(n, p[n - 1])
  <2>1. ASSUME NEW n \in 1 .. N PROVE p[n] = next(n, p[n - 1])
    <3>1. p[n] = T[n][p[n - 1]] /\ p[n - 1] \in Cleaning
      <4>1. n - 1 \in 0 .. N
        BY <1>2
      <4> HIDE DEF T, next
      <4> QED BY <1>6, <4>1 DEF Follows
    <3> HIDE DEF next
    <3> QED BY <3>1
  <2> QED BY <1>6, <2>1 DEF Follows
<1> HIDE DEF T, next
<1>8. Is(p)
  <2>1. \A n \in 0 .. N : n # 0 => n \in 1 .. N
    OBVIOUS
  <2>2. \A n \in 0 .. N : p[n] = IF n = 0 THEN start ELSE next(n, p[n - 1])
    BY <1>7, <2>1
  <2>3. p = [n \in 0 .. N |-> p[n]]
    OBVIOUS
  <2> QED BY <2>2, <2>3
<1>9. Is(read)
  <2> HIDE DEF Is
  <2> QED BY <1>8
<1> HIDE DEF read
<1>10. read[0] = start /\ \A n \in 1 .. N : read[n] = next(n, read[n - 1])
  <2>1. \A n \in 1 .. N : n \in 0 .. N /\ n # 0
    OBVIOUS
  <2>2. 0 \in 0 .. N
    BY <1>2
  <2>3. \A n \in 0 .. N : read[n] = IF n = 0 THEN start ELSE next(n, read[n - 1])
    BY <1>9
  <2> QED BY <2>1, <2>2, <2>3
<1> HIDE DEF Is
<1> DEFINE root == IF rooted THEN 1 ELSE 0
           S == {n \in 0 .. N : /\ read[n] \in Cleaning
                                /\ n = 0 => read[n] = start
                                /\ n > 0 => Used(read[n]) <= n - root}
<1>11. 0 \in S
  BY <1>2, <1>10
<1>12. ASSUME NEW n \in 1 .. N, n - 1 \in S PROVE n \in S
  <2>1. PICK c \in Cleaning : c = read[n - 1]
    BY <1>12
  <2>2. PICK d \in Cleaning : d = read[n] /\ d = next(n, c)
    BY <1>4, <1>10, <2>1
  <2>3. /\ name[n] # Slash => d.out = c.out /\ Len(d.part) = Len(c.part) + 1
        /\ name[n] = Slash => d.out = CleanPart(rooted, c).out /\ d.part = <<>>
    BY <1>4, <2>2
  <2>4. /\ Len(c.out) \in Nat /\ Len(c.part) \in Nat /\ Len(d.out) \in Nat /\ Len(d.part) \in Nat
        /\ (c.out = <<>> => Len(c.out) = 0) /\ (d.part = <<>> => Len(d.part) = 0)
    BY DEF Cleaning
  <2>5. PICK uc \in Nat, oc \in Nat, pc0 \in Nat :
          /\ uc = Used(c) /\ oc = Len(c.out) /\ pc0 = Len(c.part)
          /\ c.out = <<>> => uc = pc0 /\ oc = 0
          /\ c.out # <<>> => uc = oc + 1 + pc0
    BY <2>4, UsedIs
  <2>12. PICK ud \in Nat, od \in Nat, pd \in Nat :
          /\ ud = Used(d) /\ od = Len(d.out) /\ pd = Len(d.part)
          /\ d.out = <<>> => ud = pd /\ od = 0
          /\ d.out # <<>> => ud = od + 1 + pd
    BY <2>4, UsedIs
  <2>6. Len(CleanPart(rooted, c).out) <= Used(c) /\ (c.part = <<>> => CleanPart(rooted, c) = c)
    BY <1>2, CleanPartIs
  <2>7. root \in {0, 1} /\ (root = 1 <=> rooted)
    BY <1>2
  <2>8. Used(d) <= n - root
    <3>1. CASE n = 1
      <4>1. c = start
        BY <1>12, <2>1, <3>1
      <4>2. c.out = <<>> /\ c.part = <<>> /\ Used(c) = 0
        BY <4>1 DEF start, Used
      <4>3. CASE name[n] # Slash
        <5>1. ~rooted
          BY <3>1, <4>3 DEF rooted
        <5>2. root = 0
          BY <2>7, <5>1
        <5>3. d.out = <<>> /\ pd = 1
          BY <2>3, <2>4, <2>12, <4>2, <4>3
        <5>4. ud = 1
          BY <2>12, <5>3
        <5> QED BY <2>12, <3>1, <5>2, <5>4
      <4>4. CASE name[n] = Slash
        <5>1. d.out = <<>> /\ d.part = <<>>
          BY <2>3, <2>6, <4>2, <4>4
        <5>2. Used(d) = 0
          BY <2>4, <2>12, <5>1
        <5> QED BY <2>7, <3>1, <5>2
      <4> QED BY <4>3, <4>4
    <3>2. CASE n > 1
      <4>0. PICK k \in {0, 1} : k = root
        BY <2>7
      <4> HIDE DEF root
      <4>1. uc <= (n - 1) - k
        BY <1>12, <2>1, <2>5, <3>2, <4>0 DEF root
      <4>2. CASE name[n] # Slash
        <5>1. (d.out = <<>> <=> c.out = <<>>) /\ od = oc /\ pd = pc0 + 1
          BY <2>3, <2>5, <2>12, <4>2
        <5>2. ud = uc + 1
          <6>1. CASE c.out = <<>>
            BY <2>5, <2>12, <5>1, <6>1
          <6>2. CASE c.out # <<>>
            <7>1. ud = od + 1 + pd /\ uc = oc + 1 + pc0
              BY <2>5, <2>12, <5>1, <6>2
            <7> QED BY <5>1, <7>1
          <6> QED BY <6>1, <6>2
        <5>3. ud <= n - k
          BY <4>1, <5>2
        <5> QED BY <2>12, <4>0, <5>3
      <4>3. CASE name[n] = Slash
        <5>1. pd = 0
          BY <2>3, <2>4, <2>12, <4>3
        <5>2. ud <= od + 1
          BY <2>12, <5>1
        <5>3. od <= uc
          BY <2>3, <2>5, <2>6, <2>12, <4>3
        <5>4. ud <= n - k
          BY <4>1, <5>2, <5>3
        <5> QED BY <2>12, <4>0, <5>4
      <4> QED BY <4>2, <4>3
    <3> QED BY <3>1, <3>2
  <2>9. n \in 0 .. N /\ n # 0
    OBVIOUS
  <2> HIDE DEF root
  <2> QED BY <2>2, <2>8, <2>9
<1>13. \A n \in 1 .. N : n - 1 \in S => n \in S
  BY <1>12
<1>14. \A n \in 0 .. N : n \in S
  <2> HIDE DEF S, N
  <2> QED BY <1>2, <1>11, <1>13, UpTo
<1>15. /\ read[N] \in Cleaning /\ (N = 0 => read[N] = start)
       /\ N > 0 => Used(read[N]) <= N - root
  <2>1. N \in S
    <3> HIDE DEF S, N
    <3>1. N \in 0 .. N
      BY <1>2
    <3> QED BY <1>14, <3>1
  <2> QED BY <2>1
<1>16. PICK c \in Cleaning : c = read[N]
  BY <1>15
<1>17. body \in Seq(Nat) /\ Len(body) <= Used(c) /\ Used(c) \in Nat
  <2>1. PICK q \in Cleaning : q = CleanPart(rooted, c) /\ Len(q.out) <= Used(c)
    BY <1>2, CleanPartIs
  <2>2. q.out \in Seq(Nat)
    BY DEF Cleaning
  <2>3. Used(c) \in Nat
    <3>1. Len(c.out) \in Nat /\ Len(c.part) \in Nat
      BY DEF Cleaning
    <3> QED BY <3>1 DEF Used
  <2> QED BY <1>16, <2>1, <2>2, <2>3
<1>18. N = 0 => Used(c) = 0
  BY <1>15, <1>16 DEF start, Used
<1> HIDE DEF body
<1>19. Len(body) \in Nat
  BY <1>17
<1>20. CASE rooted
  <2>1. N > 0
    BY <1>20 DEF rooted
  <2>2. Len(body) <= N - 1
    BY <1>2, <1>15, <1>16, <1>17, <1>19, <1>20, <2>1
  <2>3. <<Slash>> \in Seq(Nat) /\ Len(<<Slash>>) = 1
    BY DEF Slash
  <2>4. <<Slash>> \o body \in Seq(Nat) /\ Len(<<Slash>> \o body) = 1 + Len(body)
    BY <1>17, <2>3, ConcatProperties
  <2> QED BY <1>1, <1>2, <1>19, <1>20, <2>2, <2>4
<1>21. CASE ~rooted
  <2>1. Len(body) <= N
    BY <1>2, <1>15, <1>16, <1>17, <1>18, <1>19, <1>21
  <2>2. <<Dot>> \in Seq(Nat) /\ Len(<<Dot>>) = 1
    BY DEF Dot
  <2> QED BY <1>1, <1>17, <1>21, <2>1, <2>2
<1> QED BY <1>20, <1>21

(* Two names that differ are in an order.                                  *)
LEMMA LessTotal ==
  ASSUME NEW s \in Seq(Nat), NEW t \in Seq(Nat), s # t
  PROVE  Less(s, t) \/ Less(t, s)
<1> DEFINE E == {n \in 0 .. Len(s) : n <= Len(t) /\ \A i \in 1 .. n : s[i] = t[i]}
<1>1. Len(s) \in Nat /\ Len(t) \in Nat
  OBVIOUS
<1>2. 0 \in E
  BY <1>1
<1>3. E \in SUBSET (0 .. Len(s))
  OBVIOUS
<1>4. PICK k \in E : \A n \in E : n <= k
  <2> HIDE DEF E
  <2> QED BY <1>1, <1>2, <1>3, Largest
<1>5. k \in 0 .. Len(s) /\ k <= Len(t) /\ \A i \in 1 .. k : s[i] = t[i]
  OBVIOUS
<1>6. SubSeq(s, 1, k) = SubSeq(t, 1, k)
  <2>1. /\ SubSeq(s, 1, k) \in Seq(Nat) /\ Len(SubSeq(s, 1, k)) = k
        /\ SubSeq(t, 1, k) \in Seq(Nat) /\ Len(SubSeq(t, 1, k)) = k
    BY <1>1, <1>5
  <2>2. \A i \in 1 .. k : SubSeq(s, 1, k)[i] = s[i] /\ SubSeq(t, 1, k)[i] = t[i]
    BY <1>1, <1>5
  <2>3. \A i \in 1 .. k : SubSeq(s, 1, k)[i] = SubSeq(t, 1, k)[i]
    BY <1>5, <2>2
  <2> QED BY <2>1, <2>3
<1>7. CASE k = Len(s) /\ k = Len(t)
  <2>1. \A i \in 1 .. Len(s) : s[i] = t[i]
    BY <1>5, <1>7
  <2>2. s = t
    BY <1>7, <2>1, SeqEqual
  <2> QED BY <2>2
<1>8. CASE k = Len(s) /\ k < Len(t)
  BY <1>5, <1>6, <1>8 DEF Less
<1>9. CASE k < Len(s) /\ k = Len(t)
  BY <1>5, <1>6, <1>9 DEF Less
<1>10. CASE k < Len(s) /\ k < Len(t)
  <2>1. s[k + 1] # t[k + 1]
    <3> SUFFICES ASSUME s[k + 1] = t[k + 1] PROVE FALSE
      OBVIOUS
    <3>1. k + 1 \in 0 .. Len(s) /\ k + 1 <= Len(t)
      BY <1>5, <1>10
    <3>2. \A i \in 1 .. k + 1 : i \in 1 .. k \/ i = k + 1
      BY <1>5
    <3>3. k + 1 \in E
      BY <1>5, <3>1, <3>2
    <3> QED BY <1>4, <1>5, <3>3
  <2>2. s[k + 1] \in Nat /\ t[k + 1] \in Nat
    BY <1>5, <1>10
  <2>3. s[k + 1] < t[k + 1] \/ t[k + 1] < s[k + 1]
    BY <2>1, <2>2
  <2>4. k \in 0 .. Len(s) /\ k \in 0 .. Len(t)
    BY <1>1, <1>5
  <2> HIDE DEF E
  <2> QED BY <1>6, <1>10, <2>3, <2>4 DEF Less
<1> QED BY <1>1, <1>5, <1>7, <1>8, <1>9, <1>10

(* p leads through the names nm in their order, and x is s in that order.  *)
Ascends(n, nm, p) ==
  /\ p \in [1 .. n -> 1 .. n]
  /\ \A i, j \in 1 .. n : i < j => p[i] # p[j] /\ ~Less(nm[p[j]], nm[p[i]])

InOrder(x, s, p) ==
  /\ p \in [1 .. Len(s) -> 1 .. Len(s)]
  /\ \A i \in 1 .. Len(s) : x[i] = s[p[i]]
  /\ \A i, j \in 1 .. Len(s) : i < j => p[i] # p[j] /\ ~Less(s[p[j]].name, s[p[i]].name)

(* A sorted list has the entries of the list, each at a place of its own.  *)
LEMMA SortedIs ==
  ASSUME NEW S, NEW s \in Seq(S), NEW x \in Sorted(s)
  PROVE  x \in Seq(S) /\ Len(x) = Len(s) /\ \E p : InOrder(x, s, p)
<1>1. DOMAIN s = 1 .. Len(s) /\ Len(s) \in Nat
  OBVIOUS
<1>2. PICK p \in [1 .. Len(s) -> 1 .. Len(s)] :
        /\ x = [i \in 1 .. Len(s) |-> s[p[i]]]
        /\ \A i, j \in 1 .. Len(s) : i < j =>
             p[i] # p[j] /\ ~Less(s[p[j]].name, s[p[i]].name)
  BY <1>1, Zenon DEF Sorted
<1>3. \A i \in 1 .. Len(s) : x[i] = s[p[i]]
  BY <1>2
<1>4. \A i \in 1 .. Len(s) : s[p[i]] \in S
  OBVIOUS
<1>5. x \in Seq(S) /\ Len(x) = Len(s)
  BY <1>1, <1>2, <1>4
<1>6. InOrder(x, s, p)
  BY <1>2, <1>3 DEF InOrder
<1> QED BY <1>5, <1>6

(* What takes no value twice takes every value.                            *)
LEMMA Onto ==
  \A n \in Nat : \A p \in [1 .. n -> 1 .. n] :
    (\A i, j \in 1 .. n : i < j => p[i] # p[j]) => \A v \in 1 .. n : \E i \in 1 .. n : p[i] = v
<1> SUFFICES ASSUME NEW n \in Nat, NEW p \in [1 .. n -> 1 .. n],
                    \A i, j \in 1 .. n : i < j => p[i] # p[j]
             PROVE  \A v \in 1 .. n : \E i \in 1 .. n : p[i] = v
  OBVIOUS
<1>1. \A i, j \in 1 .. n : p[i] = p[j] => i = j
  OBVIOUS
<1>2. p \in Injection(1 .. n, 1 .. n)
  BY <1>1 DEF Injection, IsInjective
<1>3. IsFiniteSet(1 .. n)
  BY FS_Interval
<1>4. p \in Surjection(1 .. n, 1 .. n)
  BY <1>2, <1>3, FS_Injection
<1> QED BY <1>4 DEF Surjection

(* Two sorted arrangements of the same different names are the same.       *)
Differ(n, nm) == \A i, j \in 1 .. n : nm[i] = nm[j] => i = j

(* Two ascending arrangements of the same different names are the same.    *)
LEMMA SortedAlike ==
  \A n \in Nat : \A nm \in [1 .. n -> Seq(Nat)] : \A p, q :
    Differ(n, nm) /\ Ascends(n, nm, p) /\ Ascends(n, nm, q) => \A i \in 1 .. n : p[i] = q[i]
<1> SUFFICES ASSUME NEW n \in Nat, NEW nm \in [1 .. n -> Seq(Nat)], Differ(n, nm),
                    NEW p, NEW q, Ascends(n, nm, p), Ascends(n, nm, q)
             PROVE  \A i \in 1 .. n : p[i] = q[i]
  OBVIOUS
<1>10. \A i, j \in 1 .. n : nm[i] = nm[j] => i = j
  BY DEF Differ
<1>11. p \in [1 .. n -> 1 .. n] /\ q \in [1 .. n -> 1 .. n]
  BY DEF Ascends
<1>12. /\ \A i, j \in 1 .. n : i < j => p[i] # p[j] /\ ~Less(nm[p[j]], nm[p[i]])
       /\ \A i, j \in 1 .. n : i < j => q[i] # q[j] /\ ~Less(nm[q[j]], nm[q[i]])
  BY DEF Ascends
<1>8. ASSUME NEW r \in [1 .. n -> 1 .. n], \A i, j \in 1 .. n : i < j => r[i] # r[j]
      PROVE  \A v \in 1 .. n : \E i \in 1 .. n : r[i] = v
  <2>1. n \in Nat /\ r \in [1 .. n -> 1 .. n]
    OBVIOUS
  <2>2. \A i, j \in 1 .. n : i < j => r[i] # r[j]
    BY <1>8
  <2>3. (\A i, j \in 1 .. n : i < j => r[i] # r[j]) => \A v \in 1 .. n : \E i \in 1 .. n : r[i] = v
    BY ONLY <2>1, Onto, Zenon
  <2> QED BY ONLY <2>2, <2>3
<1>9. (\A i, j \in 1 .. n : i < j => p[i] # p[j]) /\ (\A i, j \in 1 .. n : i < j => q[i] # q[j])
  BY <1>12
<1>6. \A v \in 1 .. n : \E i \in 1 .. n : p[i] = v
  BY <1>8, <1>9, <1>11
<1>7. \A v \in 1 .. n : \E i \in 1 .. n : q[i] = v
  BY <1>8, <1>9, <1>11
<1> DEFINE S == {i \in 0 .. n : \A j \in 1 .. i : p[j] = q[j]}
<1>1. 0 \in S
  OBVIOUS
<1>2. ASSUME NEW i \in 1 .. n, i - 1 \in S PROVE i \in S
  <2>1. \A j \in 1 .. n : j < i => p[j] = q[j]
    BY <1>2
  <2>3. PICK k \in 1 .. n : q[k] = p[i]
    BY <1>7, <1>11
  <2>4. PICK m \in 1 .. n : p[m] = q[i]
    BY <1>6, <1>11
  <2>5. k >= i
    BY <1>11, <1>12, <2>1, <2>3
  <2>6. m >= i
    BY <1>11, <1>12, <2>1, <2>4
  <2>7. k = i
    <3> SUFFICES ASSUME k # i PROVE FALSE
      OBVIOUS
    <3>1. p[i] # q[i] /\ k > i /\ m > i
      BY <1>11, <1>12, <2>3, <2>4, <2>5, <2>6
    <3>2. ~Less(nm[q[k]], nm[q[i]])
      BY <1>12, <3>1
    <3>3. ~Less(nm[p[m]], nm[p[i]])
      BY <1>12, <3>1
    <3>4. nm[p[i]] # nm[q[i]] /\ nm[p[i]] \in Seq(Nat) /\ nm[q[i]] \in Seq(Nat)
      BY <1>10, <1>11, <3>1
    <3> QED BY <2>3, <2>4, <3>2, <3>3, <3>4, LessTotal
  <2>8. p[i] = q[i]
    BY <2>3, <2>7
  <2>9. \A j \in 1 .. i : j < i \/ j = i
    OBVIOUS
  <2>10. \A j \in 1 .. i : p[j] = q[j]
    <3>1. ASSUME NEW j \in 1 .. i PROVE p[j] = q[j]
      <4>1. CASE j < i
        BY <2>1, <4>1
      <4>2. CASE j = i
        BY <2>8, <4>2
      <4> QED BY <2>9, <4>1, <4>2
    <3> QED BY <3>1
  <2>11. i \in 0 .. n
    OBVIOUS
  <2> QED BY <2>10, <2>11
<1>3. \A i \in 1 .. n : i - 1 \in S => i \in S
  BY <1>2
<1> HIDE DEF S
<1>4. \A i \in 0 .. n : i \in S
  BY <1>1, <1>3, UpTo
<1>5. n \in S
  BY <1>4
<1> QED BY <1>5 DEF S

(* As many names as entries: no two entries have the same.                 *)
LEMMA NamesDiffer ==
  ASSUME NEW s \in Seq(Info), Cardinality({e.name : e \in ToSet(s)}) = Len(s)
  PROVE  \A i, j \in 1 .. Len(s) : s[i].name = s[j].name => i = j
<1> DEFINE N == {e.name : e \in ToSet(s)}
           g == [i \in 1 .. Len(s) |-> s[i].name]
<1>1. Len(s) \in Nat
  OBVIOUS
<1>2. ToSet(s) = {s[i] : i \in 1 .. Len(s)}
  BY DEF ToSet
<1>3. g \in [1 .. Len(s) -> N]
  BY <1>2
<1>4. \A x \in N : \E i \in 1 .. Len(s) : g[i] = x
  BY <1>2
<1>5. g \in Surjection(1 .. Len(s), N)
  BY <1>3, <1>4 DEF Surjection
<1>6. IsFiniteSet(1 .. Len(s)) /\ Cardinality(1 .. Len(s)) = Len(s)
  <2>1. PICK n \in Nat : n = Len(s)
    BY <1>1
  <2>2. IsFiniteSet(1 .. n) /\ Cardinality(1 .. n) = IF 1 > n THEN 0 ELSE n - 1 + 1
    <3>1. 1 \in Int /\ n \in Int
      OBVIOUS
    <3> QED BY <3>1, FS_Interval, Zenon
  <2>3. (IF 1 > n THEN 0 ELSE n - 1 + 1) = n
    OBVIOUS
  <2> QED BY <2>1, <2>2, <2>3
<1>7. \A i \in 1 .. Len(s) : g[i] = s[i].name
  OBVIOUS
<1>8. Cardinality(N) = Len(s)
  OBVIOUS
<1> HIDE DEF N, g
<1>9. g \in Injection(1 .. Len(s), N)
  BY <1>5, <1>6, <1>8, FS_Surjection
<1> QED BY <1>7, <1>9 DEF Injection, IsInjective

-----------------------------------------------------------------------------
(* Where the decoder is.                                                   *)

(* What a decoded entry is.                                                *)
Received == {e \in Info : Len(e.name) < PathMax /\ e.time \in -TimeLimit .. TimeLimit - 1}

DecoderTypes ==
  /\ at \in {"flags", "shared", "size", "name", "users", "user name", "groups",
             "group name", "ioErrors"} \cup ToSet(Attributes) \cup Over
  /\ f \in Received /\ last \in Received /\ fileList \in Seq(Received)
  /\ l1 \in Nat /\ l2 \in Nat /\ ioErrors \in Nat

(* Nothing that the encoder does can make the values differ.               *)
Right    == ~Disagree /\ \A e \in ToSet(encoded) : ~upload \/ Clean(e.name) = e.name
LongName == \E e \in ToSet(encoded) : Len(e.name) >= PathMax

(* The entries before i have been read.                                    *)
Before(i) ==
  /\ Len(fileList) = i - 1
  /\ i > 1 => last.mode = encoded[i - 1].mode
  /\ Right => /\ \A j \in 1 .. i - 1 : fileList[j] = Decoded(encoded[j])
              /\ i > 1 => last = Decoded(encoded[i - 1])

(* The attributes of i before k have been read.                            *)
Partial(i, k) ==
  /\ k > 3 => f.mode = encoded[i].mode
  /\ Right => /\ f.name = Clean(encoded[i].name)
              /\ \A j \in 1 .. 8 : f[Attributes[j]]
                   = IF j < k THEN Decoded(encoded[i])[Attributes[j]] ELSE Blank[Attributes[j]]

(* The decoder is within the entry i.                                      *)
InTitle(i, t, r, a) ==
  /\ flags = t.F /\ f = Blank
  /\ \/ at = "shared" /\ "name" \in t.F /\ in = Tail(r)
     \/ at = "size" /\ l1 = t.n /\ in = SizeIn(encoded[i], t, a)
     \/ /\ at = "name" /\ l1 = t.n /\ l2 = Len(Rest(encoded[i], t)) /\ l1 + l2 < PathMax
        /\ in = NameIn(encoded[i], t, a)

InAttribute(i, t, a) ==
  flags = t.F /\ \E k \in 1 .. 8 : at = Attributes[k] /\ in = a[k] /\ Partial(i, k)

Reading(i, t, r, a) ==
  Before(i) /\ ((at = "flags" /\ in = r) \/ InTitle(i, t, r, a) \/ InAttribute(i, t, a))

(* It read an entry without a field that was sent, and will read that      *)
(* field as something else.                                                *)
Doomed ==
  /\ upload /\ Disagree /\ in # <<>> /\ Head(in).w \in {"int", "md4"}
  /\ at \in {"link", "sum", "flags"}

Ended(n) ==
  /\ Right => fileList \in Sorted([i \in DOMAIN encoded |-> Decoded(encoded[i])])
  /\ \/ Trailing(opts.uid, opts.gid, at, in, n)
     \/ at = "done" /\ in = <<>> /\ ioErrors = n

Place(R, A, T, n) ==
  \/ at = "err" /\ (cut \/ LongName \/ Disagree)
  \/ at = "lost" /\ Disagree
  \/ at \notin Over /\ cut /\ in = <<>>
  \/ Doomed
  \/ \E i \in 1 .. Len(encoded) : Reading(i, T[i], R[i], A[i])
  \/ at = "flags" /\ in = R[Len(encoded) + 1] /\ Before(Len(encoded) + 1)
  \/ Ended(n)

(* No two attributes have a name, none has that of another place.          *)
LEMMA AttributesDiffer ==
  /\ \A i, k \in 1 .. 8 : Attributes[i] = Attributes[k] => i = k
  /\ \A k \in 1 .. 8 : Attributes[k] \notin Over \cup
       {"flags", "shared", "size", "name", "users", "user name", "groups", "group name", "ioErrors"}
  /\ ToSet(Attributes) = {Attributes[k] : k \in 1 .. 8}
  /\ Head(Attributes) = Attributes[1]
<1>1. \A k \in 1 .. 8 : k = 1 \/ k = 2 \/ k = 3 \/ k = 4 \/ k = 5 \/ k = 6 \/ k = 7 \/ k = 8
  OBVIOUS
<1>2. \A i, k \in 1 .. 8 : Attributes[i] = Attributes[k] => i = k
  BY <1>1, AttributeNames
<1>3. \A k \in 1 .. 8 : Attributes[k] \notin Over \cup
       {"flags", "shared", "size", "name", "users", "user name", "groups", "group name", "ioErrors"}
  BY <1>1, AttributeNames DEF Over
<1>4. ToSet(Attributes) = {Attributes[k] : k \in 1 .. 8}
  BY AttributeNames DEF ToSet
<1>5. Head(Attributes) = Attributes[1]
  BY DEF Attributes
<1> QED BY <1>2, <1>3, <1>4, <1>5

(* The decoder's steps do not change what it decodes.                      *)
LEMMA SendingStays ==
  ASSUME UNCHANGED sending
  PROVE  /\ Disagree' = Disagree /\ Right' = Right /\ LongName' = LongName
         /\ \A s, m : Reads(s, m)' = Reads(s, m) /\ Sends(s, m)' = Sends(s, m)
         /\ \A e : Decoded(e)' = Decoded(e)
         /\ upload' = upload /\ opts' = opts /\ encoded' = encoded /\ abandoned' = abandoned
         /\ pc' = pc /\ fec' = fec /\ files' = files /\ cut' = cut /\ err' = err
         /\ listing' = listing
<1>1. /\ upload' = upload /\ opts' = opts /\ encoded' = encoded /\ abandoned' = abandoned
      /\ pc' = pc /\ fec' = fec /\ files' = files /\ cut' = cut /\ err' = err /\ listing' = listing
  BY DEF sending, encVars
<1>2. \A s, m : Reads(s, m)' = Reads(s, m) /\ Sends(s, m)' = Sends(s, m)
  BY <1>1 DEF Reads, Sends
<1>3. \A e : Decoded(e)' = Decoded(e)
  BY <1>1 DEF Decoded, Known, Sends
<1>4. Disagree' = Disagree /\ LongName' = LongName
  BY <1>1 DEF Disagree, LongName
<1>5. Right' = Right
  BY <1>1, <1>4 DEF Right
<1> QED BY <1>1, <1>2, <1>3, <1>4, <1>5

(* What was read before stays.                                             *)
LEMMA BeforeStays ==
  ASSUME UNCHANGED sending, UNCHANGED <<last, fileList>>, NEW i, Before(i)
  PROVE  Before(i)'
<1>1. Before(i)' = Before(i)
  BY SendingStays DEF Before
<1> QED BY <1>1

(* ReadAttribute, for the attribute at which the decoder is.               *)
LEMMA AttributeStep ==
  ASSUME ReadAttribute, NEW k \in 1 .. 8, at = Attributes[k]
  PROVE  /\ \/ ~Reads(Attributes[k], f.mode) /\ UNCHANGED <<in, f>>
            \/ /\ Reads(Attributes[k], f.mode) /\ Attributes[k] \in flags
               /\ f' = [f EXCEPT ![Attributes[k]] = last[Attributes[k]]] /\ UNCHANGED in
            \/ /\ Reads(Attributes[k], f.mode) /\ Attributes[k] \notin flags
               /\ Take(Width(Attributes[k])) /\ f' = [f EXCEPT ![Attributes[k]] = Value]
         /\ k < 8 => at' = Attributes[k + 1] /\ UNCHANGED <<last, fileList>>
         /\ k = 8 => at' = "flags" /\ last' = f' /\ fileList' = Append(fileList, f')
         /\ UNCHANGED <<sending, flags, l1, l2, ioErrors>>
<1>1. DOMAIN Attributes = 1 .. 8 /\ Len(Attributes) = 8
  BY AttributeNames
<1>2. PICK i \in DOMAIN Attributes :
        /\ at = Attributes[i]
        /\ \/ ~Reads(Attributes[i], f.mode) /\ UNCHANGED <<in, f>>
           \/ /\ Reads(Attributes[i], f.mode) /\ Attributes[i] \in flags
              /\ f' = [f EXCEPT ![Attributes[i]] = last[Attributes[i]]] /\ UNCHANGED in
           \/ /\ Reads(Attributes[i], f.mode) /\ Attributes[i] \notin flags
              /\ Take(Width(Attributes[i])) /\ f' = [f EXCEPT ![Attributes[i]] = Value]
        /\ IF i < Len(Attributes)
           THEN at' = Attributes[i + 1] /\ UNCHANGED <<last, fileList>>
           ELSE at' = "flags" /\ last' = f' /\ fileList' = Append(fileList, f')
        /\ UNCHANGED <<sending, flags, l1, l2, ioErrors>>
  BY Zenon DEF ReadAttribute
<1>3. i = k
  BY <1>1, <1>2, AttributesDiffer
<1>4. (k < 8 => i < Len(Attributes)) /\ (k = 8 => ~(i < Len(Attributes)))
  BY <1>1, <1>3
<1>5. /\ k < 8 => at' = Attributes[k + 1] /\ UNCHANGED <<last, fileList>>
      /\ k = 8 => at' = "flags" /\ last' = f' /\ fileList' = Append(fileList, f')
  BY <1>2, <1>3, <1>4, Zenon
<1> QED BY <1>2, <1>3, <1>5, Zenon

(* Which steps there are.                                                  *)
LEMMA StepsAt ==
  ASSUME Receive
  PROVE  /\ in # <<>> /\ Head(in).w = Expected /\ (at = "name" => Len(Value) = l2) =>
              ReadFlags \/ ReadShared \/ ReadSize \/ ReadName \/ ReadAttribute
                \/ ReadIds \/ ReadIdName \/ ReadIoErrors
         /\ at \notin Over
BY AttributesDiffer, AttributeNames
   DEF Receive, ReadFlags, ReadShared, ReadSize, ReadName, ReadAttribute, ReadIds, ReadIdName,
       ReadIoErrors, ReadFails, LosesStep, Expected, Over

(* The width the decoder expects, place by place.                          *)
LEMMA ExpectedIs ==
  /\ at \in {"flags", "shared"} => Expected = "byte"
  /\ at = "size" => Expected = SizeWidth
  /\ at = "name" => Expected = "bytes"
  /\ at \in {"users", "user name", "groups", "group name", "ioErrors"} => Expected = TrailingWidth(at)
  /\ \A k \in 1 .. 8 : at = Attributes[k] =>
       Expected = IF Reads(at, f.mode) /\ at \notin flags THEN Width(at) ELSE ""
<1>1. at \in {"flags", "shared"} => Expected = "byte"
  BY AttributesDiffer DEF Expected
<1>2. at = "size" => Expected = SizeWidth
  BY AttributesDiffer DEF Expected
<1>3. at = "name" => Expected = "bytes"
  BY AttributesDiffer DEF Expected
<1>4. at \in {"users", "user name", "groups", "group name", "ioErrors"} => Expected = TrailingWidth(at)
  BY AttributesDiffer DEF Expected, TrailingWidth
<1>5. ASSUME NEW k \in 1 .. 8, at = Attributes[k]
      PROVE  Expected = IF Reads(at, f.mode) /\ at \notin flags THEN Width(at) ELSE ""
  <2>1. /\ at \in ToSet(Attributes)
        /\ at \notin {"flags", "shared", "size", "name", "users", "user name", "groups", "group name", "ioErrors"}
    BY <1>5, AttributesDiffer
  <2> QED BY <2>1 DEF Expected
<1> QED BY <1>1, <1>2, <1>3, <1>4, <1>5

(* An entry that is laid in the stream before the decoder.                 *)
Facing(i, t, r, a, rest) ==
  /\ encoded \in Seq(Info) /\ opts \in Options /\ upload \in BOOLEAN
  /\ i \in 1 .. Len(encoded) /\ t \in Tag /\ a \in [1 .. 9 -> Seq(WireField)]
  /\ EntryAt(encoded[i], t, r, a, rest) /\ Fits(i, t)
  /\ rest # <<>> /\ Head(rest).w = "byte"

(* An entry that the decoder faces is one of the list, laid as its tag     *)
(* says.                                                                   *)
LEMMA FacingIs ==
  ASSUME NEW i, NEW t, NEW r, NEW a, NEW rest, Facing(i, t, r, a, rest)
  PROVE  /\ encoded[i] \in Info /\ t.n \in Nat /\ t.n <= Len(encoded[i].name) /\ t.F \in SUBSET Flag
         /\ t.F # {} /\ ("name" \in t.F <=> t.n > 0) /\ encoded[i].name \in Seq(Nat)
         /\ encoded[i] \in ToSet(encoded)
<1>1. encoded[i] \in Info /\ encoded[i] \in ToSet(encoded)
  BY DEF Facing, ToSet
<1>2. encoded[i].name \in Seq(Nat)
  BY <1>1 DEF Info
<1> QED BY <1>1, <1>2 DEF Facing, Fits, Tag

(* The assumption, constant by constant.                                   *)
LEMMA ConstantsAre ==
  /\ PathMax \in Nat /\ PathMax # 0 /\ PathMax # 1 /\ TimeLimit \in Nat /\ TimeLimit # 0
  /\ Options \subseteq [uid : BOOLEAN, gid : BOOLEAN, devices : BOOLEAN,
                        specials : BOOLEAN, links : BOOLEAN, checksum : BOOLEAN]
<1>1. PathMax \in Nat \ {0, 1} /\ TimeLimit \in Nat \ {0}
  BY FileListAssumption, Zenon
<1>2. Options \subseteq [uid : BOOLEAN, gid : BOOLEAN, devices : BOOLEAN,
                        specials : BOOLEAN, links : BOOLEAN, checksum : BOOLEAN]
  BY FileListAssumption, Zenon
<1> QED BY <1>1, <1>2

(* A new ReceiverFile has the types of a decoded one.                      *)
LEMMA BlankIs == Blank \in Received /\ Blank \in Info
<1>1. <<>> \in Seq(Nat) /\ Len(<<>>) = 0
  OBVIOUS
<1>2. 0 \in -TimeLimit .. TimeLimit - 1 /\ 0 < PathMax
  BY ConstantsAre
<1>3. Blank \in Info
  <2>1. PICK z \in Seq(Nat) : z = <<>>
    BY <1>1
  <2>2. Blank = [name |-> z, length |-> 0, time |-> 0, mode |-> "reg", uid |-> 0, gid |-> 0,
                 rdev |-> 0, link |-> z, sum |-> 0]
    BY <2>1 DEF Blank
  <2>3. 0 \in Nat /\ 0 \in Int /\ "reg" \in Mode /\ 0 \in {0}
    BY DEF Mode
  <2> QED BY <2>2, <2>3 DEF Info
<1>4. Blank.name = <<>> /\ Blank.time = 0
  BY DEF Blank
<1> QED BY <1>1, <1>2, <1>3, <1>4 DEF Received

-----------------------------------------------------------------------------
(* One step of the decoder within an entry.                                *)

(* The status byte of an entry.                                            *)
LEMMA FlagsRead ==
  ASSUME DecoderTypes, NEW i, NEW t, NEW r, NEW a, NEW rest, Facing(i, t, r, a, rest),
         Before(i), at = "flags", in = r, Receive
  PROVE  DecoderTypes' /\ UNCHANGED sending /\ Reading(i, t, r, a)'
<1>1. PICK e \in Info : e = encoded[i] /\ t.n <= Len(e.name)
  BY FacingIs
<1>10. t.n <= Len(e.name) /\ t \in Tag /\ a \in [1 .. 9 -> Seq(WireField)] /\ EntryAt(e, t, r, a, rest)
  BY <1>1 DEF Facing
<1>2. /\ r # <<>> /\ Head(r) = Field("byte", t.F)
      /\ "name" \notin t.F => Tail(r) = SizeIn(e, t, a)
  <2>1. r # <<>>
    BY <1>10, TitleReads
  <2>2. Head(r) = Field("byte", t.F)
    BY <1>10, TitleReads
  <2>3. "name" \notin t.F => Tail(r) = SizeIn(e, t, a)
    BY <1>10, TitleReads
  <2> QED BY <2>1, <2>2, <2>3
<1>3. Head(in).w = "byte" /\ Value = t.F
  BY <1>2 DEF Field, Value
<1>4. ReadFlags
  <2>1. Expected = "byte"
    BY ExpectedIs
  <2>2. \A k \in 1 .. 8 : at # Attributes[k]
    BY AttributesDiffer
  <2> QED BY <1>2, <1>3, <2>1, <2>2, AttributeNames, StepsAt
          DEF ReadShared, ReadSize, ReadName, ReadAttribute, ReadIds, ReadIdName, ReadIoErrors
<1>5. t.F # {} /\ ("name" \in t.F <=> t.n > 0) /\ t.n \in Nat
  BY FacingIs
<1>6. /\ flags' = t.F /\ l1' = 0 /\ f' = Blank /\ in' = Tail(r)
      /\ at' = IF "name" \in t.F THEN "shared" ELSE "size"
      /\ UNCHANGED <<sending, l2, last, fileList, ioErrors>>
  BY <1>3, <1>4, <1>5 DEF ReadFlags, Take
<1>7. encoded' = encoded /\ Before(i)'
  BY <1>6, BeforeStays, SendingStays
<1>8. InTitle(i, t, r, a)'
  <2>1. CASE "name" \in t.F
    BY <1>6, <2>1 DEF InTitle
  <2>2. CASE "name" \notin t.F
    <3>1. t.n = 0 /\ in' = SizeIn(encoded'[i], t, a)
      BY <1>1, <1>2, <1>5, <1>6, <1>7, <2>2
    <3> QED BY <1>6, <2>2, <3>1 DEF InTitle
  <2> QED BY <2>1, <2>2
<1>9. DecoderTypes'
  BY <1>6, BlankIs DEF DecoderTypes
<1> QED BY <1>6, <1>7, <1>8, <1>9 DEF Reading

(* What is read of an entry up to its size.                                *)
LEMMA SharedRead ==
  ASSUME DecoderTypes, NEW i, NEW t, NEW r, NEW a, NEW rest, Facing(i, t, r, a, rest),
         Before(i), InTitle(i, t, r, a), at = "shared", Receive
  PROVE  DecoderTypes' /\ UNCHANGED sending /\ Reading(i, t, r, a)'
<1>1. PICK e \in Info : e = encoded[i] /\ t.n <= Len(e.name)
  BY FacingIs
<1>2. flags = t.F /\ f = Blank /\ "name" \in t.F /\ in = Tail(r)
  BY DEF InTitle
<1>3. e \in Info /\ t \in Tag /\ t.n <= Len(e.name) /\ "name" \in t.F /\ a \in [1 .. 9 -> Seq(WireField)]
      /\ EntryAt(e, t, r, a, rest)
  BY <1>1, <1>2 DEF Facing
<1>4. /\ in # <<>> /\ Head(in).w = "byte" /\ Head(in).v = t.n
      /\ Tail(in) = SizeIn(e, t, a)
  <2>1. Tail(r) # <<>> /\ Head(Tail(r)).w = "byte" /\ Head(Tail(r)).v = t.n
        /\ Tail(Tail(r)) = SizeIn(e, t, a)
    BY <1>3, SharedReads
  <2> QED BY <1>2, <2>1
<1>10. Value = t.n
  BY <1>4 DEF Value
<1>5. ReadShared
  <2>1. Expected = "byte"
    BY ExpectedIs
  <2>2. \A k \in 1 .. 8 : at # Attributes[k]
    BY AttributesDiffer
  <2> QED BY <1>4, <2>1, <2>2, AttributeNames, StepsAt
          DEF ReadFlags, ReadSize, ReadName, ReadAttribute, ReadIds, ReadIdName, ReadIoErrors
<1>6. /\ l1' = t.n /\ at' = "size" /\ in' = SizeIn(e, t, a)
      /\ UNCHANGED <<sending, flags, l2, f, last, fileList, ioErrors>>
  BY <1>4, <1>5, <1>10 DEF ReadShared, Take
<1>7. encoded' = encoded /\ Before(i)'
  BY <1>6, BeforeStays, SendingStays
<1>8. InTitle(i, t, r, a)'
  BY <1>1, <1>2, <1>6, <1>7 DEF InTitle
<1>9. DecoderTypes'
  BY <1>6, FacingIs DEF DecoderTypes
<1> QED BY <1>6, <1>7, <1>8, <1>9 DEF Reading

(* The size of the name: the decoder goes on, or a name of the list is too *)
(* long.                                                                   *)
LEMMA SizeRead ==
  ASSUME DecoderTypes, NEW i, NEW t, NEW r, NEW a, NEW rest, Facing(i, t, r, a, rest),
         Before(i), InTitle(i, t, r, a), at = "size", Receive
  PROVE  /\ DecoderTypes' /\ UNCHANGED sending
         /\ Reading(i, t, r, a)' \/ (at' = "err" /\ LongName')
<1>1. PICK e \in Info : e = encoded[i] /\ t.n <= Len(e.name) /\ e \in ToSet(encoded)
  BY FacingIs
<1>2. flags = t.F /\ f = Blank /\ l1 = t.n /\ in = SizeIn(e, t, a)
  BY <1>1 DEF InTitle
<1>3. in # <<>> /\ Head(in) = SizeField(e, t) /\ Tail(in) = NameIn(e, t, a)
  BY <1>1, <1>2, TitleReads DEF Facing
<1>4. Head(in).w = SizeWidth /\ Value = Len(Rest(e, t))
  BY <1>2, <1>3 DEF Field, Value, SizeField, SizeWidth
<1>5. ReadSize
  <2>1. Expected = SizeWidth
    BY ExpectedIs
  <2>2. \A k \in 1 .. 8 : at # Attributes[k]
    BY AttributesDiffer
  <2> QED BY <1>3, <1>4, <2>1, <2>2, AttributeNames, StepsAt
          DEF ReadFlags, ReadShared, ReadName, ReadAttribute, ReadIds, ReadIdName, ReadIoErrors
<1>6. /\ l2' = Len(Rest(e, t)) /\ in' = NameIn(e, t, a)
      /\ at' = IF TooLong(Len(Rest(e, t))) THEN "err" ELSE "name"
      /\ UNCHANGED <<sending, flags, l1, f, last, fileList, ioErrors>>
  BY <1>3, <1>4, <1>5 DEF ReadSize, Take
<1>7. encoded' = encoded /\ Before(i)' /\ LongName' = LongName
  BY <1>6, BeforeStays, SendingStays
<1>8. PICK m \in Nat : m = Len(Rest(e, t)) /\ m = Len(e.name) - t.n /\ t.n \in Nat
  <2>1. Len(Rest(e, t)) = Len(e.name) - t.n
    BY <1>1, TitleIs DEF Facing
  <2>2. Len(e.name) \in Nat /\ t.n \in Nat
    BY <1>1, FacingIs
  <2> QED BY <1>1, <2>1, <2>2
<1>9. CASE TooLong(m)
  <2>1. m >= PathMax - t.n
    BY <1>2, <1>9 DEF TooLong
  <2>2. Len(e.name) >= PathMax
    <3>0. e.name \in Seq(Nat) /\ PathMax \in Nat
      BY <1>1, FacingIs, ConstantsAre
    <3>4. Len(e.name) \in Nat /\ t.n \in Nat
      BY <1>8, <3>0
    <3>1. PICK l \in Nat, p \in Nat, n \in Nat : l = Len(e.name) /\ p = PathMax /\ n = t.n
      BY <3>0, <3>4, Zenon
    <3>2. m >= p - n /\ m = l - n
      BY <1>8, <2>1, <3>1
    <3>3. l >= p
      BY <3>1, <3>2
    <3> QED BY <3>1, <3>3
  <2>3. at' = "err" /\ LongName'
    BY <1>1, <1>6, <1>7, <1>8, <1>9, <2>2 DEF LongName
  <2>4. DecoderTypes'
    BY <1>6, <1>8, <2>3 DEF DecoderTypes, Over
  <2> QED BY <1>6, <2>3, <2>4
<1>10. CASE ~TooLong(m)
  <2>1. m + t.n < PathMax
    <3>1. ~(m >= PathMax - t.n)
      BY <1>2, <1>10 DEF TooLong
    <3>2. PICK p \in Nat, n \in Nat : p = PathMax /\ n = t.n
      BY <1>8, ConstantsAre
    <3>3. ~(m >= p - n)
      BY <3>1, <3>2
    <3>4. m + n < p
      BY <3>2, <3>3
    <3> QED BY <3>2, <3>4
  <2>2. InTitle(i, t, r, a)'
    <3>1. at' = "name" /\ l1' = t.n /\ l2' = m
      BY <1>2, <1>6, <1>8, <1>10
    <3>2. l1' + l2' < PathMax
      BY <1>8, <2>1, <3>1
    <3> QED BY <1>1, <1>2, <1>6, <1>7, <1>8, <3>1, <3>2 DEF InTitle
  <2>3. DecoderTypes'
    BY <1>6, <1>8, <1>10 DEF DecoderTypes
  <2> QED BY <1>6, <1>7, <2>2, <2>3 DEF Reading
<1> QED BY <1>9, <1>10

(* A function on 1 .. n is a sequence of n elements.                       *)
LEMMA OfLength ==
  ASSUME NEW S, NEW n \in Nat, NEW s \in [1 .. n -> S]
  PROVE  s \in Seq(S) /\ Len(s) = n
<1>1. s \in Seq(S)
  OBVIOUS
<1>2. 1 .. Len(s) = 1 .. n /\ Len(s) \in Nat
  BY <1>1, LenProperties
<1>3. PICK m \in Nat : m = Len(s) /\ 1 .. m = 1 .. n
  BY <1>2
<1>4. m = n
  <2>1. m > 0 => m \in 1 .. n
    BY <1>3
  <2>2. n > 0 => n \in 1 .. m
    BY <1>3
  <2> QED BY <2>1, <2>2
<1> QED BY <1>1, <1>3, <1>4

(* Decoded, field by field.                                                *)
LEMMA DecodedIs ==
  ASSUME NEW e \in Info
  PROVE  /\ Decoded(e).name = Clean(e.name) /\ Decoded(e).length = e.length
         /\ Decoded(e).time = Int32(e.time) /\ Decoded(e).mode = e.mode
         /\ Decoded(e).uid = (IF Sends("uid", e.mode) THEN e.uid ELSE 0)
         /\ Decoded(e).gid = (IF Sends("gid", e.mode) THEN e.gid ELSE 0)
         /\ Decoded(e).rdev = (IF Sends("rdev", e.mode) THEN e.rdev ELSE 0)
         /\ Decoded(e).link = (IF Sends("link", e.mode) THEN e.link ELSE <<>>)
         /\ Decoded(e).sum = 0
         /\ DOMAIN Decoded(e) = DOMAIN Blank
BY DEF Decoded, Known, Info, Blank

(* The name of an entry is put together.                                   *)
LEMMA NameIsWhole ==
  ASSUME NEW i, NEW t, NEW r, NEW a, NEW rest, Facing(i, t, r, a, rest), Before(i), DecoderTypes,
         NEW s \in Seq(Nat), Len(s) = t.n,
         \A x \in 1 .. t.n : s[x] = IF x <= Len(last.name) THEN last.name[x] ELSE Nul,
         Right
  PROVE  s \o Rest(encoded[i], t) = encoded[i].name
<1>1. PICK e \in Info : e = encoded[i] /\ t.n <= Len(e.name) /\ e.name \in Seq(Nat)
  BY FacingIs
<1>2. PICK n \in Nat : n = t.n
  BY FacingIs
<1>3. PICK q \in Seq(Nat) : /\ q = Rest(e, t) /\ Len(q) = Len(e.name) - n
                            /\ \A x \in 1 .. Len(q) : q[x] = e.name[n + x]
  BY <1>1, <1>2, TitleIs DEF Facing
<1>4. PICK c \in Seq(Nat) : c = e.name
  BY <1>1
<1>5. \A x \in 1 .. n : s[x] = c[x]
  <2>1. CASE n = 0
    BY <2>1
  <2>2. CASE n > 0
    <3>1. Fits(i, t) /\ i \in 1 .. Len(encoded) /\ encoded \in Seq(Info)
      BY DEF Facing
    <3>2. i > 1 /\ Shares(t, encoded[i], encoded[i - 1])
      BY <1>2, <2>2, <3>1 DEF Fits
    <3>3. i - 1 \in 1 .. Len(encoded)
      BY <3>1, <3>2
    <3>4. PICK b \in Info : b = encoded[i - 1] /\ b \in ToSet(encoded)
      BY <3>1, <3>3 DEF ToSet
    <3>5. upload /\ n <= Len(b.name) /\ \A j \in 1 .. n : b.name[j] = c[j]
      BY <1>1, <1>2, <1>4, <2>2, <3>2, <3>4 DEF Shares
    <3>6. last = Decoded(b)
      BY <3>2, <3>4 DEF Before
    <3>7. Clean(b.name) = b.name
      BY <3>4, <3>5 DEF Right
    <3>8. last.name = b.name
      BY <3>6, <3>7, DecodedIs
    <3>9. PICK m \in Seq(Nat) : m = b.name
      BY <3>4 DEF Info
    <3>10. \A x \in 1 .. n : s[x] = IF x <= Len(m) THEN m[x] ELSE Nul
      BY <1>2, <3>8, <3>9
    <3>11. n <= Len(m) /\ \A x \in 1 .. n : m[x] = c[x]
      BY <3>5, <3>9
    <3> QED BY <3>10, <3>11
  <2> QED BY <2>1, <2>2
<1>6. Len(s \o q) = Len(c) /\ s \o q \in Seq(Nat)
  <2>1. Len(s) = n /\ Len(q) = Len(c) - n
    BY <1>2, <1>3, <1>4
  <2> QED BY <2>1, ConcatProperties
<1>7. ASSUME NEW x \in 1 .. Len(c) PROVE (s \o q)[x] = c[x]
  <2>1. Len(s) = n /\ Len(q) = Len(c) - n
    BY <1>2, <1>3, <1>4
  <2>2. CASE x <= n
    <3>1. x \in 1 .. Len(s) + Len(q) /\ x <= Len(s) /\ x \in 1 .. n
      BY <2>1, <2>2
    <3>2. (s \o q)[x] = s[x]
      BY <3>1, ConcatProperties
    <3> QED BY <1>5, <3>1, <3>2
  <2>3. CASE x > n
    <3>1. (s \o q)[x] = q[x - n]
      <4>1. x \in 1 .. Len(s) + Len(q) /\ ~(x <= Len(s))
        BY <2>1, <2>3
      <4>2. (s \o q)[x] = q[x - Len(s)]
        BY <4>1, ConcatProperties
      <4> QED BY <2>1, <4>2
    <3>2. x - n \in 1 .. Len(q) /\ n + (x - n) = x
      BY <2>1, <2>3
    <3>3. q[x - n] = c[n + (x - n)]
      BY <1>3, <1>4, <3>2
    <3> QED BY <3>1, <3>2, <3>3
  <2>4. x <= n \/ x > n
    OBVIOUS
  <2> QED BY <2>2, <2>3, <2>4
<1>8. s \o q = c
  BY <1>6, <1>7, SeqEqual
<1> QED BY <1>1, <1>3, <1>4, <1>8

(* The name: the right one is made of the shared prefix and what was sent. *)
LEMMA NameRead ==
  ASSUME DecoderTypes, NEW i, NEW t, NEW r, NEW a, NEW rest, Facing(i, t, r, a, rest),
         Before(i), InTitle(i, t, r, a), at = "name", Receive
  PROVE  DecoderTypes' /\ UNCHANGED sending /\ Reading(i, t, r, a)'
<1>1. PICK e \in Info : e = encoded[i] /\ t.n <= Len(e.name)
  BY FacingIs
<1>2. /\ flags = t.F /\ f = Blank /\ l1 = t.n /\ l2 = Len(Rest(e, t)) /\ l1 + l2 < PathMax
      /\ in = NameIn(e, t, a)
  BY <1>1 DEF InTitle
<1>3. in # <<>> /\ Head(in) = NameField(e, t) /\ Tail(in) = a[1]
  BY <1>1, <1>2, TitleReads DEF Facing
<1>4. Head(in).w = "bytes" /\ Value = Rest(e, t)
  BY <1>3 DEF Field, Value, NameField
<1>5. ReadName
  <2>1. Expected = "bytes"
    BY ExpectedIs
  <2>2. \A k \in 1 .. 8 : at # Attributes[k]
    BY AttributesDiffer
  <2>3. Len(Value) = l2
    BY <1>2, <1>4
  <2> QED BY <1>3, <1>4, <2>1, <2>2, <2>3, AttributeNames, StepsAt
          DEF ReadFlags, ReadShared, ReadSize, ReadAttribute, ReadIds, ReadIdName, ReadIoErrors
<1> DEFINE shared == [x \in 1 .. l1 |-> IF x <= Len(last.name) THEN last.name[x] ELSE Nul]
           name == shared \o Rest(e, t)
<1>6. /\ f' = [f EXCEPT !.name = Clean(name)] /\ at' = Head(Attributes) /\ in' = a[1]
      /\ UNCHANGED <<sending, flags, l1, l2, last, fileList, ioErrors>>
  BY <1>3, <1>4, <1>5 DEF ReadName, Take
<1>7. encoded' = encoded /\ Before(i)' /\ Right' = Right /\ Decoded(e)' = Decoded(e)
  BY <1>6, BeforeStays, SendingStays
<1>8. PICK q \in Seq(Nat) : q = Rest(e, t)
  BY <1>1, TitleIs DEF Facing
<1>9. PICK m \in Seq(Nat) : m = last.name
  BY DEF DecoderTypes, Received, Info
<1>10. PICK s \in Seq(Nat) : s = shared /\ Len(s) = l1
                             /\ \A x \in 1 .. l1 : s[x] = IF x <= Len(last.name) THEN last.name[x] ELSE Nul
  <2>1. l1 \in Nat
    BY DEF DecoderTypes
  <2>2. \A x \in 1 .. l1 : (IF x <= Len(m) THEN m[x] ELSE Nul) \in Nat
    BY <2>1 DEF Nul
  <2>3. shared \in [1 .. l1 -> Nat]
    BY <1>9, <2>2
  <2>4. shared \in Seq(Nat) /\ Len(shared) = l1
    <3> HIDE DEF shared
    <3> QED BY <2>1, <2>3, OfLength
  <2>5. \A x \in 1 .. l1 : shared[x] = IF x <= Len(last.name) THEN last.name[x] ELSE Nul
    OBVIOUS
  <2> HIDE DEF shared
  <2> QED BY <2>4, <2>5
<1>11. name = s \o q
  BY <1>8, <1>10
<1>12. s \o q \in Seq(Nat) /\ Len(s \o q) < PathMax
  <2>1. s \o q \in Seq(Nat) /\ Len(s \o q) = Len(s) + Len(q)
    BY ConcatProperties
  <2>2. Len(s) + Len(q) < PathMax
    BY <1>2, <1>8, <1>10
  <2> QED BY <2>1, <2>2
<1> HIDE DEF name, shared
<1>13. PICK c \in Seq(Nat) : c = Clean(name) /\ Len(c) < PathMax
  <2>1. PICK z \in Seq(Nat) : z = name /\ Len(z) < PathMax
    BY <1>11, <1>12
  <2>2. Clean(z) \in Seq(Nat) /\ (Len(Clean(z)) <= Len(z) \/ Len(Clean(z)) = 1)
    BY CleanIs
  <2>3. PICK d \in Seq(Nat) : d = Clean(z)
    BY <2>2
  <2>4. Len(d) <= Len(z) \/ Len(d) = 1
    BY <2>2, <2>3
  <2>5. Len(d) < PathMax
    <3>4. PathMax \in Nat /\ Len(z) \in Nat /\ Len(d) \in Nat
      BY ConstantsAre
    <3>1. PICK p \in Nat, x \in Nat, y \in Nat : p = PathMax /\ x = Len(z) /\ y = Len(d)
      BY <3>4, Zenon
    <3>2. x < p /\ (y <= x \/ y = 1) /\ p # 0 /\ p # 1
      BY <2>1, <2>4, <3>1, ConstantsAre
    <3>3. y < p
      BY <3>2
    <3> QED BY <3>1, <3>3
  <2> QED BY <2>1, <2>3, <2>5
<1>14. f' = [Blank EXCEPT !.name = c]
  BY <1>2, <1>6, <1>13
<1>15. f' \in Received
  <2>1. f' \in Info
    BY <1>14, BlankIs DEF Info
  <2>2. f'.name = c /\ f'.time = Blank.time
    BY <1>14 DEF Blank
  <2> QED BY <1>13, <2>1, <2>2, BlankIs DEF Received
<1>16. Partial(i, 1)'
  <2>1. \A j \in 1 .. 8 : f'[Attributes[j]] = Blank[Attributes[j]]
    <3>1. \A s1 \in {"length", "time", "mode", "uid", "gid", "rdev", "link", "sum"} : f'[s1] = Blank[s1]
      BY <1>14 DEF Blank
    <3>2. \A j \in 1 .. 8 : Attributes[j] \in
            {"length", "time", "mode", "uid", "gid", "rdev", "link", "sum"}
      <4>1. \A j \in 1 .. 8 : j = 1 \/ j = 2 \/ j = 3 \/ j = 4 \/ j = 5 \/ j = 6 \/ j = 7 \/ j = 8
        OBVIOUS
      <4> QED BY <4>1, AttributeNames
    <3> QED BY <3>1, <3>2
  <2>2. ASSUME Right PROVE f'.name = Clean(encoded[i].name)
    <3>1. l1 = t.n
      BY <1>2
    <3>2. s \o Rest(encoded[i], t) = encoded[i].name
      BY <1>10, <2>2, <3>1, NameIsWhole
    <3>3. name = encoded[i].name
      BY <1>1, <1>8, <1>11, <3>2
    <3>4. f'.name = c
      BY <1>14 DEF Blank
    <3> QED BY <1>13, <3>3, <3>4
  <2>3. \A j \in 1 .. 8 : ~(j < 1)
    OBVIOUS
  <2> QED BY <1>7, <2>1, <2>2, <2>3 DEF Partial
<1>20. at' = Attributes[1] /\ 1 \in 1 .. 8
  <2>1. Head(Attributes) = Attributes[1]
    BY AttributesDiffer, Zenon
  <2>2. at' = Attributes[1]
    BY <1>6, <2>1, Zenon
  <2> QED BY <2>2
<1>17. InAttribute(i, t, a)'
  <2>1. at' = Attributes[1] /\ 1 \in 1 .. 8
    BY <1>20
  <2> QED BY <1>2, <1>6, <1>16, <2>1 DEF InAttribute
<1>18. DecoderTypes'
  <2>1. at' \in ToSet(Attributes)
    <3>1. at' = Attributes[1] /\ 1 \in 1 .. 8
      BY <1>20
    <3> QED BY <3>1, AttributesDiffer
  <2> QED BY <1>6, <1>15, <2>1 DEF DecoderTypes
<1> QED BY <1>6, <1>7, <1>17, <1>18 DEF Reading

(* Where the sides agree on what an entry has.                             *)
LEMMA ReadsAndSends ==
  ASSUME encoded \in Seq(Info), opts \in Options, upload \in BOOLEAN,
         NEW e \in Info, e \in ToSet(encoded), NEW k \in 1 .. 8
  PROVE  /\ k <= 3 => (\A m : Reads(Attributes[k], m)) /\ Sends(Attributes[k], e.mode)
         /\ Reads(Attributes[k], e.mode) /\ ~Sends(Attributes[k], e.mode) => Disagree /\ k = 6
         /\ ~Reads(Attributes[k], e.mode) /\ Sends(Attributes[k], e.mode) =>
              Disagree /\ upload /\ k \in {6, 8}
<1>1. opts \in [uid : BOOLEAN, gid : BOOLEAN, devices : BOOLEAN,
                specials : BOOLEAN, links : BOOLEAN, checksum : BOOLEAN]
  BY ConstantsAre
<1>2. \A x, y : x = 1 \/ x = 2 \/ x = 3 => Sends(Attributes[x], y) /\ Reads(Attributes[x], y)
  BY AttributeNames DEF Sends, Reads
<1>3. \A x, y : x = 4 \/ x = 5 \/ x = 7 => (Sends(Attributes[x], y) <=> Reads(Attributes[x], y))
  BY AttributeNames DEF Sends, Reads
<1>4. /\ Sends(Attributes[6], e.mode) <=> \/ opts.devices /\ IsDev(e.mode)
                                          \/ opts.specials /\ IsSpecial(e.mode)
      /\ Reads(Attributes[6], e.mode) <=>
           IF upload THEN opts.devices /\ (IsDev(e.mode) \/ IsSpecial(e.mode))
           ELSE (opts.devices /\ IsDev(e.mode)) \/ (opts.specials /\ IsSpecial(e.mode))
  BY AttributeNames DEF Sends, Reads
<1>5. /\ Sends(Attributes[8], e.mode) <=> opts.checksum
      /\ Reads(Attributes[8], e.mode) <=> ~upload /\ opts.checksum
  BY AttributeNames DEF Sends, Reads
<1>6. upload /\ (opts.checksum \/ (IsSpecial(e.mode) /\ opts.specials # opts.devices)) => Disagree
  BY DEF Disagree
<1>7. k = 6 =>
        /\ Reads(Attributes[k], e.mode) /\ ~Sends(Attributes[k], e.mode) => Disagree
        /\ ~Reads(Attributes[k], e.mode) /\ Sends(Attributes[k], e.mode) => Disagree /\ upload
  <2>1. PICK d \in BOOLEAN, s \in BOOLEAN : d = opts.devices /\ s = opts.specials
    <3>1. opts.devices \in BOOLEAN /\ opts.specials \in BOOLEAN
      BY <1>1
    <3> QED BY <3>1, Zenon
  <2>2. IsSpecial(e.mode) /\ ~(s <=> d) /\ upload => Disagree
    <3>1. ~(s <=> d) => opts.specials # opts.devices
      BY <2>1
    <3> QED BY <1>6, <3>1
  <2>3. (opts.devices <=> d) /\ (opts.specials <=> s)
    BY <2>1
  <2>4. CASE upload
    BY <1>4, <2>2, <2>3, <2>4
  <2>5. CASE ~upload
    BY <1>4, <2>5
  <2> QED BY <2>4, <2>5
<1>8. k = 8 => /\ Reads(Attributes[k], e.mode) => Sends(Attributes[k], e.mode)
               /\ ~Reads(Attributes[k], e.mode) /\ Sends(Attributes[k], e.mode) => Disagree /\ upload
  BY <1>5, <1>6
<1>9. k = 1 \/ k = 2 \/ k = 3 \/ k = 4 \/ k = 5 \/ k = 6 \/ k = 7 \/ k = 8
  OBVIOUS
<1>10. CASE k = 1 \/ k = 2 \/ k = 3
  BY <1>2, <1>10
<1>11. CASE k = 4 \/ k = 5 \/ k = 7
  <2>1. ~(k <= 3)
    BY <1>11
  <2>2. Sends(Attributes[k], e.mode) <=> Reads(Attributes[k], e.mode)
    BY <1>3, <1>11, Zenon
  <2> QED BY <2>1, <2>2
<1>12. CASE k = 6
  <2>1. ~(k <= 3)
    BY <1>12
  <2> QED BY <1>7, <1>12, <2>1
<1>13. CASE k = 8
  <2>1. ~(k <= 3)
    BY <1>13
  <2> QED BY <1>8, <1>13, <2>1
<1> QED BY <1>9, <1>10, <1>11, <1>12, <1>13

(* What the tag says of one attribute.                                     *)
LEMMA TagSays ==
  ASSUME NEW i, NEW t, NEW r, NEW a, NEW rest, Facing(i, t, r, a, rest), NEW k \in 1 .. 8
  PROVE  /\ Attributes[k] \in t.has <=> Sends(Attributes[k], encoded[i].mode)
         /\ Attributes[k] \in t.F => /\ Attributes[k] \in t.has /\ i > 1 /\ i - 1 \in 1 .. Len(encoded)
                                     /\ k \in 2 .. 6
                                     /\ Known(encoded[i - 1])[Attributes[k]] = encoded[i][Attributes[k]]
         /\ Attributes[k] \in t.missing => Disagree /\ k \in {7, 8}
<1>1. Fits(i, t) /\ t \in Tag /\ i \in 1 .. Len(encoded)
  BY DEF Facing
<1>2. Attributes[k] \in t.has <=> Sends(Attributes[k], encoded[i].mode)
  BY <1>1 DEF Fits
<1>3. k = 1 \/ k = 2 \/ k = 3 \/ k = 4 \/ k = 5 \/ k = 6 \/ k = 7 \/ k = 8
  OBVIOUS
<1>4. Attributes[k] \in t.missing => Disagree /\ k \in {7, 8}
  <2>1. Attributes[k] \in {"link", "sum"} => k \in {7, 8}
    BY <1>3, AttributeNames
  <2>2. t.missing \subseteq {"link", "sum"} /\ (t.missing # {} => abandoned # {})
    BY <1>1 DEF Tag, Fits
  <2> QED BY <2>1, <2>2 DEF Disagree
<1>5. ASSUME Attributes[k] \in t.F
      PROVE  /\ Attributes[k] \in t.has /\ i > 1 /\ i - 1 \in 1 .. Len(encoded) /\ k \in 2 .. 6
             /\ Known(encoded[i - 1])[Attributes[k]] = encoded[i][Attributes[k]]
  <2>1. Attributes[k] \in Inherited /\ k \in 2 .. 6
    <3>1. Attributes[k] \in Flag
      BY <1>1, <1>5 DEF Tag
    <3>2. Attributes[k] \in Flag => k # 1 /\ k # 7 /\ k # 8
      BY AttributeNames DEF Flag
    <3>3. k = 2 \/ k = 3 \/ k = 4 \/ k = 5 \/ k = 6
      BY <1>3, <3>1, <3>2
    <3>4. Attributes[k] \in Inherited
      BY <3>3, AttributeNames DEF Inherited
    <3> QED BY <3>3, <3>4
  <2>2. i > 1 /\ Shares(t, encoded[i], encoded[i - 1])
    BY <1>1, <1>5, <2>1 DEF Fits
  <2>3. Attributes[k] \in t.has
    BY <1>1, <1>5, <2>1 DEF Fits
  <2>4. Known(encoded[i - 1])[Attributes[k]] = encoded[i][Attributes[k]]
    BY <1>5, <2>1, <2>2 DEF Shares
  <2>5. i - 1 \in 1 .. Len(encoded)
    <3>4. Len(encoded) \in Nat
      BY DEF Facing
    <3>5. i \in Nat /\ i <= Len(encoded)
      BY <1>1, <3>4
    <3>1. PICK j \in Nat, n \in Nat : j = i /\ n = Len(encoded) /\ j <= n
      BY <3>4, <3>5, Zenon
    <3>2. j > 1
      BY <2>2, <3>1
    <3>3. j - 1 \in 1 .. n
      BY <3>1, <3>2
    <3> QED BY <3>1, <3>3
  <2> QED BY <2>1, <2>2, <2>3, <2>4, <2>5
<1> QED BY <1>2, <1>4, <1>5

(* Entries are the same when they have the same name and attributes.       *)
LEMMA SameInfo ==
  ASSUME NEW x \in Info, NEW y \in Info, x.name = y.name,
         \A k \in 1 .. 8 : x[Attributes[k]] = y[Attributes[k]]
  PROVE  x = y
<1>1. /\ 1 \in 1 .. 8 /\ 2 \in 1 .. 8 /\ 3 \in 1 .. 8 /\ 4 \in 1 .. 8 /\ 5 \in 1 .. 8
      /\ 6 \in 1 .. 8 /\ 7 \in 1 .. 8 /\ 8 \in 1 .. 8
  OBVIOUS
<1>2. /\ x.length = y.length /\ x.time = y.time /\ x.mode = y.mode /\ x.uid = y.uid
      /\ x.gid = y.gid /\ x.rdev = y.rdev /\ x.link = y.link /\ x.sum = y.sum
  BY <1>1, AttributeNames
<1>3. \A z \in Info : z = [name |-> z.name, length |-> z.length, time |-> z.time, mode |-> z.mode,
                          uid |-> z.uid, gid |-> z.gid, rdev |-> z.rdev, link |-> z.link, sum |-> z.sum]
  BY DEF Info
<1> QED BY <1>2, <1>3

(* An attribute of another entry keeps the types of an entry.              *)
LEMMA Mixes ==
  ASSUME NEW x \in Received, NEW y \in Info, y.time \in -TimeLimit .. TimeLimit - 1, NEW k \in 1 .. 8
  PROVE  [x EXCEPT ![Attributes[k]] = y[Attributes[k]]] \in Received
<1>1. k = 1 \/ k = 2 \/ k = 3 \/ k = 4 \/ k = 5 \/ k = 6 \/ k = 7 \/ k = 8
  OBVIOUS
<1>2. x \in Info /\ x.time \in -TimeLimit .. TimeLimit - 1 /\ Len(x.name) < PathMax
  BY DEF Received
<1>3. \A s \in {"length", "mode", "uid", "gid", "rdev", "link", "sum"} :
        /\ [x EXCEPT ![s] = y[s]] \in Info
        /\ [x EXCEPT ![s] = y[s]].time = x.time /\ [x EXCEPT ![s] = y[s]].name = x.name
  BY <1>2 DEF Info
<1>4. /\ [x EXCEPT !["time"] = y["time"]] \in Info
      /\ [x EXCEPT !["time"] = y["time"]].time = y.time /\ [x EXCEPT !["time"] = y["time"]].name = x.name
  BY <1>2 DEF Info
<1>5. \A s \in {"length", "mode", "uid", "gid", "rdev", "link", "sum"} : [x EXCEPT ![s] = y[s]] \in Received
  BY <1>2, <1>3 DEF Received
<1>6. [x EXCEPT !["time"] = y["time"]] \in Received
  BY <1>2, <1>4 DEF Received
<1>7. Attributes[k] \in {"length", "mode", "uid", "gid", "rdev", "link", "sum"} \/ Attributes[k] = "time"
  BY <1>1, AttributeNames
<1> QED BY <1>5, <1>6, <1>7

(* What an entry is decoded to is an entry.                                *)
LEMMA DecodedIsInfo ==
  ASSUME NEW e \in Info
  PROVE  Decoded(e) \in Info
<1>1. Clean(e.name) \in Seq(Nat) /\ Int32(e.time) \in Int
  <2>1. e.name \in Seq(Nat) /\ e.time \in Int
    BY DEF Info
  <2>2. Int32(e.time) \in -TimeLimit .. TimeLimit - 1
    BY <2>1, Int32Fits
  <2> QED BY <2>1, <2>2, CleanIs, ConstantsAre
<1>2. <<>> \in Seq(Nat)
  OBVIOUS
<1>3. Known(e) \in Info
  BY <1>2 DEF Known, Info
<1>4. Known(e).name = e.name /\ Known(e).time = e.time
  BY DEF Known, Info
<1> QED BY <1>1, <1>3, <1>4 DEF Decoded, Info

(* One attribute is read, or left as it is, or is that of the entry before.*)
LEMMA Advances ==
  ASSUME DecoderTypes, NEW i, NEW t, NEW r, NEW a, NEW rest, Facing(i, t, r, a, rest),
         Before(i), NEW k \in 1 .. 8, Partial(i, k), flags = t.F,
         NEW v, f' = [f EXCEPT ![Attributes[k]] = v], f' \in Received,
         in' = a[k + 1], k = 3 => v = encoded[i].mode,
         Right => v = Decoded(encoded[i])[Attributes[k]],
         k < 8 => at' = Attributes[k + 1] /\ UNCHANGED <<last, fileList>>,
         k = 8 => at' = "flags" /\ last' = f' /\ fileList' = Append(fileList, f'),
         UNCHANGED <<sending, flags, l1, l2, ioErrors>>
  PROVE  /\ DecoderTypes'
         /\ \/ Reading(i, t, r, a)'
            \/ at' = "flags" /\ in' = rest /\ Before(i + 1)'
<1>1. PICK e \in Info : e = encoded[i] /\ e \in ToSet(encoded)
  BY FacingIs
<1>2. encoded' = encoded /\ Right' = Right /\ \A x : Decoded(x)' = Decoded(x)
  BY SendingStays
<1>3. f \in Info /\ f' \in Info
  BY DEF DecoderTypes, Received
<1>4. /\ \A j \in 1 .. 8 : f'[Attributes[j]] = IF j = k THEN v ELSE f[Attributes[j]]
      /\ f'.name = f.name
  <2>1. \A j \in 1 .. 8 : Attributes[j] \in DOMAIN f
    <3>1. \A j \in 1 .. 8 : j = 1 \/ j = 2 \/ j = 3 \/ j = 4 \/ j = 5 \/ j = 6 \/ j = 7 \/ j = 8
      OBVIOUS
    <3>2. DOMAIN f = {"name", "length", "time", "mode", "uid", "gid", "rdev", "link", "sum"}
      BY <1>3 DEF Info
    <3> QED BY <3>1, <3>2, AttributeNames
  <2>2. "name" \in DOMAIN f /\ Attributes[k] # "name"
    <3>1. "name" \in DOMAIN f
      BY <1>3 DEF Info
    <3>2. k = 1 \/ k = 2 \/ k = 3 \/ k = 4 \/ k = 5 \/ k = 6 \/ k = 7 \/ k = 8
      OBVIOUS
    <3>3. Attributes[k] # "name"
      BY <3>2, AttributeNames
    <3> QED BY <3>1, <3>3
  <2>3. \A s \in DOMAIN f : f'[s] = IF s = Attributes[k] THEN v ELSE f[s]
    OBVIOUS
  <2> QED BY <2>1, <2>2, <2>3, AttributesDiffer
<1>5. k + 1 > 3 => f'.mode = e.mode
  <2>1. 3 \in 1 .. 8 /\ Attributes[3] = "mode"
    BY AttributeNames
  <2>2. f'.mode = IF 3 = k THEN v ELSE f.mode
    BY <1>4, <2>1
  <2>3. CASE k = 3
    BY <1>1, <2>2, <2>3
  <2>4. CASE k > 3
    BY <1>1, <2>2, <2>4 DEF Partial
  <2> QED BY <2>3, <2>4
<1>6. Partial(i, k + 1)'
  <2>1. ASSUME Right
        PROVE  /\ f'.name = Clean(e.name)
               /\ \A j \in 1 .. 8 : f'[Attributes[j]]
                    = IF j < k + 1 THEN Decoded(e)[Attributes[j]] ELSE Blank[Attributes[j]]
    <3>1. f.name = Clean(e.name)
      BY <1>1, <2>1 DEF Partial
    <3>2. ASSUME NEW j \in 1 .. 8
          PROVE  f'[Attributes[j]] = IF j < k + 1 THEN Decoded(e)[Attributes[j]] ELSE Blank[Attributes[j]]
      <4>1. f[Attributes[j]] = IF j < k THEN Decoded(e)[Attributes[j]] ELSE Blank[Attributes[j]]
        BY <1>1, <2>1 DEF Partial
      <4>2. f'[Attributes[j]] = IF j = k THEN v ELSE f[Attributes[j]]
        BY <1>4
      <4>3. CASE j = k
        <5>1. j < k + 1
          BY <4>3
        <5> QED BY <1>1, <2>1, <4>2, <4>3, <5>1
      <4>4. CASE j < k
        <5>1. j < k + 1 /\ j # k
          BY <4>4
        <5> QED BY <4>1, <4>2, <4>4, <5>1
      <4>5. CASE j > k
        <5>1. ~(j < k + 1) /\ j # k /\ ~(j < k)
          BY <4>5
        <5> QED BY <4>1, <4>2, <5>1
      <4>6. j = k \/ j < k \/ j > k
        OBVIOUS
      <4> QED BY <4>3, <4>4, <4>5, <4>6
    <3> QED BY <1>4, <3>1, <3>2
  <2> QED BY <1>1, <1>2, <1>5, <2>1 DEF Partial
<1>7. CASE k < 8
  <2>1. k + 1 \in 1 .. 8 /\ at' = Attributes[k + 1]
    BY <1>7
  <2>2. InAttribute(i, t, a)'
    BY <1>6, <2>1 DEF InAttribute
  <2>3. Before(i)'
    BY <1>7, BeforeStays
  <2>4. DecoderTypes'
    <3>1. at' \in ToSet(Attributes)
      BY <2>1, AttributesDiffer
    <3> QED BY <1>7, <3>1 DEF DecoderTypes
  <2> QED BY <2>2, <2>3, <2>4 DEF Reading
<1>8. CASE k = 8
  <2>1. in' = rest
    <3>1. a[9] = rest
      BY DEF Facing, EntryAt
    <3> QED BY <1>8, <3>1
  <2>2. PICK n \in Nat : n = i
    BY DEF Facing
  <2>3. PICK s \in Seq(Received) : s = fileList /\ Len(s) = n - 1
    BY <2>2 DEF DecoderTypes, Before
  <2>4. fileList' \in Seq(Received) /\ Len(fileList') = n
    BY <1>8, <2>3
  <2>5. \A j \in 1 .. n - 1 : fileList'[j] = fileList[j]
    BY <1>8, <2>3
  <2>6. fileList'[n] = f'
    BY <1>8, <2>2, <2>3
  <2>7. last' = f' /\ f'.mode = e.mode
    BY <1>5, <1>8
  <2>8. ASSUME Right PROVE f' = Decoded(e)
    <3>1. Decoded(e) \in Info /\ Decoded(e).name = Clean(e.name)
      BY DecodedIs, DecodedIsInfo
    <3>2. f'.name = Clean(e.name)
      BY <1>1, <1>2, <1>6, <2>8 DEF Partial
    <3>3. \A j \in 1 .. 8 : f'[Attributes[j]] = Decoded(e)[Attributes[j]]
      <4>1. \A j \in 1 .. 8 : f'[Attributes[j]]
              = IF j < k + 1 THEN Decoded(e)[Attributes[j]] ELSE Blank[Attributes[j]]
        BY <1>1, <1>2, <1>6, <2>8 DEF Partial
      <4>2. \A j \in 1 .. 8 : j < k + 1
        BY <1>8
      <4> QED BY <4>1, <4>2
    <3>4. PICK y \in Info : y = Decoded(e)
      BY <3>1
    <3> QED BY <1>3, <3>1, <3>2, <3>3, <3>4, SameInfo
  <2>9. Before(i + 1)'
    <3>1. Len(fileList') = (n + 1) - 1 /\ (n + 1) - 1 = n
      BY <2>4
    <3>2. last'.mode = encoded[n].mode
      BY <1>1, <2>2, <2>7
    <3>3. ASSUME Right, NEW j \in 1 .. n PROVE fileList'[j] = Decoded(encoded[j])
      <4>1. CASE j = n
        BY <1>1, <2>2, <2>6, <2>8, <3>3, <4>1
      <4>2. CASE j # n
        <5>1. j \in 1 .. n - 1
          BY <4>2
        <5>2. fileList[j] = Decoded(encoded[j])
          BY <2>2, <3>3, <5>1 DEF Before
        <5> QED BY <2>5, <5>1, <5>2
      <4> QED BY <4>1, <4>2
    <3>4. ASSUME Right PROVE last' = Decoded(encoded[n])
      BY <1>1, <2>2, <2>7, <2>8, <3>4
    <3> QED BY <1>2, <2>2, <3>1, <3>2, <3>3, <3>4 DEF Before
  <2>10. DecoderTypes'
    BY <1>8, <2>4, <2>7 DEF DecoderTypes
  <2> QED BY <1>8, <2>1, <2>9, <2>10
<1> QED BY <1>7, <1>8

(* The value that an attribute gets when it is right.                      *)
LEMMA RightValues ==
  ASSUME NEW e \in Info, NEW k \in 1 .. 8
  PROVE  /\ ~Sends(Attributes[k], e.mode) /\ k > 3 => Decoded(e)[Attributes[k]] = Blank[Attributes[k]]
         /\ Sends(Attributes[k], e.mode) => Decoded(e)[Attributes[k]] = OnWire(e)[Attributes[k]]
<1>1. k = 1 \/ k = 2 \/ k = 3 \/ k = 4 \/ k = 5 \/ k = 6 \/ k = 7 \/ k = 8
  OBVIOUS
<1>2. /\ OnWire(e).time = Int32(e.time)
      /\ \A s \in {"name", "length", "mode", "uid", "gid", "rdev", "link", "sum"} : OnWire(e)[s] = e[s]
  BY OnWireIs
<1>3. /\ OnWire(e).length = e.length /\ OnWire(e).mode = e.mode /\ OnWire(e).uid = e.uid
      /\ OnWire(e).gid = e.gid /\ OnWire(e).rdev = e.rdev /\ OnWire(e).link = e.link
      /\ OnWire(e).sum = e.sum
  BY <1>2
<1>4. e.sum = 0
  BY DEF Info
<1>5. /\ Blank.uid = 0 /\ Blank.gid = 0 /\ Blank.rdev = 0 /\ Blank.link = <<>> /\ Blank.sum = 0
  BY DEF Blank
<1>6. CASE k = 1 \/ k = 2 \/ k = 3
  BY <1>2, <1>3, <1>6, DecodedIs, AttributeNames
<1>7. CASE k = 4
  BY <1>3, <1>5, <1>7, DecodedIs, AttributeNames
<1>8. CASE k = 5
  BY <1>3, <1>5, <1>8, DecodedIs, AttributeNames
<1>9. CASE k = 6
  BY <1>3, <1>5, <1>9, DecodedIs, AttributeNames
<1>10. CASE k = 7
  BY <1>3, <1>5, <1>10, DecodedIs, AttributeNames
<1>11. CASE k = 8
  BY <1>3, <1>4, <1>5, <1>11, DecodedIs, AttributeNames
<1> QED BY <1>1, <1>6, <1>7, <1>8, <1>9, <1>10, <1>11

(* What is the same in two entries is decoded to the same.                 *)
LEMMA InheritsRight ==
  ASSUME NEW e \in Info, NEW b \in Info, NEW k \in 2 .. 6, Sends(Attributes[k], e.mode),
         Known(b)[Attributes[k]] = e[Attributes[k]]
  PROVE  /\ Decoded(b)[Attributes[k]] = Decoded(e)[Attributes[k]]
         /\ k = 3 => b.mode = e.mode
<1>1. k = 2 \/ k = 3 \/ k = 4 \/ k = 5 \/ k = 6
  OBVIOUS
<1>2. /\ Known(b).time = b.time /\ Known(b).mode = b.mode
      /\ Known(b).uid = (IF Sends("uid", b.mode) THEN b.uid ELSE 0)
      /\ Known(b).gid = (IF Sends("gid", b.mode) THEN b.gid ELSE 0)
      /\ Known(b).rdev = (IF Sends("rdev", b.mode) THEN b.rdev ELSE 0)
  BY DEF Known, Info
<1>3. CASE k = 2
  BY <1>2, <1>3, DecodedIs, AttributeNames
<1>4. CASE k = 3
  BY <1>2, <1>4, DecodedIs, AttributeNames
<1>5. CASE k = 4
  BY <1>2, <1>5, DecodedIs, AttributeNames
<1>6. CASE k = 5
  BY <1>2, <1>6, DecodedIs, AttributeNames
<1>7. CASE k = 6
  BY <1>2, <1>7, DecodedIs, AttributeNames
<1> QED BY <1>1, <1>3, <1>4, <1>5, <1>6, <1>7

(* How the field of an attribute stands to what is next in the stream.     *)
LEMMA AttributeFaces ==
  ASSUME NEW i, NEW t, NEW r, NEW a, NEW rest, Facing(i, t, r, a, rest), NEW k \in 1 .. 8,
         NEW e \in Info, e = encoded[i], e \in ToSet(encoded)
  PROVE  /\ a[k] # <<>>
         /\ Attributes[k] \in t.has \ (t.F \cup t.missing) =>
              /\ Tail(a[k]) = a[k + 1] /\ Head(a[k]).w = Width(Attributes[k])
              /\ Head(a[k]).v = OnWire(e)[Attributes[k]]
         /\ Attributes[k] \notin t.has \ (t.F \cup t.missing) => a[k] = a[k + 1]
         /\ Attributes[k] \notin t.has \ (t.F \cup t.missing) /\ Attributes[k] \notin t.F
              /\ Reads(Attributes[k], e.mode) => Disagree /\ Head(a[k]).w # Width(Attributes[k])
<1>1. /\ e \in Info /\ t \in Tag /\ a \in [1 .. 9 -> Seq(WireField)] /\ EntryAt(e, t, r, a, rest)
      /\ rest # <<>> /\ Head(rest).w = "byte"
  BY DEF Facing
<1>2. \A j \in 1 .. 8 :
        /\ Attributes[j] \in t.has \ (t.F \cup t.missing) =>
             /\ a[j] # <<>> /\ Tail(a[j]) = a[j + 1]
             /\ Head(a[j]).w = Width(Attributes[j]) /\ Head(a[j]).v = OnWire(e)[Attributes[j]]
        /\ Attributes[j] \notin t.has \ (t.F \cup t.missing) => a[j] = a[j + 1]
  BY ONLY <1>1, AttributeReads, Zenon
<1>3. /\ \A j \in 1 .. 9 : a[j] # <<>>
      /\ Head(a[7]).w \in {"string", "md4", "byte"}
      /\ Head(a[8]).w \in {"md4", "byte"} /\ Head(a[9]).w = "byte"
  BY ONLY <1>1, NextWidth, Zenon
<1>4. a[k] # <<>>
  BY <1>3
<1>5. ASSUME Attributes[k] \notin t.has \ (t.F \cup t.missing), Attributes[k] \notin t.F,
             Reads(Attributes[k], e.mode)
      PROVE  Disagree /\ Head(a[k]).w # Width(Attributes[k])
  <2>1. a[k] = a[k + 1]
    BY <1>2, <1>5
  <2>2. Attributes[k] \notin t.has \/ Attributes[k] \in t.missing
    BY <1>5
  <2>3. CASE Attributes[k] \notin t.has
    <3>1. ~Sends(Attributes[k], e.mode)
      BY <2>3, TagSays
    <3>2. Disagree /\ k = 6
      BY <1>5, <3>1, ReadsAndSends DEF Facing
    <3> QED BY <1>3, <2>1, <3>2, AttributeNames, Widths
  <2>4. CASE Attributes[k] \in t.missing
    <3>1. Disagree /\ k \in {7, 8}
      BY <2>4, TagSays
    <3>2. CASE k = 7
      BY <1>3, <2>1, <3>1, <3>2, AttributeNames, Widths
    <3>3. CASE k = 8
      BY <1>3, <2>1, <3>1, <3>3, AttributeNames, Widths
    <3> QED BY <3>1, <3>2, <3>3
  <2> QED BY <2>2, <2>3, <2>4
<1> QED BY <1>2, <1>4, <1>5

(* An attribute is skipped, inherited or read; only a disagreement loses   *)
(* the place.                                                              *)
LEMMA AttributeRead ==
  ASSUME DecoderTypes, NEW i, NEW t, NEW r, NEW a, NEW rest, Facing(i, t, r, a, rest),
         Before(i), InAttribute(i, t, a), Receive
  PROVE  /\ DecoderTypes' /\ UNCHANGED sending
         /\ \/ Reading(i, t, r, a)'
            \/ at' = "flags" /\ in' = rest /\ Before(i + 1)'
            \/ Doomed'
            \/ at' = "lost" /\ Disagree'
<1>1. PICK e \in Info : e = encoded[i] /\ e \in ToSet(encoded)
  BY FacingIs
<1>2. PICK k \in 1 .. 8 : at = Attributes[k] /\ in = a[k] /\ Partial(i, k) /\ flags = t.F
  BY DEF InAttribute
<1>3. PICK s : s = Attributes[k]
  OBVIOUS
<1>4. Reads(s, f.mode) <=> Reads(s, e.mode)
  <2>1. CASE k <= 3
    <3>1. \A m : Reads(s, m)
      BY <1>1, <1>3, <2>1, ReadsAndSends DEF Facing
    <3> QED BY <3>1
  <2>2. CASE k > 3
    <3>1. f.mode = e.mode
      BY <1>1, <1>2, <2>2 DEF Partial
    <3> QED BY <3>1
  <2>3. k <= 3 \/ k > 3
    OBVIOUS
  <2> QED BY <2>1, <2>2, <2>3
<1>5. /\ in # <<>>
      /\ s \in t.has \ (t.F \cup t.missing) =>
           /\ Tail(in) = a[k + 1] /\ Head(in).w = Width(s) /\ Head(in).v = OnWire(e)[s]
      /\ s \notin t.has \ (t.F \cup t.missing) => in = a[k + 1]
      /\ s \notin t.has \ (t.F \cup t.missing) /\ s \notin t.F /\ Reads(s, e.mode) =>
           Disagree /\ Head(in).w # Width(s)
  BY <1>1, <1>2, <1>3, AttributeFaces
<1>6. at \notin {"flags", "shared", "size", "name", "users", "user name", "groups", "group name", "ioErrors"}
  BY <1>2, AttributesDiffer
<1>7. Expected = IF Reads(s, f.mode) /\ s \notin flags THEN Width(s) ELSE ""
  <2>1. \A j \in 1 .. 8 : at = Attributes[j] =>
          Expected = IF Reads(at, f.mode) /\ at \notin flags THEN Width(at) ELSE ""
    BY ExpectedIs
  <2> QED BY <1>2, <1>3, <2>1
<1>8. ReadAttribute \/ LosesStep
  BY <1>5, <1>6
     DEF Receive, ReadFlags, ReadShared, ReadSize, ReadName, ReadIds, ReadIdName, ReadIoErrors, ReadFails
<1>9. CASE LosesStep
  <2>1. Expected # "" /\ Head(in).w # Expected
    BY <1>6, <1>9 DEF LosesStep
  <2>2. Reads(s, e.mode) /\ s \notin t.F /\ Head(in).w # Width(s)
    BY <1>2, <1>4, <1>7, <2>1
  <2>3. Disagree
    BY <1>5, <2>2
  <2>4. at' = "lost" /\ UNCHANGED <<sending, in, flags, l1, l2, f, last, fileList, ioErrors>>
    BY <1>9 DEF LosesStep
  <2>5. Disagree'
    BY <2>3, <2>4, SendingStays
  <2>6. DecoderTypes'
    BY <2>4 DEF DecoderTypes, Over
  <2> QED BY <2>4, <2>5, <2>6
<1>10. CASE ReadAttribute
  <2>1. /\ \/ ~Reads(s, f.mode) /\ UNCHANGED <<in, f>>
           \/ Reads(s, f.mode) /\ s \in flags /\ f' = [f EXCEPT ![s] = last[s]] /\ UNCHANGED in
           \/ Reads(s, f.mode) /\ s \notin flags /\ Take(Width(s)) /\ f' = [f EXCEPT ![s] = Value]
        /\ k < 8 => at' = Attributes[k + 1] /\ UNCHANGED <<last, fileList>>
        /\ k = 8 => at' = "flags" /\ last' = f' /\ fileList' = Append(fileList, f')
        /\ UNCHANGED <<sending, flags, l1, l2, ioErrors>>
    BY <1>2, <1>3, <1>10, AttributeStep
  <2>2. f \in Received /\ f \in Info /\ f.time \in -TimeLimit .. TimeLimit - 1
        /\ last \in Info /\ last.time \in -TimeLimit .. TimeLimit - 1
    BY DEF DecoderTypes, Received
  <2>3. ASSUME NEW v, f' = [f EXCEPT ![s] = v], f' \in Received, in' = a[k + 1], k = 3 => v = e.mode,
               Right => v = Decoded(e)[s]
        PROVE  DecoderTypes' /\ (Reading(i, t, r, a)' \/ (at' = "flags" /\ in' = rest /\ Before(i + 1)'))
    <3>1. k = 3 => v = encoded[i].mode
      BY <1>1, <2>3
    <3>2. Right => v = Decoded(encoded[i])[Attributes[k]]
      BY <1>1, <1>3, <2>3
    <3>3. f' = [f EXCEPT ![Attributes[k]] = v]
      BY <1>3, <2>3
    <3> QED BY <1>2, <2>1, <2>3, <3>1, <3>2, <3>3, Advances
  <2>4. CASE ~Reads(s, f.mode) /\ UNCHANGED <<in, f>>
    <3>1. CASE s \in t.has \ (t.F \cup t.missing)
      <4>1. Sends(s, e.mode)
        BY <1>1, <1>3, <3>1, TagSays
      <4>2. Disagree /\ upload /\ k \in {6, 8}
        BY <1>1, <1>3, <1>4, <2>4, <4>1, ReadsAndSends DEF Facing
      <4>3. Head(in).w \in {"int", "md4"}
        BY <1>3, <1>5, <3>1, <4>2, AttributeNames, Widths
      <4>4. at' \in {"link", "flags"}
        <5>1. CASE k = 6
          <6>1. k < 8 /\ k + 1 = 7
            BY <5>1
          <6> QED BY <2>1, <6>1, AttributeNames
        <5>2. CASE k = 8
          BY <2>1, <5>2
        <5> QED BY <4>2, <5>1, <5>2
      <4>5. Doomed'
        BY <1>5, <2>1, <2>4, <4>2, <4>3, <4>4, SendingStays DEF Doomed
      <4>6. DecoderTypes'
        <5>1. at' \in {"flags"} \cup ToSet(Attributes)
          <6>1. "link" = Attributes[7] /\ 7 \in 1 .. 8
            BY AttributeNames
          <6>2. "link" \in ToSet(Attributes)
            BY <6>1, AttributesDiffer
          <6> QED BY <4>4, <6>2
        <5>2. CASE k < 8
          BY <2>1, <2>4, <5>1, <5>2 DEF DecoderTypes
        <5>3. CASE k = 8
          <6>1. f' \in Received /\ last' \in Received
            BY <2>1, <2>2, <2>4, <5>3
          <6>2. fileList' \in Seq(Received)
            <7>1. fileList \in Seq(Received) /\ fileList' = Append(fileList, f')
              BY <2>1, <5>3 DEF DecoderTypes
            <7> QED BY <6>1, <7>1
          <6> QED BY <2>1, <5>1, <6>1, <6>2 DEF DecoderTypes
        <5> QED BY <5>2, <5>3
      <4> QED BY <2>1, <4>5, <4>6
    <3>2. CASE s \notin t.has \ (t.F \cup t.missing)
      <4>1. in' = a[k + 1]
        BY <1>5, <2>4, <3>2
      <4>2. f' = [f EXCEPT ![s] = f[s]]
        BY <2>2, <2>4 DEF Info
      <4>3. k > 3
        <5>1. k <= 3 => \A m : Reads(Attributes[k], m)
          BY <1>1, ReadsAndSends DEF Facing
        <5>2. ~(k <= 3)
          BY <1>3, <2>4, <5>1
        <5> QED BY <5>2
      <4>4. ASSUME Right PROVE f[s] = Decoded(e)[s]
        <5>1. ~Sends(s, e.mode)
          BY <1>1, <1>3, <1>4, <2>4, <4>4, ReadsAndSends DEF Facing, Right
        <5>2. f[s] = Blank[s]
          <6>1. f[Attributes[k]] = IF k < k THEN Decoded(encoded[i])[Attributes[k]] ELSE Blank[Attributes[k]]
            BY <1>2, <4>4 DEF Partial
          <6> QED BY <1>3, <6>1
        <5> QED BY <1>3, <4>3, <5>1, <5>2, RightValues
      <4>5. k # 3 /\ f' \in Received
        BY <2>2, <2>4, <4>3
      <4> QED BY <2>1, <2>3, <4>1, <4>2, <4>4, <4>5
    <3> QED BY <3>1, <3>2
  <2>5. CASE Reads(s, f.mode) /\ s \in flags /\ f' = [f EXCEPT ![s] = last[s]] /\ UNCHANGED in
    <3>1. s \in t.F
      BY <1>2, <2>5
    <3>2. /\ s \in t.has /\ i > 1 /\ i - 1 \in 1 .. Len(encoded) /\ k \in 2 .. 6
          /\ Known(encoded[i - 1])[s] = e[s] /\ Sends(s, e.mode)
      BY <1>1, <1>3, <3>1, TagSays
    <3>3. PICK b \in Info : b = encoded[i - 1]
      <4>1. encoded \in Seq(Info)
        BY DEF Facing
      <4>2. encoded[i - 1] \in Info
        BY <3>2, <4>1, ElementOfSeq
      <4> QED BY <4>2
    <3>4. Decoded(b)[s] = Decoded(e)[s] /\ (k = 3 => b.mode = e.mode)
      BY <1>3, <3>2, <3>3, InheritsRight
    <3>5. last.mode = b.mode /\ (Right => last = Decoded(b))
      BY <3>2, <3>3 DEF Before
    <3>6. k = 3 => last[s] = e.mode
      BY <1>3, <3>4, <3>5, AttributeNames
    <3>7. Right => last[s] = Decoded(e)[s]
      BY <3>4, <3>5
    <3>8. f' \in Received
      BY <1>3, <2>2, <2>5, Mixes
    <3>9. in' = a[k + 1]
      BY <1>5, <2>5, <3>1
    <3> QED BY <2>1, <2>3, <2>5, <3>6, <3>7, <3>8, <3>9
  <2>6. CASE Reads(s, f.mode) /\ s \notin flags /\ Take(Width(s)) /\ f' = [f EXCEPT ![s] = Value]
    <3>1. Head(in).w = Width(s) /\ in' = Tail(in)
      BY <2>6 DEF Take
    <3>2. s \in t.has \ (t.F \cup t.missing)
      BY <1>2, <1>4, <1>5, <2>6, <3>1
    <3>3. Value = OnWire(e)[s] /\ in' = a[k + 1]
      BY <1>5, <3>1, <3>2 DEF Value
    <3>4. Sends(s, e.mode)
      BY <1>1, <1>3, <3>2, TagSays
    <3>5. Right => Value = Decoded(e)[s]
      BY <1>3, <3>3, <3>4, RightValues
    <3>6. OnWire(e) \in Info /\ OnWire(e).time \in -TimeLimit .. TimeLimit - 1 /\ OnWire(e).mode = e.mode
      BY OnWireIs
    <3>7. k = 3 => Value = e.mode
      BY <1>3, <3>3, <3>6, AttributeNames
    <3>8. f' \in Received
      BY <1>3, <2>2, <2>6, <3>3, <3>6, Mixes
    <3> QED BY <2>1, <2>3, <2>6, <3>3, <3>5, <3>7, <3>8
  <2> QED BY <2>1, <2>4, <2>5, <2>6
<1> QED BY <1>8, <1>9, <1>10

(* An attribute whose field is not what is next is not read.               *)
LEMMA Skips ==
  ASSUME DecoderTypes, NEW k \in 1 .. 8, at = Attributes[k], ReadAttribute,
         in # <<>> => Head(in).w # Width(Attributes[k])
  PROVE  /\ DecoderTypes' /\ UNCHANGED sending /\ in' = in
         /\ k < 8 => at' = Attributes[k + 1]
         /\ k = 8 => at' = "flags"
<1>1. PICK s : s = Attributes[k]
  OBVIOUS
<1>2. /\ \/ ~Reads(s, f.mode) /\ UNCHANGED <<in, f>>
         \/ Reads(s, f.mode) /\ s \in flags /\ f' = [f EXCEPT ![s] = last[s]] /\ UNCHANGED in
         \/ Reads(s, f.mode) /\ s \notin flags /\ Take(Width(s)) /\ f' = [f EXCEPT ![s] = Value]
      /\ k < 8 => at' = Attributes[k + 1] /\ UNCHANGED <<last, fileList>>
      /\ k = 8 => at' = "flags" /\ last' = f' /\ fileList' = Append(fileList, f')
      /\ UNCHANGED <<sending, flags, l1, l2, ioErrors>>
  BY <1>1, AttributeStep
<1>3. ~Take(Width(s))
  BY <1>1 DEF Take
<1>4. f \in Received /\ last \in Info /\ last.time \in -TimeLimit .. TimeLimit - 1
  BY DEF DecoderTypes, Received
<1>5. f' \in Received
  <2>1. [f EXCEPT ![s] = last[s]] \in Received
    BY <1>1, <1>4, Mixes
  <2> QED BY <1>2, <1>3, <1>4, <2>1
<1>6. at' \in {"flags"} \cup ToSet(Attributes)
  <2>1. CASE k < 8
    <3>1. k + 1 \in 1 .. 8
      BY <2>1
    <3> QED BY <1>2, <2>1, <3>1, AttributesDiffer
  <2>2. CASE k = 8
    BY <1>2, <2>2
  <2> QED BY <2>1, <2>2
<1>7. last' \in Received /\ fileList' \in Seq(Received)
  <2>1. last \in Received /\ fileList \in Seq(Received)
    BY DEF DecoderTypes
  <2>2. CASE k < 8
    BY <1>2, <2>1, <2>2
  <2>3. CASE k = 8
    <3>1. last' = f' /\ fileList' = Append(fileList, f')
      BY <1>2, <2>3
    <3> QED BY <1>5, <2>1, <3>1
  <2> QED BY <2>2, <2>3
<1>8. DecoderTypes'
  BY <1>2, <1>5, <1>6, <1>7 DEF DecoderTypes
<1> QED BY <1>2, <1>3, <1>8

(* A decoder that left a field unread finds the wrong width next, or       *)
(* skips.                                                                  *)
LEMMA DoomedRead ==
  ASSUME DecoderTypes, Doomed, Receive
  PROVE  DecoderTypes' /\ UNCHANGED sending /\ (Doomed' \/ (at' = "lost" /\ Disagree'))
<1>1. upload /\ Disagree /\ in # <<>> /\ Head(in).w \in {"int", "md4"} /\ at \in {"link", "sum", "flags"}
  BY DEF Doomed
<1>2. Attributes[7] = "link" /\ Attributes[8] = "sum" /\ 7 \in 1 .. 8 /\ 8 \in 1 .. 8
  BY AttributeNames
<1>3. ReadFlags \/ ReadAttribute \/ LosesStep
  BY <1>1 DEF Receive, ReadShared, ReadSize, ReadName, ReadIds, ReadIdName, ReadIoErrors, ReadFails
<1>4. ~ReadFlags
  BY <1>1 DEF ReadFlags, Take
<1>5. CASE LosesStep
  <2>1. at' = "lost" /\ UNCHANGED <<sending, in, flags, l1, l2, f, last, fileList, ioErrors>>
    BY <1>5 DEF LosesStep
  <2>2. Disagree'
    BY <1>1, <2>1, SendingStays
  <2>3. DecoderTypes'
    BY <2>1 DEF DecoderTypes, Over
  <2> QED BY <2>1, <2>2, <2>3
<1>6. CASE ReadAttribute
  <2>1. CASE at = "link"
    <3>1. Head(in).w # Width(Attributes[7])
      BY <1>1, <1>2, Widths
    <3>2. DecoderTypes' /\ UNCHANGED sending /\ in' = in /\ at' = Attributes[8]
      <4>1. 7 < 8 /\ 7 + 1 = 8
        OBVIOUS
      <4> QED BY <1>2, <1>6, <2>1, <3>1, <4>1, Skips
    <3> QED BY <1>1, <1>2, <3>2, SendingStays DEF Doomed
  <2>2. CASE at = "sum"
    <3>1. UNCHANGED sending /\ (Head(in).w # Width(Attributes[8]) => DecoderTypes' /\ in' = in /\ at' = "flags")
      BY <1>2, <1>6, <2>2, AttributeStep, Skips
    <3>2. CASE Head(in).w # Width(Attributes[8])
      BY <1>1, <3>1, <3>2, SendingStays DEF Doomed
    <3>3. CASE Head(in).w = Width(Attributes[8])
      <4>1. ~Reads("sum", f.mode)
        BY <1>1 DEF Reads
      <4>2. in' = in /\ f' = f /\ at' = "flags" /\ last' = f' /\ fileList' = Append(fileList, f')
            /\ UNCHANGED <<sending, flags, l1, l2, ioErrors>>
        BY <1>2, <1>6, <2>2, <4>1, AttributeStep
      <4>3. f \in Received /\ fileList \in Seq(Received)
        BY DEF DecoderTypes
      <4>4. last' \in Received /\ f' \in Received /\ fileList' \in Seq(Received)
        BY <4>2, <4>3
      <4>5. DecoderTypes'
        BY <4>2, <4>4 DEF DecoderTypes
      <4> QED BY <1>1, <4>2, <4>5, SendingStays DEF Doomed
    <3> QED BY <3>2, <3>3
  <2>3. at # "flags"
    <3>1. PICK i \in DOMAIN Attributes : at = Attributes[i]
      BY <1>6 DEF ReadAttribute
    <3> QED BY <3>1, AttributesDiffer, AttributeNames
  <2> QED BY <1>1, <2>1, <2>2, <2>3
<1> QED BY <1>3, <1>4, <1>5, <1>6

(* A decoder whose connection is cut fails at its next read.               *)
LEMMA CutRead ==
  ASSUME DecoderTypes, at \notin Over, cut, in = <<>>, Receive
  PROVE  /\ DecoderTypes' /\ UNCHANGED sending
         /\ (at' = "err" /\ cut') \/ (at' \notin Over /\ cut' /\ in' = <<>>)
<1>1. ReadFails \/ ReadAttribute
  BY DEF Receive, ReadFlags, ReadShared, ReadSize, ReadName, ReadIds, ReadIdName, ReadIoErrors,
         LosesStep, Take
<1>2. CASE ReadFails
  <2>1. at' = "err" /\ UNCHANGED <<sending, in, flags, l1, l2, f, last, fileList, ioErrors>>
    BY <1>2 DEF ReadFails
  <2>2. DecoderTypes'
    BY <2>1 DEF DecoderTypes, Over
  <2> QED BY <2>1, <2>2, SendingStays
<1>3. CASE ReadAttribute
  <2>1. PICK k \in 1 .. 8 : at = Attributes[k]
    BY <1>3, AttributeNames DEF ReadAttribute
  <2>2. /\ DecoderTypes' /\ UNCHANGED sending /\ in' = in
        /\ k < 8 => at' = Attributes[k + 1]
        /\ k = 8 => at' = "flags"
    BY <1>3, <2>1, Skips
  <2>3. at' \notin Over
    <3>1. CASE k < 8
      <4>1. k + 1 \in 1 .. 8
        BY <3>1
      <4> QED BY <2>2, <3>1, <4>1, AttributesDiffer
    <3>2. CASE k = 8
      BY <2>2, <3>2 DEF Over
    <3> QED BY <3>1, <3>2
  <2> QED BY <2>2, <2>3, SendingStays
<1> QED BY <1>1, <1>2, <1>3

(* What is in order stays in order.                                        *)
LEMMA EndRead ==
  ASSUME DecoderTypes, encoded \in Seq(Info), opts \in Options,
         NEW u \in Seq(Id), NEW g \in Seq(Id), NEW n \in Nat,
         at = "flags", in = Trailer(u, g, n), Before(Len(encoded) + 1), Receive
  PROVE  DecoderTypes' /\ UNCHANGED sending /\ Ended(n)'
<1>1. opts.uid \in BOOLEAN /\ opts.gid \in BOOLEAN
  BY ConstantsAre
<1>2. PICK z \in Seq(WireField) : z = AfterEnd(opts.uid, opts.gid, u, g, n)
  BY <1>1, TrailerIs
<1>3. in = <<EndOfList>> \o z
  BY <1>1, <1>2, TrailerIs
<1>4. in # <<>> /\ Head(in) = EndOfList /\ Tail(in) = z
  BY <1>3, IdFields, HeadTail
<1>5. Head(in).w = "byte" /\ Value = {}
  BY <1>4 DEF Value, EndOfList, Field
<1>6. ReadFlags
  <2>1. Expected = "byte"
    BY ExpectedIs
  <2>2. \A k \in 1 .. 8 : at # Attributes[k]
    BY AttributesDiffer
  <2> QED BY <1>4, <1>5, <2>1, <2>2, AttributeNames, StepsAt
          DEF ReadShared, ReadSize, ReadName, ReadAttribute, ReadIds, ReadIdName, ReadIoErrors
<1>7. /\ fileList' \in Sorted(fileList) /\ at' = AfterEntries /\ in' = z
      /\ UNCHANGED <<flags, l1, f, sending, l2, last, ioErrors>>
  BY <1>4, <1>5, <1>6 DEF ReadFlags, Take
<1>8. Trailing(opts.uid, opts.gid, at', in', n)
  BY <1>1, <1>2, <1>7, TrailingStarts DEF AfterEntries
<1>9. fileList' \in Seq(Received)
  <2>1. fileList \in Seq(Received)
    BY DEF DecoderTypes
  <2> QED BY <1>7, <2>1, SortedIs
<1>10. ASSUME Right PROVE fileList = [i \in DOMAIN encoded |-> Decoded(encoded[i])]
  <2>1. PICK N \in Nat : N = Len(encoded) /\ DOMAIN encoded = 1 .. N
    OBVIOUS
  <2>2. PICK s \in Seq(Received) : s = fileList /\ Len(s) = N
    <3>1. fileList \in Seq(Received) /\ Len(fileList) = (Len(encoded) + 1) - 1
      BY DEF DecoderTypes, Before
    <3>2. (N + 1) - 1 = N
      OBVIOUS
    <3> QED BY <2>1, <3>1, <3>2
  <2>3. \A j \in 1 .. N : s[j] = Decoded(encoded[j])
    <3>1. \A j \in 1 .. (N + 1) - 1 : fileList[j] = Decoded(encoded[j])
      BY <1>10, <2>1 DEF Before
    <3>2. (N + 1) - 1 = N
      OBVIOUS
    <3> QED BY <2>2, <3>1, <3>2
  <2>4. s = [j \in 1 .. N |-> s[j]]
    BY <2>2
  <2>5. [j \in 1 .. N |-> s[j]] = [j \in 1 .. N |-> Decoded(encoded[j])]
    BY <2>3
  <2> QED BY <2>1, <2>2, <2>4, <2>5
<1>11. Ended(n)'
  <2>1. Right' = Right /\ encoded' = encoded /\ opts' = opts /\ \A e : Decoded(e)' = Decoded(e)
    BY <1>7, SendingStays
  <2>2. [i \in DOMAIN encoded |-> Decoded(encoded[i])]' = [i \in DOMAIN encoded |-> Decoded(encoded[i])]
    BY <2>1
  <2>3. Right => fileList' \in Sorted([i \in DOMAIN encoded |-> Decoded(encoded[i])])
    BY <1>7, <1>10
  <2> QED BY <1>8, <2>1, <2>2, <2>3 DEF Ended
<1>12. DecoderTypes'
  <2>1. at' \in {"users", "groups", "ioErrors"}
    BY <1>7 DEF AfterEntries
  <2> QED BY <1>7, <1>9, <2>1 DEF DecoderTypes
<1> QED BY <1>7, <1>11, <1>12

(* The id lists and the I/O error flag are read in step.                   *)
LEMMA EndedRead ==
  ASSUME DecoderTypes, opts \in Options, NEW n \in Nat, Ended(n), Receive
  PROVE  DecoderTypes' /\ UNCHANGED sending /\ Ended(n)'
<1>1. opts.uid \in BOOLEAN /\ opts.gid \in BOOLEAN
  BY ConstantsAre
<1>2. at # "done"
  BY StepsAt DEF Over
<1>3. PICK place, r : place = at /\ r = in
  OBVIOUS
<1>5. Trailing(opts.uid, opts.gid, place, r, n)
  BY <1>2, <1>3 DEF Ended
<1>6. place \in {"users", "groups", "user name", "group name", "ioErrors"}
  BY <1>5 DEF Trailing
<1>7. /\ r # <<>> /\ Head(r).w = TrailingWidth(place)
      /\ place # "ioErrors" => Trailing(opts.uid, opts.gid, NextPlace(place, opts.gid, Head(r).v), Tail(r), n)
      /\ place = "ioErrors" => Head(r).v = n /\ Tail(r) = <<>>
  BY <1>1, <1>5, TrailingReads
<1>8. Expected = TrailingWidth(place)
  BY <1>3, <1>6, ExpectedIs
<1>9. ReadIds \/ ReadIdName \/ ReadIoErrors
  <2>1. \A k \in 1 .. 8 : at # Attributes[k]
    BY <1>3, <1>6, AttributesDiffer
  <2>2. at \notin {"flags", "shared", "size", "name"}
    BY <1>3, <1>6
  <2>3. Head(in).w = Expected /\ in # <<>>
    BY <1>3, <1>7, <1>8
  <2> QED BY <2>1, <2>2, <2>3, AttributeNames, StepsAt
          DEF ReadFlags, ReadShared, ReadSize, ReadName, ReadAttribute
<1>10. /\ UNCHANGED <<sending, flags, l1, l2, f, last, fileList>>
       /\ \/ Trailing(opts.uid, opts.gid, at', in', n) /\ ioErrors' = ioErrors
             /\ at' \in {"users", "groups", "user name", "group name", "ioErrors"}
          \/ at' = "done" /\ in' = <<>> /\ ioErrors' = n
  <2>1. CASE ReadIds
    <3>1. /\ place \in {"users", "groups"} /\ in' = Tail(r) /\ UNCHANGED ioErrors
          /\ at' = NextPlace(place, opts.gid, Head(r).v)
          /\ UNCHANGED <<sending, flags, l1, l2, f, last, fileList>>
      BY <1>3, <2>1 DEF ReadIds, Take, Value, NextPlace
    <3>2. at' \in {"users", "groups", "user name", "group name", "ioErrors"}
      BY <3>1 DEF NextPlace
    <3> QED BY <1>7, <3>1, <3>2
  <2>2. CASE ReadIdName
    <3>1. /\ place \in {"user name", "group name"} /\ in' = Tail(r) /\ UNCHANGED ioErrors
          /\ at' = NextPlace(place, opts.gid, Head(r).v)
          /\ UNCHANGED <<sending, flags, l1, l2, f, last, fileList>>
      BY <1>3, <2>2 DEF ReadIdName, Take, NextPlace
    <3>2. at' \in {"users", "groups", "user name", "group name", "ioErrors"}
      BY <3>1 DEF NextPlace
    <3> QED BY <1>7, <3>1, <3>2
  <2>3. CASE ReadIoErrors
    BY <1>3, <1>7, <2>3 DEF ReadIoErrors, Take, Value
  <2> QED BY <1>9, <2>1, <2>2, <2>3
<1>11. Ended(n)'
  <2>1. Right' = Right /\ encoded' = encoded /\ opts' = opts /\ \A e : Decoded(e)' = Decoded(e)
    BY <1>10, SendingStays
  <2>2. [i \in DOMAIN encoded |-> Decoded(encoded[i])]' = [i \in DOMAIN encoded |-> Decoded(encoded[i])]
    BY <2>1
  <2>3. Right => fileList' \in Sorted([i \in DOMAIN encoded |-> Decoded(encoded[i])])
    BY <1>10 DEF Ended
  <2> QED BY <1>10, <2>1, <2>2, <2>3 DEF Ended
<1>12. DecoderTypes'
  BY <1>10 DEF DecoderTypes, Over
<1> QED BY <1>10, <1>11, <1>12

-----------------------------------------------------------------------------
(* The whole stream.                                                       *)

(* The stream as it was sent.                                              *)
Stream(R, A, T, n) ==
  /\ Laid(R, A, T) /\ n \in Nat
  /\ \E u, g \in Seq(Id) : R[Len(encoded) + 1] = Trailer(u, g, n)
  /\ Last(fec) = Field("int", n)

(* Each entry of the stream is one that the decoder can face.              *)
LEMMA StreamFaces ==
  ASSUME encoded \in Seq(Info), opts \in Options, upload \in BOOLEAN,
         NEW R, NEW A, NEW T, NEW n, Stream(R, A, T, n), NEW i \in 1 .. Len(encoded)
  PROVE  Facing(i, T[i], R[i], A[i], R[i + 1])
<1>1. PICK N \in Nat : N = Len(encoded)
  OBVIOUS
<1>2. /\ R \in [1 .. N + 1 -> Seq(WireField)]
      /\ A \in [1 .. N -> [1 .. 9 -> Seq(WireField)]]
      /\ T \in [1 .. N -> Tag]
      /\ \A j \in 1 .. N : Fits(j, T[j]) /\ EntryAt(encoded[j], T[j], R[j], A[j], R[j + 1])
  BY <1>1 DEF Stream, Laid
<1>3. R[i + 1] # <<>> /\ Head(R[i + 1]).w = "byte"
  <2>1. CASE i = N
    <3>1. PICK u \in Seq(Id), g \in Seq(Id) : R[N + 1] = Trailer(u, g, n)
      BY <1>1 DEF Stream
    <3>2. opts.uid \in BOOLEAN /\ opts.gid \in BOOLEAN /\ n \in Nat
      BY ConstantsAre DEF Stream
    <3>3. PICK z \in Seq(WireField) : z = AfterEnd(opts.uid, opts.gid, u, g, n)
      BY <3>2, TrailerIs
    <3>4. R[N + 1] = <<EndOfList>> \o z
      BY <3>1, <3>2, <3>3, TrailerIs
    <3>5. R[N + 1] # <<>> /\ Head(R[N + 1]) = EndOfList
      BY <3>4, IdFields, HeadTail
    <3>6. EndOfList.w = "byte"
      BY DEF EndOfList, Field
    <3> QED BY <2>1, <3>5, <3>6
  <2>2. CASE i # N
    <3>1. PICK j \in 1 .. N : j = i + 1
      BY <1>1, <2>2
    <3>2. PICK e, t, a, r, rest :
            e = encoded[j] /\ t = T[j] /\ a = A[j] /\ r = R[j] /\ rest = R[j + 1]
      OBVIOUS
    <3>3. EntryAt(e, t, r, a, rest) /\ t.n <= Len(e.name)
      BY <1>2, <3>2 DEF Fits
    <3>7. e \in Info /\ t \in Tag /\ a \in [1 .. 9 -> Seq(WireField)]
      <4>1. e \in Info
        BY <1>1, <3>2
      <4>2. t \in Tag /\ a \in [1 .. 9 -> Seq(WireField)]
        BY <1>2, <3>2
      <4> QED BY <4>1, <4>2
    <3>4. r # <<>>
      BY ONLY <3>3, <3>7, TitleReads
    <3>5. Head(r) = Field("byte", t.F)
      BY ONLY <3>3, <3>7, TitleReads
    <3>6. Head(r).w = "byte"
      BY <3>5 DEF Field
    <3>8. R[i + 1] = r
      BY <3>1, <3>2
    <3> QED BY <3>4, <3>6, <3>8
  <2> QED BY <2>1, <2>2
<1> QED BY <1>1, <1>2, <1>3 DEF Facing

(* Every step of the decoder goes from one place to another.               *)
LEMMA PlaceRead ==
  ASSUME DecoderTypes, encoded \in Seq(Info), opts \in Options, upload \in BOOLEAN,
         NEW R, NEW A, NEW T, NEW n, Stream(R, A, T, n), Place(R, A, T, n), Receive
  PROVE  DecoderTypes' /\ UNCHANGED sending /\ Place(R, A, T, n)'
<1>1. at \notin Over
  BY StepsAt
<1>2. n \in Nat
  BY DEF Stream
<1>3. PICK N \in Nat : N = Len(encoded)
  OBVIOUS
<1>4. CASE at \notin Over /\ cut /\ in = <<>>
  BY <1>4, CutRead DEF Place
<1>5. CASE Doomed
  BY <1>5, DoomedRead DEF Place
<1>6. CASE Ended(n)
  BY <1>2, <1>6, EndedRead DEF Place
<1>7. CASE at = "flags" /\ in = R[Len(encoded) + 1] /\ Before(Len(encoded) + 1)
  <2>1. PICK u \in Seq(Id), g \in Seq(Id) : R[Len(encoded) + 1] = Trailer(u, g, n)
    BY DEF Stream
  <2>2. DecoderTypes' /\ UNCHANGED sending /\ Ended(n)'
    BY <1>2, <1>7, <2>1, EndRead
  <2> QED BY <2>2 DEF Place
<1>8. ASSUME NEW i \in 1 .. Len(encoded), Reading(i, T[i], R[i], A[i])
      PROVE  DecoderTypes' /\ UNCHANGED sending /\ Place(R, A, T, n)'
  <2>1. PICK t, r, a, rest : t = T[i] /\ r = R[i] /\ a = A[i] /\ rest = R[i + 1]
    OBVIOUS
  <2>2. Facing(i, t, r, a, rest)
    BY <2>1, StreamFaces
  <2>3. Before(i) /\ ((at = "flags" /\ in = r) \/ InTitle(i, t, r, a) \/ InAttribute(i, t, a))
    BY <1>8, <2>1 DEF Reading
  <2>4. /\ DecoderTypes' /\ UNCHANGED sending
        /\ \/ Reading(i, t, r, a)'
           \/ at' = "err" /\ LongName'
           \/ at' = "flags" /\ in' = rest /\ Before(i + 1)'
           \/ Doomed'
           \/ at' = "lost" /\ Disagree'
    <3>1. CASE at = "flags" /\ in = r
      BY <2>2, <2>3, <3>1, FlagsRead
    <3>2. CASE InTitle(i, t, r, a)
      <4>1. at = "shared" \/ at = "size" \/ at = "name"
        BY <3>2 DEF InTitle
      <4>2. CASE at = "shared"
        BY <2>2, <2>3, <3>2, <4>2, SharedRead
      <4>3. CASE at = "size"
        BY <2>2, <2>3, <3>2, <4>3, SizeRead
      <4>4. CASE at = "name"
        BY <2>2, <2>3, <3>2, <4>4, NameRead
      <4> QED BY <4>1, <4>2, <4>3, <4>4
    <3>3. CASE InAttribute(i, t, a)
      BY <2>2, <2>3, <3>3, AttributeRead
    <3> QED BY <2>3, <3>1, <3>2, <3>3
  <2>5. encoded' = encoded
    BY <2>4, SendingStays
  <2>6. CASE Reading(i, t, r, a)'
    <3>1. Reading(i, T[i], R[i], A[i])'
      BY <2>1, <2>6
    <3>2. \E j \in 1 .. Len(encoded') : Reading(j, T[j], R[j], A[j])'
      BY <2>5, <3>1
    <3> QED BY <2>4, <3>2 DEF Place
  <2>7. CASE at' = "flags" /\ in' = rest /\ Before(i + 1)'
    <3>1. CASE i = N
      BY <1>3, <2>1, <2>4, <2>5, <2>7, <3>1 DEF Place
    <3>2. CASE i # N
      <4>1. PICK j \in 1 .. N : j = i + 1
        BY <1>3, <3>2
      <4>2. Reading(j, T[j], R[j], A[j])'
        BY <2>1, <2>7, <4>1 DEF Reading
      <4>3. \E x \in 1 .. Len(encoded') : Reading(x, T[x], R[x], A[x])'
        BY <1>3, <2>5, <4>2
      <4> QED BY <2>4, <4>3 DEF Place
    <3> QED BY <3>1, <3>2
  <2> QED BY <2>4, <2>6, <2>7 DEF Place
<1> QED BY <1>1, <1>4, <1>5, <1>6, <1>7, <1>8 DEF Place, Over

-----------------------------------------------------------------------------
(* The inductive invariant.                                                *)

Timed == {e \in Info : e.time \in -TimeLimit .. TimeLimit - 1}

Encoder ==
  /\ upload \in BOOLEAN /\ opts \in Options /\ err \in BOOLEAN /\ cut \in BOOLEAN
  /\ pc \in {"client", "filter", "list", "entries", "sent", "failed", "panic"}
  /\ encoded \in Seq(Info) /\ abandoned \subseteq DOMAIN encoded /\ files \in Seq(Info)
  /\ pc = "client" => upload /\ \E l \in Seq(Timed) : listing = <<l>>
  /\ pc \in {"filter", "list", "entries"} => ~upload /\ listing \in Seq(Seq(Info))
  /\ pc = "entries" => listing # <<>>
  /\ pc = "sent" => files \in Sorted(encoded)

(* Until the list is sent the decoder waits, or learns that it never will. *)
Waiting ==
  /\ in = <<>> /\ fileList = <<>>
  /\ at = "flags" \/ (at = "err" /\ pc \in {"failed", "panic"})

Written == \E R, A, T : Laid(R, A, T) /\ R[1] = fec /\ R[Len(encoded) + 1] = <<>>

Sent == \E R, A, T, n : Stream(R, A, T, n) /\ Place(R, A, T, n)

FileListInv ==
  /\ Encoder /\ DecoderTypes
  /\ pc # "sent" => Waiting
  /\ pc \in {"client", "filter", "list", "entries"} => Written
  /\ pc = "sent" => Sent

(* The buffer stays a list of whole entries while nothing is added.        *)
LEMMA WrittenStays ==
  ASSUME Written, UNCHANGED <<upload, opts, encoded, abandoned, fec>>
  PROVE  Written'
<1>1. PICK R, A, T : Laid(R, A, T) /\ R[1] = fec /\ R[Len(encoded) + 1] = <<>>
  BY DEF Written
<1>2. Laid(R, A, T)'
  BY <1>1, LaidStays
<1> QED BY <1>1, <1>2 DEF Written

(* The decoder's state keeps its types while it does not move.             *)
LEMMA TypesStay ==
  ASSUME DecoderTypes, UNCHANGED decVars
  PROVE  DecoderTypes'
BY DEF DecoderTypes, decVars

(* The list begins where the decoder waits.                                *)
LEMMA SentNow ==
  ASSUME encoded \in Seq(Info), opts \in Options, Written, at = "flags", fileList = <<>>,
         NEW u \in Seq(Id), NEW g \in Seq(Id), NEW n \in Nat, Write(fec \o Trailer(u, g, n)),
         UNCHANGED <<upload, opts, encoded, abandoned, decVars>>
  PROVE  Sent'
<1>1. PICK R, A, T : Laid(R, A, T) /\ R[1] = fec /\ R[Len(encoded) + 1] = <<>>
  BY DEF Written
<1>2. PICK N \in Nat : N = Len(encoded)
  OBVIOUS
<1>3. opts.uid \in BOOLEAN /\ opts.gid \in BOOLEAN
  BY ConstantsAre
<1>4. PICK more \in Seq(WireField) : more = Trailer(u, g, n)
  <2>1. PICK z \in Seq(WireField) : z = AfterEnd(opts.uid, opts.gid, u, g, n)
    BY <1>3, TrailerIs
  <2>2. Trailer(u, g, n) = <<EndOfList>> \o z
    BY <1>3, <2>1, TrailerIs
  <2>3. <<EndOfList>> \o z \in Seq(WireField)
    BY IdFields, HeadTail
  <2> QED BY <2>2, <2>3
<1> DEFINE S0 == [j \in 1 .. Len(encoded) + 1 |-> R[j] \o more]
           B0 == [j \in 1 .. Len(encoded) |-> [k \in 1 .. 9 |-> A[j][k] \o more]]
<1>5. Laid(S0, B0, T)
  BY <1>1, LaidGoesOn
<1>6. S0[1] = R[1] \o more /\ S0[N + 1] = R[N + 1] \o more
  <2>1. 1 \in 1 .. N + 1 /\ N + 1 \in 1 .. N + 1
    OBVIOUS
  <2> QED BY <1>2, <2>1
<1>7. PICK S, B : S = S0 /\ B = B0
  OBVIOUS
<1> HIDE DEF S0, B0
<1>8. Laid(S, B, T) /\ S[1] = R[1] \o more /\ S[N + 1] = R[N + 1] \o more
  BY <1>5, <1>6, <1>7
<1>9. S[N + 1] = Trailer(u, g, n)
  <2>1. <<>> \o more = more
    BY ConcatEmptySeq
  <2> QED BY <1>1, <1>2, <1>4, <1>8, <2>1
<1>10. Laid(S, B, T)'
  BY <1>8, LaidStays
<1>11. fec' = S[1] /\ in' = S[1] /\ encoded' = encoded /\ opts' = opts
  BY <1>1, <1>4, <1>8 DEF Write
<1>12. Last(fec') = Field("int", n)
  <2>1. PICK s \in Seq(WireField) : s = fec
    <3>1. 1 \in 1 .. Len(encoded) + 1
      BY <1>2
    <3> QED BY <1>1, <3>1 DEF Laid
  <2>2. Last(s \o Trailer(u, g, n)) = Field("int", n)
    BY LastOfTrailer
  <2> QED BY <2>1, <2>2 DEF Write
<1>13. Trailer(u, g, n)' = Trailer(u, g, n)
  BY <1>11 DEF Trailer
<1>14. Stream(S, B, T, n)'
  <2>1. S[Len(encoded') + 1] = Trailer(u, g, n)'
    BY <1>2, <1>9, <1>11, <1>13
  <2> QED BY <1>10, <1>12, <2>1 DEF Stream
<1>15. Before(1)' /\ at' = "flags"
  <2>1. fileList' = <<>> /\ at' = "flags"
    BY DEF decVars
  <2>2. Len(fileList') = 1 - 1
    BY <2>1
  <2>3. ~(1 > 1) /\ \A j \in 1 .. 1 - 1 : FALSE
    OBVIOUS
  <2> QED BY <2>1, <2>2, <2>3 DEF Before
<1>16. Place(S, B, T, n)'
  <2>1. CASE N = 0
    <3>1. Len(encoded') + 1 = 1
      BY <1>2, <1>11, <2>1
    <3> QED BY <1>11, <1>15, <3>1 DEF Place
  <2>2. CASE N # 0
    <3>1. 1 \in 1 .. Len(encoded')
      BY <1>2, <1>11, <2>2
    <3>2. Reading(1, T[1], S[1], B[1])'
      BY <1>11, <1>15 DEF Reading
    <3>3. \E i \in 1 .. Len(encoded') : Reading(i, T[i], S[i], B[i])'
      BY <3>1, <3>2
    <3> QED BY <3>3 DEF Place
  <2> QED BY <2>1, <2>2
<1> QED BY <1>14, <1>16 DEF Sent

(* One more entry.                                                         *)
LEMMA WrittenOneMore ==
  ASSUME encoded \in Seq(Info), Written, NEW e \in Info, encoded' = Append(encoded, e),
         UNCHANGED <<upload, opts>>, abandoned # {} => abandoned' # {},
         NEW t \in Tag, NEW j, j = Len(encoded) + 1, Fits(j, t)',
         fec' = fec \o Entry(OnWire(e), t.F, t.n, t.missing)
  PROVE  Written'
<1>1. PICK R, A, T : Laid(R, A, T) /\ R[1] = fec /\ R[Len(encoded) + 1] = <<>>
  BY DEF Written
<1>4. PICK R2, A2, T2 : /\ Laid(R2, A2, T2)' /\ R2[Len(encoded) + 2] = <<>>
                        /\ R2[1] = R[1] \o Entry(OnWire(e), t.F, t.n, t.missing)
  BY <1>1, LaidOneMore
<1>5. Len(encoded') + 1 = Len(encoded) + 2
  OBVIOUS
<1> QED BY <1>1, <1>4, <1>5 DEF Written

(* The invariant holds at the beginning.                                   *)
LEMMA InvInit == Init => FileListInv
<1> SUFFICES ASSUME Init PROVE FileListInv
  OBVIOUS
<1>1. /\ encoded = <<>> /\ fec = <<>> /\ in = <<>> /\ fileList = <<>> /\ files = <<>> /\ abandoned = {}
      /\ at = "flags" /\ f = Blank /\ last = Blank /\ l1 = 0 /\ l2 = 0 /\ ioErrors = 0
      /\ err = FALSE /\ cut = FALSE /\ pc \in {"client", "filter"} /\ opts \in Options /\ upload \in BOOLEAN
  BY DEF Init
<1>2. \A S : <<>> \in Seq(S)
  OBVIOUS
<1>3. DecoderTypes
  BY <1>1, <1>2, BlankIs DEF DecoderTypes
<1>4. Written
  <2> DEFINE R == [j \in 1 .. 1 |-> <<>>]
             A == [j \in 1 .. 0 |-> <<>>]
  <2>1. Len(encoded) = 0 /\ 1 \in 1 .. 1 /\ Len(encoded) + 1 = 1
    BY <1>1
  <2>2. R \in [1 .. 1 -> Seq(WireField)] /\ R[1] = <<>>
    BY <1>2, <2>1
  <2>3. A \in [1 .. 0 -> [1 .. 9 -> Seq(WireField)]] /\ A \in [1 .. 0 -> Tag]
    OBVIOUS
  <2>4. \A i \in 1 .. 0 : FALSE
    OBVIOUS
  <2> HIDE DEF R, A
  <2>5. Laid(R, A, A)
    BY <2>1, <2>2, <2>3, <2>4 DEF Laid
  <2> QED BY <1>1, <2>1, <2>2, <2>5 DEF Written
<1>5. Waiting
  BY <1>1 DEF Waiting
<1>6. pc = "client" => upload /\ \E l \in Seq(Timed) : listing = <<l>>
  <2>1. ASSUME pc = "client" PROVE upload /\ \E l \in Uploads : listing = <<l>>
    BY <2>1 DEF Init
  <2>2. Uploads \subseteq Seq(Timed)
    BY FileListAssumption, Zenon DEF Timed
  <2> QED BY <2>1, <2>2
<1>7. pc \in {"filter", "list", "entries"} => ~upload /\ listing \in Seq(Seq(Info))
  <2>1. ASSUME pc = "filter" PROVE ~upload /\ listing \in Listings
    BY <2>1 DEF Init
  <2>2. \A l \in Listings : l \in Seq(Seq(Info))
    BY FileListAssumption, Zenon
  <2> QED BY <1>1, <2>1, <2>2
<1>8. Encoder
  BY <1>1, <1>2, <1>6, <1>7 DEF Encoder
<1> QED BY <1>1, <1>3, <1>4, <1>5, <1>8 DEF FileListInv

(* The encoder steps that write nothing.                                   *)
LEMMA ReadRuleKeeps ==
  ASSUME FileListInv, ReadRule
  PROVE  FileListInv'
<1>1. /\ pc = "filter" /\ pc' \in {"filter", "list"}
      /\ UNCHANGED <<upload, opts, listing, err, fec, encoded, abandoned, files, in, cut, decVars>>
  BY DEF ReadRule
<1>2. Encoder'
  BY <1>1 DEF FileListInv, Encoder
<1>3. DecoderTypes' /\ Written'
  BY <1>1, TypesStay, WrittenStays DEF FileListInv
<1>4. Waiting'
  BY <1>1 DEF FileListInv, Waiting, decVars
<1> QED BY <1>1, <1>2, <1>3, <1>4 DEF FileListInv

(* A path is opened, or Files.List fails.                                  *)
LEMMA OpenPathKeeps ==
  ASSUME FileListInv, OpenPath
  PROVE  FileListInv'
<1>1. /\ pc = "list" /\ listing # <<>> /\ pc' \in {"entries", "failed"} /\ err' \in BOOLEAN
      /\ UNCHANGED <<upload, opts, listing, fec, encoded, abandoned, files, in, cut, decVars>>
  <2>1. err \in BOOLEAN
    BY DEF FileListInv, Encoder
  <2> QED BY <2>1 DEF OpenPath
<1>2. Encoder'
  BY <1>1 DEF FileListInv, Encoder
<1>3. DecoderTypes' /\ Written'
  BY <1>1, TypesStay, WrittenStays DEF FileListInv
<1>4. Waiting'
  BY <1>1 DEF FileListInv, Waiting, decVars
<1> QED BY <1>1, <1>2, <1>3, <1>4 DEF FileListInv

(* The last line of SendFileList for a path.                               *)
LEMMA ClosePathKeeps ==
  ASSUME FileListInv, ClosePath
  PROVE  FileListInv'
<1>1. /\ pc = "entries" /\ pc' \in {"list", "failed"} /\ listing' = Tail(listing)
      /\ UNCHANGED <<upload, opts, err, fec, encoded, abandoned, files, in, cut, decVars>>
  BY DEF ClosePath
<1>2. listing' \in Seq(Seq(Info))
  BY <1>1 DEF FileListInv, Encoder
<1>3. Encoder'
  BY <1>1, <1>2 DEF FileListInv, Encoder
<1>4. DecoderTypes' /\ Written'
  BY <1>1, TypesStay, WrittenStays DEF FileListInv
<1>5. Waiting'
  BY <1>1 DEF FileListInv, Waiting, decVars
<1> QED BY <1>1, <1>3, <1>4, <1>5 DEF FileListInv

(* A tag for an entry of that mode.                                        *)
LEMMA TagOf ==
  \A mode : \A F \in SUBSET Flag : \A n \in Nat : \A missing \in {{}, {"sum"}, {"link", "sum"}} :
    \E t \in Tag : /\ t.F = F /\ t.n = n /\ t.missing = missing
                   /\ \A k \in 1 .. 8 : Attributes[k] \in t.has <=> Sends(Attributes[k], mode)
<1> SUFFICES ASSUME NEW mode, NEW F \in SUBSET Flag, NEW n \in Nat,
                    NEW missing \in {{}, {"sum"}, {"link", "sum"}}
             PROVE  \E t \in Tag :
                      /\ t.F = F /\ t.n = n /\ t.missing = missing
                      /\ \A k \in 1 .. 8 : Attributes[k] \in t.has <=> Sends(Attributes[k], mode)
  BY Zenon
<1> DEFINE has == {Attributes[k] : k \in {x \in 1 .. 8 : Sends(Attributes[x], mode)}}
           t == [F |-> F, n |-> n, missing |-> missing, has |-> has]
<1>1. has \in SUBSET {Attributes[k] : k \in 1 .. 8}
  OBVIOUS
<1>2. \A k \in 1 .. 8 : Attributes[k] \in has <=> Sends(Attributes[k], mode)
  BY AttributesDiffer
<1> HIDE DEF has
<1>3. t \in Tag
  BY <1>1 DEF Tag
<1>4. t.F = F /\ t.n = n /\ t.missing = missing /\ t.has = has
  OBVIOUS
<1>5. \A k \in 1 .. 8 : Attributes[k] \in t.has <=> Sends(Attributes[k], mode)
  BY <1>2, <1>4
<1> HIDE DEF t
<1> QED BY <1>3, <1>4, <1>5

(* The tag of an entry without abbreviations fits.                         *)
LEMMA PlainFits ==
  ASSUME encoded \in Seq(Info), NEW e \in Info, encoded' = Append(encoded, e), UNCHANGED opts,
         NEW t \in Tag, t.F \in SUBSET {"long", "top"}, "long" \in t.F, t.n = 0,
         \A k \in 1 .. 8 : Attributes[k] \in t.has <=> Sends(Attributes[k], e.mode),
         t.missing # {} => ~upload' /\ abandoned' # {}, NEW j, j = Len(encoded) + 1
  PROVE  Fits(j, t)'
<1>1. encoded'[j] = e
  OBVIOUS
<1>2. \A k \in 1 .. 8 : Sends(Attributes[k], e.mode)' <=> Sends(Attributes[k], e.mode)
  BY DEF Sends
<1>3. "name" \notin t.F /\ \A s \in Inherited : s \notin t.F
  BY DEF Inherited
<1>4. t.n <= Len(encoded'[j].name)
  BY <1>1 DEF Info
<1>5. \A k \in 1 .. 8 : Attributes[k] \in t.has <=> Sends(Attributes[k], encoded[j].mode)'
  BY <1>1, <1>2
<1>6. "name" \in t.F <=> t.n > 0
  BY <1>3
<1>7. Shares(t, encoded[j], encoded[j - 1])'
  BY <1>3, <1>6 DEF Shares
<1> QED BY <1>3, <1>4, <1>5, <1>6, <1>7 DEF Fits

(* What is sent of a file is an entry.                                     *)
LEMMA ListedIs ==
  ASSUME NEW i \in Info
  PROVE  Listed(i) \in Info
<1> DEFINE name == IF i.name = <<Slash>> THEN <<Dot>> ELSE i.name
           length == IF i.mode = "dir" THEN DirSize ELSE i.length
<1>1. i.name \in Seq(Nat) /\ i.length \in Nat /\ i.mode \in Mode
  BY DEF Info
<1>2. <<Dot>> \in Seq(Nat)
  BY DEF Dot
<1>3. name \in Seq(Nat) /\ length \in Nat /\ Stub \in Nat
  BY <1>1, <1>2 DEF DirSize, Stub
<1>4. Listed(i) = [i EXCEPT !.name = name, !.length = length, !.uid = Stub, !.gid = Stub, !.rdev = Stub]
  BY DEF Listed
<1> HIDE DEF name, length
<1> QED BY <1>3, <1>4 DEF Info

(* Whatever Add encodes, the entry is written in full or abandoned.        *)
LEMMA AddKeeps ==
  ASSUME FileListInv, pc = "entries", NEW e \in Info, UNCHANGED <<upload, opts>>,
         NEW F \in SUBSET {"long", "top"}, "long" \in F,
         NEW missing \in {{}, {"sum"}, {"link", "sum"}},
         encoded' = Append(encoded, e), fec' = fec \o Entry(OnWire(e), F, 0, missing),
         abandoned' = IF missing = {} THEN abandoned ELSE abandoned \cup {Len(encoded')}
  PROVE  encoded' \in Seq(Info) /\ abandoned' \subseteq DOMAIN encoded' /\ Written'
<1>1. encoded \in Seq(Info) /\ abandoned \subseteq DOMAIN encoded /\ Written /\ ~upload
  BY DEF FileListInv, Encoder
<1>2. PICK j \in Nat : j = Len(encoded) + 1
  BY <1>1
<1>3. encoded' \in Seq(Info) /\ DOMAIN encoded' = 1 .. j /\ Len(encoded') = j
  BY <1>1, <1>2
<1>4. abandoned' \subseteq DOMAIN encoded'
  BY <1>1, <1>2, <1>3
<1>5. (abandoned # {} => abandoned' # {}) /\ (missing # {} => ~upload' /\ abandoned' # {})
  BY <1>1
<1>6. F \in SUBSET Flag /\ 0 \in Nat
  BY DEF Flag
<1>7. PICK t \in Tag : /\ t.F = F /\ t.n = 0 /\ t.missing = missing
                       /\ \A k \in 1 .. 8 : Attributes[k] \in t.has <=> Sends(Attributes[k], e.mode)
  <2> DEFINE Is(F0, n, m) ==
        \E t \in Tag : /\ t.F = F0 /\ t.n = n /\ t.missing = m
                       /\ \A k \in 1 .. 8 : Attributes[k] \in t.has <=> Sends(Attributes[k], e.mode)
  <2>1. \A F0 \in SUBSET Flag : \A n \in Nat : \A m \in {{}, {"sum"}, {"link", "sum"}} : Is(F0, n, m)
    BY TagOf, Zenon
  <2> HIDE DEF Is
  <2>2. Is(F, 0, missing)
    BY <1>6, <2>1
  <2> QED BY <2>2 DEF Is
<1>8. Fits(j, t)'
  BY <1>1, <1>2, <1>5, <1>7, PlainFits
<1>9. fec' = fec \o Entry(OnWire(e), t.F, t.n, t.missing)
  BY <1>7
<1>10. Written'
  BY <1>1, <1>2, <1>5, <1>8, <1>9, WrittenOneMore
<1> QED BY <1>3, <1>4, <1>10

(* One entry of the package: filtered, written, or abandoned halfway.      *)
LEMMA EncodeEntryKeeps ==
  ASSUME FileListInv, EncodeEntry
  PROVE  FileListInv'
<1>1. /\ pc = "entries" /\ Head(listing) # <<>>
      /\ listing' = [listing EXCEPT ![1] = Tail(@)]
      /\ UNCHANGED <<upload, opts, lines, rules, files, in, cut, decVars>>
  BY DEF EncodeEntry
<1>2. /\ encoded \in Seq(Info) /\ abandoned \subseteq DOMAIN encoded /\ ~upload /\ err \in BOOLEAN
      /\ listing \in Seq(Seq(Info)) /\ listing # <<>> /\ Written /\ DecoderTypes /\ Waiting
  BY <1>1 DEF FileListInv, Encoder
<1>3. PICK s \in Seq(Info) : s = Head(listing)
  BY <1>2
<1>4. listing' \in Seq(Seq(Info)) /\ listing' # <<>>
  <2>1. Tail(s) \in Seq(Info) /\ listing' = [listing EXCEPT ![1] = Tail(s)]
    BY <1>1, <1>2, <1>3
  <2> QED BY <1>2, <2>1
<1>5. Head(s) \in Info
  BY <1>1, <1>3
<1>6. PICK e \in Info : e = Listed(Head(Head(listing)))
  BY <1>3, <1>5, ListedIs
<1>7. PICK F \in SUBSET {"long", "top"} : F = {"long"} \cup (IF e.name = <<Dot>> THEN {"top"} ELSE {})
  OBVIOUS
<1>8. /\ pc' \in {"panic", "entries"} /\ err' \in BOOLEAN
      /\ \/ UNCHANGED <<fec, encoded, abandoned>>
         \/ \E missing \in {{}, {"sum"}, {"link", "sum"}} :
              /\ encoded' = Append(encoded, e) /\ fec' = fec \o Entry(OnWire(e), F, 0, missing)
              /\ abandoned' = IF missing = {} THEN abandoned ELSE abandoned \cup {Len(encoded')}
  BY <1>1, <1>2, <1>6, <1>7 DEF EncodeEntry, OnWire
<1>9. encoded' \in Seq(Info) /\ abandoned' \subseteq DOMAIN encoded' /\ Written'
  <2>1. CASE UNCHANGED <<fec, encoded, abandoned>>
    BY <1>1, <1>2, <2>1, WrittenStays
  <2>2. ASSUME NEW missing \in {{}, {"sum"}, {"link", "sum"}},
               encoded' = Append(encoded, e), fec' = fec \o Entry(OnWire(e), F, 0, missing),
               abandoned' = IF missing = {} THEN abandoned ELSE abandoned \cup {Len(encoded')}
        PROVE  encoded' \in Seq(Info) /\ abandoned' \subseteq DOMAIN encoded' /\ Written'
    <3>1. "long" \in F /\ UNCHANGED <<upload, opts>>
      BY <1>1, <1>7
    <3> QED BY <1>1, <2>2, <3>1, AddKeeps
  <2> QED BY <1>8, <2>1, <2>2
<1>10. Encoder'
  BY <1>1, <1>4, <1>8, <1>9 DEF FileListInv, Encoder
<1>11. DecoderTypes' /\ Waiting'
  <2>1. DecoderTypes'
    BY <1>1, <1>2, TypesStay
  <2>2. Waiting'
    BY <1>1, <1>2 DEF Waiting, decVars
  <2> QED BY <2>1, <2>2
<1> QED BY <1>8, <1>9, <1>10, <1>11 DEF FileListInv

(* A list that is sent begins where the decoder waits.                     *)
LEMMA ListSent ==
  ASSUME FileListInv, pc \in {"list", "client"}, NEW u \in Seq(Id), NEW g \in Seq(Id), NEW n \in Nat,
         Write(fec \o Trailer(u, g, n)), files' \in Sorted(encoded), pc' = "sent",
         UNCHANGED <<upload, opts, lines, rules, listing, err, encoded, abandoned, cut, decVars>>
  PROVE  FileListInv'
<1>1. /\ encoded \in Seq(Info) /\ opts \in Options /\ Written /\ DecoderTypes
      /\ at = "flags" /\ fileList = <<>>
  BY DEF FileListInv, Encoder, Waiting
<1>2. files' \in Seq(Info) /\ files' \in Sorted(encoded)'
  <2>1. files' \in Seq(Info)
    BY <1>1, SortedIs
  <2> QED BY <2>1
<1>3. Encoder'
  BY <1>2 DEF FileListInv, Encoder
<1>4. DecoderTypes'
  BY <1>1, TypesStay
<1>5. Sent'
  <2>1. UNCHANGED <<upload, opts, encoded, abandoned, decVars>>
    OBVIOUS
  <2> QED BY <1>1, <2>1, SentNow
<1> QED BY <1>3, <1>4, <1>5 DEF FileListInv

(* The package sends its list.                                             *)
LEMMA SendListKeeps ==
  ASSUME FileListInv, SendList
  PROVE  FileListInv'
<1>1. <<>> \in Seq(Id) /\ 0 \in Nat
  OBVIOUS
<1>2. /\ pc = "list" /\ Write(fec \o Trailer(<<>>, <<>>, 0)) /\ files' \in Sorted(encoded) /\ pc' = "sent"
      /\ UNCHANGED <<upload, opts, lines, rules, listing, err, encoded, abandoned, cut, decVars>>
  BY DEF SendList
<1> QED BY <1>1, <1>2, ListSent

(* The client sends its list.                                              *)
LEMMA ClientListKeeps ==
  ASSUME FileListInv, ClientList
  PROVE  FileListInv'
<1>1. /\ pc = "client" /\ files' \in Sorted(encoded) /\ pc' = "sent"
      /\ UNCHANGED <<upload, opts, lines, rules, listing, err, encoded, abandoned, cut, decVars>>
  BY DEF ClientList
<1>2. PICK u \in IdLists, g \in IdLists, n \in {0, 1} : Write(fec \o Trailer(u, g, n))
  BY DEF ClientList
<1>3. IdLists \subseteq Seq(Id)
  BY FileListAssumption, Zenon DEF Id
<1>4. u \in Seq(Id) /\ g \in Seq(Id) /\ n \in Nat
  BY <1>3
<1> QED BY <1>1, <1>2, <1>4, ListSent

(* Whatever the client leaves out is the same as in the entry before.      *)
LEMMA ClientFits ==
  ASSUME encoded \in Seq(Info), NEW e \in Info, encoded' = Append(encoded, e),
         UNCHANGED <<upload, opts>>, upload,
         NEW F \in SUBSET Inherited,
         \A s \in F : encoded # <<>> /\ Sends(s, e.mode) /\ Known(Last(encoded))[s] = e[s],
         NEW n \in Nat,
         n > 0 => encoded # <<>> /\ n <= Len(e.name) /\ n <= Len(Last(encoded).name),
         \A i \in 1 .. n : Last(encoded).name[i] = e.name[i],
         NEW width \in {"long", "top"},
         NEW t \in Tag, t.F = F \cup {width} \cup (IF n > 0 THEN {"name"} ELSE {}), t.n = n, t.missing = {},
         \A k \in 1 .. 8 : Attributes[k] \in t.has <=> Sends(Attributes[k], e.mode),
         NEW j, j = Len(encoded) + 1
  PROVE  Fits(j, t)'
<1>1. encoded'[j] = e /\ e.name \in Seq(Nat)
  BY DEF Info
<1>2. \A s, m : Sends(s, m)' <=> Sends(s, m)
  BY DEF Sends
<1>3. t.n <= Len(encoded'[j].name)
  BY <1>1
<1>4. \A k \in 1 .. 8 : Attributes[k] \in t.has <=> Sends(Attributes[k], encoded[j].mode)'
  BY <1>1, <1>2
<1>5. "name" \notin Inherited /\ "long" \notin Inherited /\ "top" \notin Inherited
  BY DEF Inherited
<1>6. ("name" \in t.F <=> t.n > 0) /\ ("long" \in t.F \/ "top" \in t.F)
  BY <1>1, <1>5
<1>7. \A s \in Inherited : s \in t.F => s \in F
  BY <1>5
<1>8. \A s \in Inherited : s \in t.F => s \in t.has
  <2>1. \A s \in Inherited : \E k \in 1 .. 8 : s = Attributes[k]
    <3>1. 2 \in 1 .. 8 /\ 3 \in 1 .. 8 /\ 4 \in 1 .. 8 /\ 5 \in 1 .. 8 /\ 6 \in 1 .. 8
      OBVIOUS
    <3> QED BY <3>1, AttributeNames DEF Inherited
  <2>2. \A s \in F : Sends(s, e.mode)
    OBVIOUS
  <2> QED BY <1>7, <2>1, <2>2
<1>9. j > 1 => Shares(t, encoded[j], encoded[j - 1])'
  <2> SUFFICES ASSUME j > 1 PROVE Shares(t, encoded[j], encoded[j - 1])'
    OBVIOUS
  <2>1. encoded # <<>> /\ encoded'[j - 1] = Last(encoded)
    BY DEF Last
  <2>2. PICK b : b = Last(encoded)
    OBVIOUS
  <2>3. \A x : Known(x)' = Known(x)
    BY <1>2 DEF Known
  <2>4. t.n > 0 => upload' /\ t.n <= Len(b.name) /\ \A i \in 1 .. t.n : b.name[i] = e.name[i]
    BY <2>2
  <2>5. \A s \in Inherited : s \in t.F => Known(b)[s] = e[s]
    BY <1>7, <2>2
  <2>6. \A s \in Inherited : s \in t.F => Known(b)'[s] = e[s]
    BY <2>3, <2>5
  <2> QED BY <1>1, <2>1, <2>2, <2>4, <2>6 DEF Shares
<1>10. ~(j > 1) => t.n = 0 /\ \A s \in Inherited : s \notin t.F
  <2> SUFFICES ASSUME ~(j > 1) PROVE t.n = 0 /\ \A s \in Inherited : s \notin t.F
    OBVIOUS
  <2>1. encoded = <<>>
    OBVIOUS
  <2>2. F = {} /\ n = 0
    BY <2>1
  <2> QED BY <1>7, <2>2
<1> QED BY <1>3, <1>4, <1>6, <1>8, <1>9, <1>10 DEF Fits

(* One entry of the client, with whatever it leaves out.                   *)
LEMMA ClientEntryKeeps ==
  ASSUME FileListInv, ClientEntry
  PROVE  FileListInv'
<1>1. /\ pc = "client" /\ Head(listing) # <<>> /\ listing' = <<Tail(Head(listing))>>
      /\ encoded' = Append(encoded, Head(Head(listing)))
      /\ UNCHANGED <<upload, opts, lines, rules, pc, err, abandoned, files, in, cut, decVars>>
  BY DEF ClientEntry
<1>2. /\ encoded \in Seq(Info) /\ abandoned \subseteq DOMAIN encoded /\ upload
      /\ Written /\ DecoderTypes /\ Waiting
  BY <1>1 DEF FileListInv, Encoder
<1>3. PICK l \in Seq(Timed) : listing = <<l>>
  BY <1>1 DEF FileListInv, Encoder
<1>4. Head(listing) = l /\ l # <<>> /\ Head(l) \in Timed /\ Tail(l) \in Seq(Timed)
  BY <1>1, <1>3
<1>5. PICK e \in Timed : e = Head(l)
  BY <1>4
<1>6. e \in Info /\ e.time \in -TimeLimit .. TimeLimit - 1 /\ encoded' = Append(encoded, e)
  BY <1>1, <1>4, <1>5 DEF Timed
<1>7. PICK same : same = {s \in Inherited : encoded # <<>> /\ Sends(s, e.mode) /\ Known(Last(encoded))[s] = e[s]}
  OBVIOUS
<1>8. PICK shared : shared = {n \in 1 .. Len(e.name) :
                      encoded # <<>> /\ n <= Len(Last(encoded).name)
                      /\ \A i \in 1 .. n : Last(encoded).name[i] = e.name[i]}
  OBVIOUS
<1>9. PICK F \in SUBSET same, width \in {"long", "top"}, n \in {0} \cup shared :
        fec' = fec \o Entry(e, F \cup {width} \cup (IF n > 0 THEN {"name"} ELSE {}), n, {})
  <2>1. Head(Head(listing)) = e
    BY <1>4, <1>5
  <2> QED BY <1>7, <1>8, <2>1 DEF ClientEntry, Inherited
<1>10. PICK F2 \in SUBSET Flag : F2 = F \cup {width} \cup (IF n > 0 THEN {"name"} ELSE {})
  <2>1. same \subseteq Flag
    BY <1>7 DEF Inherited, Flag
  <2>2. F \cup {width} \cup (IF n > 0 THEN {"name"} ELSE {}) \in SUBSET Flag
    BY <2>1 DEF Flag
  <2> QED BY <2>2
<1>11. n \in Nat
  BY <1>8
<1>12. PICK t \in Tag : /\ t.F = F2 /\ t.n = n /\ t.missing = {}
                        /\ \A k \in 1 .. 8 : Attributes[k] \in t.has <=> Sends(Attributes[k], e.mode)
  <2> DEFINE Is(F0, x, m) ==
        \E t \in Tag : /\ t.F = F0 /\ t.n = x /\ t.missing = m
                       /\ \A k \in 1 .. 8 : Attributes[k] \in t.has <=> Sends(Attributes[k], e.mode)
  <2>1. \A F0 \in SUBSET Flag : \A x \in Nat : \A m \in {{}, {"sum"}, {"link", "sum"}} : Is(F0, x, m)
    BY TagOf, Zenon
  <2> HIDE DEF Is
  <2>2. Is(F2, n, {})
    BY <1>11, <2>1
  <2> QED BY <2>2 DEF Is
<1>13. PICK j \in Nat : j = Len(encoded) + 1
  BY <1>2
<1>14. UNCHANGED <<upload, opts>>
  BY <1>1
<1>15. Fits(j, t)'
  <2>1. /\ F \in SUBSET Inherited
        /\ \A s \in F : encoded # <<>> /\ Sends(s, e.mode) /\ Known(Last(encoded))[s] = e[s]
    BY <1>7
  <2>2. /\ n > 0 => encoded # <<>> /\ n <= Len(e.name) /\ n <= Len(Last(encoded).name)
        /\ \A i \in 1 .. n : Last(encoded).name[i] = e.name[i]
    BY <1>8
  <2>3. /\ t.F = F \cup {width} \cup (IF n > 0 THEN {"name"} ELSE {}) /\ t.n = n /\ t.missing = {}
        /\ \A k \in 1 .. 8 : Attributes[k] \in t.has <=> Sends(Attributes[k], e.mode)
    BY <1>10, <1>12
  <2>4. /\ encoded \in Seq(Info) /\ e \in Info /\ upload /\ width \in {"long", "top"}
        /\ n \in Nat /\ j = Len(encoded) + 1 /\ t \in Tag
    BY <1>2, <1>6, <1>9, <1>11, <1>12, <1>13
  <2>5. encoded' = Append(encoded, e) /\ UNCHANGED <<upload, opts>>
    BY <1>6, <1>14
  <2> QED BY ONLY <2>1, <2>2, <2>3, <2>4, <2>5, ClientFits
<1>16. Written'
  <2>1. OnWire(e) = e
    BY <1>6, TimeFits
  <2>2. fec' = fec \o Entry(OnWire(e), t.F, t.n, t.missing)
    BY <1>9, <1>10, <1>12, <2>1
  <2>3. abandoned # {} => abandoned' # {}
    BY <1>1
  <2> QED BY <1>2, <1>6, <1>13, <1>14, <1>15, <2>2, <2>3, WrittenOneMore
<1>17. encoded' \in Seq(Info) /\ abandoned' \subseteq DOMAIN encoded'
  BY <1>1, <1>2, <1>6
<1>18. pc' = "client" /\ upload' /\ \E l2x \in Seq(Timed) : listing' = <<l2x>>
  BY <1>1, <1>2, <1>4
<1>19. Encoder'
  BY <1>1, <1>17, <1>18 DEF FileListInv, Encoder
<1>20. DecoderTypes' /\ Waiting'
  <2>1. DecoderTypes'
    BY <1>1, <1>2, TypesStay
  <2>2. Waiting'
    BY <1>1, <1>2 DEF Waiting, decVars
  <2> QED BY <2>1, <2>2
<1> QED BY <1>16, <1>18, <1>19, <1>20 DEF FileListInv

(* What the place says where the decoder stops.                            *)
LEMMA PlaceOver ==
  ASSUME NEW R, NEW A, NEW T, NEW n, Place(R, A, T, n)
  PROVE  /\ at = "err" => cut \/ LongName \/ Disagree
         /\ at = "lost" => Disagree
         /\ at = "done" => /\ in = <<>> /\ ioErrors = n
                           /\ Right => fileList \in Sorted([i \in DOMAIN encoded |-> Decoded(encoded[i])])
<1>1. \A k \in 1 .. 8 : Attributes[k] \notin Over
  BY AttributesDiffer
<1>2. ASSUME NEW i, Reading(i, T[i], R[i], A[i]), at \in Over PROVE FALSE
  <2>1. at # "flags" /\ at # "shared" /\ at # "size" /\ at # "name"
    BY <1>2 DEF Over
  <2>2. \A k \in 1 .. 8 : at # Attributes[k]
    BY <1>1, <1>2
  <2> QED BY <1>2, <2>1, <2>2 DEF Reading, InTitle, InAttribute
<1>3. Doomed => at \notin Over
  BY DEF Doomed, Over
<1>4. ASSUME Ended(n), at \in Over
      PROVE  /\ at = "done" /\ in = <<>> /\ ioErrors = n
             /\ Right => fileList \in Sorted([i \in DOMAIN encoded |-> Decoded(encoded[i])])
  BY <1>4 DEF Ended, Trailing, Over
<1>5. "err" \in Over /\ "lost" \in Over /\ "done" \in Over /\ "flags" \notin Over
  BY DEF Over
<1>6. ASSUME at \in Over
      PROVE  \/ at = "err" /\ (cut \/ LongName \/ Disagree)
             \/ at = "lost" /\ Disagree
             \/ Ended(n)
  BY <1>2, <1>3, <1>5, <1>6, Zenon DEF Place
<1>7. ASSUME at = "err" PROVE cut \/ LongName \/ Disagree
  BY <1>4, <1>5, <1>6, <1>7
<1>8. ASSUME at = "lost" PROVE Disagree
  BY <1>4, <1>5, <1>6, <1>8
<1>9. ASSUME at = "done" PROVE Ended(n) /\ at \in Over
  BY <1>5, <1>6, <1>9
<1> QED BY <1>4, <1>7, <1>8, <1>9

(* The place stays while nothing moves.                                    *)
LEMMA PlaceStays ==
  ASSUME UNCHANGED vars, NEW R, NEW A, NEW T, NEW n, Place(R, A, T, n)
  PROVE  Place(R, A, T, n)'
<1>1. /\ UNCHANGED sending /\ in' = in /\ at' = at /\ flags' = flags /\ l1' = l1 /\ l2' = l2
      /\ f' = f /\ last' = last /\ fileList' = fileList /\ ioErrors' = ioErrors
  BY DEF vars, sending, decVars
<1>2. /\ Disagree' = Disagree /\ Right' = Right /\ LongName' = LongName
      /\ upload' = upload /\ opts' = opts /\ encoded' = encoded /\ cut' = cut
  BY <1>1, SendingStays
<1>3. \A e : Decoded(e)' = Decoded(e)
  BY <1>1, SendingStays
<1>4. \A i : Before(i)' = Before(i)
  BY <1>1, <1>2, <1>3 DEF Before
<1>5. \A i, k : Partial(i, k)' = Partial(i, k)
  BY <1>1, <1>2, <1>3 DEF Partial
<1>6. \A i, t, r, a : InTitle(i, t, r, a)' = InTitle(i, t, r, a)
  BY <1>1, <1>2 DEF InTitle
<1>7. \A i, t, a : InAttribute(i, t, a)' = InAttribute(i, t, a)
  BY <1>1, <1>5 DEF InAttribute
<1>8. \A i, t, r, a : Reading(i, t, r, a)' = Reading(i, t, r, a)
  BY <1>1, <1>4, <1>6, <1>7 DEF Reading
<1>9. Doomed' = Doomed
  BY <1>1, <1>2 DEF Doomed
<1>10. Ended(n)' = Ended(n)
  <2>1. [i \in DOMAIN encoded |-> Decoded(encoded[i])]' = [i \in DOMAIN encoded |-> Decoded(encoded[i])]
    BY <1>2, <1>3
  <2> QED BY <1>1, <1>2, <2>1 DEF Ended
<1> QED BY <1>1, <1>2, <1>4, <1>8, <1>9, <1>10 DEF Place

(* The stream is as it was sent, whatever was read of it.                  *)
LEMMA StreamStays ==
  ASSUME UNCHANGED <<upload, opts, encoded, abandoned, fec>>, NEW R, NEW A, NEW T, NEW n,
         Stream(R, A, T, n)
  PROVE  Stream(R, A, T, n)'
<1>1. Laid(R, A, T)'
  BY LaidStays DEF Stream
<1>2. \A u, g : Trailer(u, g, n)' = Trailer(u, g, n)
  BY DEF Trailer
<1> QED BY <1>1, <1>2 DEF Stream

(* The connection ends, before the list was sent or while it is read.      *)
LEMMA CutKeeps ==
  ASSUME FileListInv, Cut
  PROVE  FileListInv'
<1>1. /\ cut' = TRUE
      /\ UNCHANGED <<upload, opts, lines, rules, listing, err, fec, encoded, abandoned, files, decVars>>
  BY DEF Cut
<1>2. Encoder /\ DecoderTypes
  BY DEF FileListInv
<1>3. DecoderTypes'
  BY <1>1, <1>2, TypesStay
<1>4. CASE pc \in {"filter", "client"} /\ pc' = "failed" /\ UNCHANGED in
  <2>1. Encoder'
    BY <1>1, <1>2, <1>4 DEF Encoder
  <2>2. Waiting'
    BY <1>1, <1>4 DEF FileListInv, Waiting, decVars
  <2> QED BY <1>3, <1>4, <2>1, <2>2 DEF FileListInv
<1>5. CASE pc = "sent" /\ in # <<>> /\ in' = <<>> /\ UNCHANGED pc
  <2>1. Encoder'
    BY <1>1, <1>2, <1>5 DEF Encoder
  <2>2. PICK R, A, T, n : Stream(R, A, T, n) /\ Place(R, A, T, n)
    BY <1>5 DEF FileListInv, Sent
  <2>3. Stream(R, A, T, n)'
    BY <1>1, <2>2, StreamStays
  <2>4. at' = at /\ Disagree' = Disagree
    BY <1>1 DEF decVars, Disagree
  <2>5. (at = "lost" => Disagree) /\ at # "done"
    BY <1>5, <2>2, PlaceOver
  <2>6. Place(R, A, T, n)'
    BY <1>1, <1>5, <2>4, <2>5 DEF Place, Over
  <2> QED BY <1>3, <1>5, <2>1, <2>3, <2>6 DEF FileListInv, Sent
<1> QED BY <1>4, <1>5 DEF Cut

(* The decoder moves: before the list is sent it can only fail.            *)
LEMMA ReceiveKeeps ==
  ASSUME FileListInv, Receive
  PROVE  FileListInv'
<1>1. Encoder /\ DecoderTypes /\ encoded \in Seq(Info) /\ opts \in Options /\ upload \in BOOLEAN
  BY DEF FileListInv, Encoder
<1>2. CASE pc = "sent"
  <2>1. PICK R, A, T, n : Stream(R, A, T, n) /\ Place(R, A, T, n)
    BY <1>2 DEF FileListInv, Sent
  <2>2. DecoderTypes' /\ UNCHANGED sending /\ Place(R, A, T, n)'
    BY <1>1, <2>1, PlaceRead
  <2>3. Stream(R, A, T, n)'
    <3>1. UNCHANGED <<upload, opts, encoded, abandoned, fec>>
      BY <2>2 DEF sending, encVars
    <3> QED BY <2>1, <3>1, StreamStays
  <2>4. pc' = pc /\ Encoder'
    BY <1>1, <1>2, <2>2 DEF Encoder, sending, encVars
  <2> QED BY <1>2, <2>2, <2>3, <2>4 DEF FileListInv, Sent
<1>3. CASE pc # "sent"
  <2>1. at = "flags" /\ in = <<>> /\ fileList = <<>>
    <3>1. at # "err"
      BY StepsAt DEF Over
    <3> QED BY <1>3, <3>1 DEF FileListInv, Waiting
  <2>2. \A k \in 1 .. 8 : at # Attributes[k]
    BY <2>1, AttributesDiffer
  <2>3. ReadFails
    BY <2>1, <2>2, AttributeNames
       DEF Receive, ReadFlags, ReadShared, ReadSize, ReadName, ReadAttribute, ReadIds, ReadIdName,
           ReadIoErrors, LosesStep, Take
  <2>4. /\ pc \in {"failed", "panic"} /\ at' = "err"
        /\ UNCHANGED <<sending, in, flags, l1, l2, f, last, fileList, ioErrors>>
    BY <1>3, <2>3 DEF ReadFails
  <2>5. UNCHANGED <<upload, opts, lines, rules, listing, pc, err, fec, encoded, abandoned, files, cut>>
    BY <2>4 DEF sending, encVars
  <2>6. Encoder'
    BY <1>1, <2>5 DEF Encoder
  <2>7. DecoderTypes'
    BY <1>1, <2>4 DEF DecoderTypes, Over
  <2>8. Waiting'
    BY <2>1, <2>4, <2>5 DEF Waiting
  <2> QED BY <2>4, <2>5, <2>6, <2>7, <2>8 DEF FileListInv
<1> QED BY <1>2, <1>3

(* The invariant survives a stuttering step.                               *)
LEMMA InvStays ==
  ASSUME FileListInv, UNCHANGED vars
  PROVE  FileListInv'
<1>1. /\ UNCHANGED <<upload, opts, lines, rules, listing, pc, err, fec, encoded, abandoned, files, in, cut>>
      /\ UNCHANGED decVars
  BY DEF vars, encVars
<1>2. Encoder' /\ DecoderTypes'
  BY <1>1, TypesStay DEF FileListInv, Encoder
<1>3. Waiting' <=> Waiting
  BY <1>1 DEF Waiting, decVars
<1>4. Written => Written'
  BY <1>1, WrittenStays
<1>5. ASSUME Sent PROVE Sent'
  <2>1. PICK R, A, T, n : Stream(R, A, T, n) /\ Place(R, A, T, n)
    BY <1>5 DEF Sent
  <2>2. Stream(R, A, T, n)'
    BY <1>1, <2>1, StreamStays
  <2>3. Place(R, A, T, n)'
    BY <2>1, PlaceStays
  <2> QED BY <2>2, <2>3 DEF Sent
<1> QED BY <1>1, <1>2, <1>3, <1>4, <1>5 DEF FileListInv

(* FileListInv is inductive: in every state the decoder is at a place of   *)
(* the stream as it was laid.                                              *)
THEOREM FileListIsInductive == Spec => []FileListInv
<1>1. Init => FileListInv
  BY InvInit
<1>2. FileListInv /\ [Next]_vars => FileListInv'
  BY ReadRuleKeeps, OpenPathKeeps, EncodeEntryKeeps, ClosePathKeeps, SendListKeeps, ClientEntryKeeps,
     ClientListKeeps, CutKeeps, ReceiveKeeps, InvStays DEF Next, Send, Stops
<1> QED BY <1>1, <1>2, PTL DEF Spec

-----------------------------------------------------------------------------
(* What follows from it.                                                   *)

(* The types follow from the invariant.                                    *)
LEMMA InvTypeOK ==
  ASSUME FileListInv
  PROVE  TypeOK
<1>1. Encoder /\ DecoderTypes
  BY DEF FileListInv
<1>2. ASSUME NEW e \in ToSet(fileList) \cup {f, last}
      PROVE  e \in Info /\ Len(e.name) < PathMax /\ e.time \in -TimeLimit .. TimeLimit - 1
  <2>1. e \in Received
    <3>1. f \in Received /\ last \in Received /\ fileList \in Seq(Received)
      BY <1>1 DEF DecoderTypes
    <3>2. CASE e \in ToSet(fileList)
      <4>1. PICK i \in DOMAIN fileList : e = fileList[i]
        BY <3>2 DEF ToSet
      <4> QED BY <3>1, <4>1, ElementOfSeq
    <3> QED BY <1>2, <3>1, <3>2
  <2> QED BY <2>1 DEF Received
<1> QED BY <1>1, <1>2 DEF TypeOK, Encoder, DecoderTypes

(* A list that was read to its end was sent.                               *)
LEMMA InvDone ==
  ASSUME FileListInv, at \in Over
  PROVE  /\ pc # "sent" => at = "err" /\ pc \in {"failed", "panic"}
         /\ at = "err" => cut \/ LongName \/ Disagree \/ pc \in {"failed", "panic"}
         /\ at = "lost" => Disagree
         /\ at = "done" => /\ in = <<>> /\ ioErrors = Last(fec).v /\ files \in Sorted(encoded)
                           /\ Right => fileList \in Sorted([i \in DOMAIN encoded |-> Decoded(encoded[i])])
<1>1. CASE pc # "sent"
  BY <1>1 DEF FileListInv, Waiting, Over
<1>2. CASE pc = "sent"
  <2>1. PICK R, A, T, n : Stream(R, A, T, n) /\ Place(R, A, T, n)
    BY <1>2 DEF FileListInv, Sent
  <2>2. n = Last(fec).v
    BY <2>1 DEF Stream, Field
  <2>3. files \in Sorted(encoded)
    BY <1>2 DEF FileListInv, Encoder
  <2>4. /\ at = "err" => cut \/ LongName \/ Disagree
        /\ at = "lost" => Disagree
        /\ at = "done" => /\ in = <<>> /\ ioErrors = n
                          /\ Right => fileList \in Sorted([i \in DOMAIN encoded |-> Decoded(encoded[i])])
    BY <2>1, PlaceOver
  <2> QED BY <1>2, <2>2, <2>3, <2>4
<1> QED BY <1>1, <1>2

(* So do the causes of a failure.                                          *)
LEMMA InvBreaksForCause ==
  ASSUME FileListInv
  PROVE  BreaksForCause
<1>1. "err" \in Over /\ "lost" \in Over
  BY DEF Over
<1> QED BY <1>1, InvDone DEF BreaksForCause, LongName

(* So does the list that was decoded.                                      *)
LEMMA InvListDecoded ==
  ASSUME FileListInv
  PROVE  ListDecoded
<1>1. "done" \in Over
  BY DEF Over
<1> QED BY <1>1, InvDone DEF ListDecoded, Right

(* So does the end of the stream.                                          *)
LEMMA InvNothingLeft ==
  ASSUME FileListInv
  PROVE  NothingLeft
<1>1. "done" \in Over
  BY DEF Over
<1> QED BY <1>1, InvDone DEF NothingLeft

(* Lists of the same names, each sorted, have the same names in the same   *)
(* places.                                                                 *)
LEMMA SameOrder ==
  ASSUME NEW c, c \in Seq(Info), NEW d, d \in Seq(Info), Len(c) = Len(d),
         \A i \in 1 .. Len(c) : c[i].name = d[i].name,
         \A i, j \in 1 .. Len(c) : c[i].name = c[j].name => i = j,
         NEW u, u \in Sorted(c), NEW v, v \in Sorted(d)
  PROVE  /\ Len(u) = Len(c) /\ Len(v) = Len(c) /\ DOMAIN u = 1 .. Len(c)
         /\ \A i \in 1 .. Len(c) : u[i].name = v[i].name
<1>1. PICK N \in Nat : N = Len(c)
  OBVIOUS
<1>2. PICK g : InOrder(u, c, g)
  BY SortedIs
<1>3. PICK h : InOrder(v, d, h)
  BY SortedIs
<1>12. /\ g \in [1 .. N -> 1 .. N] /\ \A i \in 1 .. N : u[i] = c[g[i]]
       /\ \A i, j \in 1 .. N : i < j => g[i] # g[j] /\ ~Less(c[g[j]].name, c[g[i]].name)
  BY <1>1, <1>2 DEF InOrder
<1>13. /\ h \in [1 .. N -> 1 .. N] /\ \A i \in 1 .. N : v[i] = d[h[i]]
       /\ \A i, j \in 1 .. N : i < j => h[i] # h[j] /\ ~Less(d[h[j]].name, d[h[i]].name)
  <2>1. Len(d) = N
    BY <1>1
  <2> QED BY <1>3, <2>1 DEF InOrder
<1>4. PICK w \in [1 .. N -> Seq(Nat)] : \A i \in 1 .. N : w[i] = c[i].name
  <2>3. \A i \in 1 .. N : c[i] \in Info
    BY <1>1
  <2>1. \A i \in 1 .. N : c[i].name \in Seq(Nat)
    BY <2>3 DEF Info
  <2>2. [i \in 1 .. N |-> c[i].name] \in [1 .. N -> Seq(Nat)]
    BY <2>1
  <2> QED BY <2>2
<1>5. \A i, j \in 1 .. N : w[i] = w[j] => i = j
  BY <1>1, <1>4
<1>6. \A i \in 1 .. N : c[g[i]].name = w[g[i]] /\ d[h[i]].name = w[h[i]]
  BY <1>1, <1>4, <1>12, <1>13
<1>7. \A i, j \in 1 .. N : i < j => g[i] # g[j] /\ ~Less(w[g[j]], w[g[i]])
  BY <1>6, <1>12
<1>8. \A i, j \in 1 .. N : i < j => h[i] # h[j] /\ ~Less(w[h[j]], w[h[i]])
  BY <1>6, <1>13
<1>9. \A i \in 1 .. N : g[i] = h[i]
  <2>1. Differ(N, w)
    BY <1>5 DEF Differ
  <2>2. Ascends(N, w, g) /\ Ascends(N, w, h)
    BY <1>7, <1>8, <1>12, <1>13 DEF Ascends
  <2>3. Differ(N, w) /\ Ascends(N, w, g) /\ Ascends(N, w, h) => \A i \in 1 .. N : g[i] = h[i]
    BY ONLY SortedAlike, N \in Nat, w \in [1 .. N -> Seq(Nat)]
  <2> QED BY ONLY <2>1, <2>2, <2>3
<1>10. u \in Seq(Info) /\ Len(u) = N /\ Len(v) = N
  BY <1>1, SortedIs
<1>11. ASSUME NEW i \in 1 .. N PROVE u[i].name = v[i].name
  <2>1. u[i] = c[g[i]] /\ v[i] = d[h[i]]
    BY <1>12, <1>13
  <2>2. c[g[i]].name = w[g[i]] /\ d[h[i]].name = w[h[i]] /\ g[i] = h[i]
    BY <1>6, <1>9
  <2> QED BY <2>1, <2>2
<1> QED BY <1>1, <1>10, <1>11

(* So does the agreement of the indices: names that differ have one order. *)
LEMMA InvIndexAgrees ==
  ASSUME FileListInv
  PROVE  IndexAgrees
<1> DEFINE names == {e.name : e \in ToSet(encoded)}
<1> SUFFICES ASSUME at = "done", ~Disagree, Cardinality(names) = Len(encoded), \A n \in names : Clean(n) = n
             PROVE  /\ Len(files) = Len(fileList)
                    /\ \A i \in DOMAIN files : files[i].name = fileList[i].name
  BY DEF IndexAgrees
<1>1. ASSUME NEW e \in ToSet(encoded) PROVE Clean(e.name) = e.name
  <2>1. e.name \in names
    BY <1>1
  <2> QED BY <2>1
<1>2. at \in Over /\ Right
  BY <1>1 DEF Over, Right
<1>3. PICK s \in Seq(Info) : s = encoded
  BY DEF FileListInv, Encoder
<1>4. \A i, j \in 1 .. Len(s) : s[i].name = s[j].name => i = j
  BY <1>3, NamesDiffer
<1> HIDE DEF names
<1>5. PICK t : t = [i \in 1 .. Len(s) |-> Decoded(s[i])]
  OBVIOUS
<1>6. files \in Sorted(s) /\ fileList \in Sorted(t)
  <2>1. DOMAIN encoded = 1 .. Len(s)
    BY <1>3
  <2> QED BY <1>2, <1>3, <1>5, <2>1, InvDone
<1>7. \A i \in 1 .. Len(s) : s[i] \in Info /\ Clean(s[i].name) = s[i].name
  BY <1>1, <1>3 DEF ToSet
<1>8. t \in Seq(Info) /\ Len(s) = Len(t) /\ \A i \in 1 .. Len(s) : s[i].name = t[i].name
  <2>1. \A i \in 1 .. Len(s) : Decoded(s[i]) \in Info /\ Decoded(s[i]).name = Clean(s[i].name)
    BY <1>7, DecodedIsInfo, DecodedIs
  <2>2. t \in [1 .. Len(s) -> Info] /\ Len(s) \in Nat
    BY <1>5, <2>1
  <2>3. t \in Seq(Info) /\ Len(s) = Len(t)
    BY <2>2, OfLength
  <2> QED BY <1>5, <1>7, <2>1, <2>3
<1>9. PICK x, y : x = files /\ y = fileList
  OBVIOUS
<1>10. /\ Len(x) = Len(s) /\ Len(y) = Len(s) /\ DOMAIN x = 1 .. Len(s)
       /\ \A i \in 1 .. Len(s) : x[i].name = y[i].name
  BY <1>4, <1>6, <1>8, <1>9, SameOrder
<1> QED BY <1>9, <1>10

(* Every decoded entry is an entry, its name is shorter than PATH_MAX and  *)
(* its time an int32 (receiveFileEntry).                                   *)
THEOREM FileListTypes == Spec => []TypeOK
BY FileListIsInductive, InvTypeOK, PTL

(* ReceiveFileList loses its place only where the formats disagree, and    *)
(* fails only when the stream ends early, a name is too long or nothing    *)
(* was sent.                                                               *)
THEOREM FileListBreaksForCause == Spec => []BreaksForCause
BY FileListIsInductive, InvBreaksForCause, PTL

(* A list that ReceiveFileList reads to its end is the list that           *)
(* SendFileList or the client wrote, sorted, with the sender's I/O error   *)
(* flag.                                                                   *)
THEOREM FileListDecoded == Spec => []ListDecoded
BY FileListIsInductive, InvListDecoded, PTL

(* After both sides sorted (Do of the sender and of the receiver), the     *)
(* same index names the same file.                                         *)
THEOREM FileListIndexAgrees == Spec => []IndexAgrees
BY FileListIsInductive, InvIndexAgrees, PTL

(* ReceiveFileList leaves nothing of the list in the stream.               *)
THEOREM FileListNothingLeft == Spec => []NothingLeft
BY FileListIsInductive, InvNothingLeft, PTL
=============================================================================
