--------------------------- MODULE OptionsProofs ---------------------------
(***************************************************************************)
(* Proofs about Options, for every set of command lines, every set of      *)
(* integers and levels, and both forms of the table.                       *)
(*                                                                         *)
(* The parser is always at a place of the line: before a word that was not *)
(* taken as a text, or behind a letter of a cluster.  What an option takes *)
(* moves it to the next place, over one option that is given and over no   *)
(* operand, so that what remains and what the switches are can be said by  *)
(* the place.  What is known of the tables is known of each row: which     *)
(* kind of option may set which field.                                     *)
(***************************************************************************)
EXTENDS Options, Induction, FiniteSetTheorems, SequenceTheorems, TLAPS

-----------------------------------------------------------------------------
(* Which words are swallowed.                                              *)

WordType == [dashes : Nat, chars : Seq(STRING)]

(* A name means one option at most.                                        *)
LEMMA OneOption ==
  ASSUME NEW t
  PROVE  /\ \A w : \A r, s \in LongOption(t, w) : r = s
         /\ \A c : \A r, s \in ShortOption(t, c) : r = s
BY DEF LongOption, ShortOption

(* Whether a word is swallowed depends on the word before it.              *)
LEMMA SwallowedNext ==
  ASSUME NEW t, line \in Seq(WordType), NEW i \in 1 .. Len(line)
  PROVE  /\ i = 1 => i \notin Swallowed(t)
         /\ i > 1 => (i \in Swallowed(t) <=> Asks(t, line[i - 1]) /\ i - 1 \notin Swallowed(t))
<1> DEFINE S(n) == {j \in 1 .. n - 1 : \A m \in j .. n - 1 : Asks(t, line[m])}
<1>1. \A n \in 1 .. Len(line) : IsFiniteSet(S(n)) /\ Cardinality(S(n)) \in Nat
  <2> TAKE n \in 1 .. Len(line)
  <2>1. IsFiniteSet(1 .. n - 1)
    BY FS_Interval
  <2>2. S(n) \in SUBSET (1 .. n - 1)
    OBVIOUS
  <2>3. IsFiniteSet(S(n))
    BY <2>1, <2>2, FS_Subset
  <2> QED BY <2>3, FS_CardinalityType
<1>2. \A n \in 1 .. Len(line) : n \in Swallowed(t) <=> Cardinality(S(n)) % 2 = 1
  BY DEF Swallowed
<1>3. CASE i = 1
  <2>1. S(1) = {}
    OBVIOUS
  <2>2. Cardinality(S(1)) = 0
    BY <2>1, FS_EmptySet
  <2> HIDE DEF S
  <2> QED BY <1>2, <1>3, <2>2
<1>4. CASE i > 1 /\ ~Asks(t, line[i - 1])
  <2>1. S(i) = {}
    BY <1>4
  <2>2. Cardinality(S(i)) = 0
    BY <2>1, FS_EmptySet
  <2> HIDE DEF S
  <2> QED BY <1>2, <1>4, <2>2
<1>5. CASE i > 1 /\ Asks(t, line[i - 1])
  <2>1. i - 1 \in 1 .. Len(line) /\ i - 1 \notin S(i - 1)
    BY <1>5
  <2>2. S(i) = S(i - 1) \cup {i - 1}
    <3>1. ASSUME NEW j \in S(i) PROVE j \in S(i - 1) \cup {i - 1}
      OBVIOUS
    <3>2. ASSUME NEW j \in S(i - 1) PROVE j \in S(i)
      <4>1. j \in 1 .. i - 1 /\ \A m \in j .. i - 2 : Asks(t, line[m])
        OBVIOUS
      <4>2. \A m \in j .. i - 1 : m \in j .. i - 2 \/ m = i - 1
        BY <4>1
      <4> QED BY <1>5, <4>1, <4>2
    <3>3. i - 1 \in S(i)
      <4>1. \A m \in i - 1 .. i - 1 : m = i - 1
        OBVIOUS
      <4> QED BY <1>5, <4>1
    <3> QED BY <3>1, <3>2, <3>3
  <2> HIDE DEF S
  <2>3. Cardinality(S(i)) = Cardinality(S(i - 1)) + 1
    BY <1>1, <2>1, <2>2, FS_AddElement
  <2>4. \A c \in Nat : (c + 1) % 2 = 1 <=> c % 2 # 1
    OBVIOUS
  <2>5. Cardinality(S(i)) % 2 = 1 <=> Cardinality(S(i - 1)) % 2 # 1
    BY <1>1, <2>1, <2>3, <2>4
  <2> QED BY <1>2, <1>5, <2>1, <2>5
<1> QED BY <1>3, <1>4, <1>5

-----------------------------------------------------------------------------
(* Places.                                                                 *)

(* The parser is before the word m.                                        *)
AtWord(ar, cl, m) ==
  /\ m \in 1 .. Len(line) + 1 /\ m \notin Swallowed(table)
  /\ cl = <<>> /\ ar = SubSeq(line, m, Len(line))

(* It is in the word m, a cluster of which it has read k letters.          *)
AtLetter(ar, cl, m, k) ==
  /\ m \in 1 .. Len(line) /\ m \notin Swallowed(table)
  /\ k \in 1 .. Len(line[m].chars) - 1
  /\ IsOption(line[m]) /\ LongOption(table, line[m]) = {}
  /\ \A j \in 1 .. k : \A r \in ShortOption(table, line[m].chars[j]) : ~Takes(r)
  /\ cl = SubSeq(line[m].chars, k + 1, Len(line[m].chars))
  /\ ar = SubSeq(line, m + 1, Len(line))

At(ar, cl, m, k) == (k = 0 /\ AtWord(ar, cl, m)) \/ AtLetter(ar, cl, m, k)

Behind(h, m, k) == h[1] < m \/ (h[1] = m /\ h[2] <= k)

(* The options between are those at k + 1 in m.                            *)
Reads(m, k, n, l) ==
  \A h \in Given(table) : Behind(h, n, l) <=> Behind(h, m, k) \/ h = <<m, k + 1>>

(* What is left of a sequence behind one of its places.                    *)
LEMMA Rest ==
  ASSUME NEW S, NEW s \in Seq(S), NEW n \in 1 .. Len(s)
  PROVE  /\ SubSeq(s, n, Len(s)) \in Seq(S) /\ SubSeq(s, n, Len(s)) # <<>>
         /\ Head(SubSeq(s, n, Len(s))) = s[n]
         /\ Tail(SubSeq(s, n, Len(s))) = SubSeq(s, n + 1, Len(s))
         /\ SubSeq(s, n + 1, Len(s)) \in Seq(S)
         /\ SubSeq(s, n + 1, Len(s)) = <<>> <=> n = Len(s)
<1>1. /\ SubSeq(s, n, Len(s)) \in Seq(S) /\ Len(SubSeq(s, n, Len(s))) = Len(s) - n + 1
      /\ SubSeq(s, n + 1, Len(s)) \in Seq(S) /\ Len(SubSeq(s, n + 1, Len(s))) = Len(s) - n
  BY SubSeqProperties
<1>2. Head(SubSeq(s, n, Len(s))) = s[n]
  BY <1>1
<1>3. Tail(SubSeq(s, n, Len(s))) = SubSeq(s, n + 1, Len(s))
  BY <1>1
<1>4. \A q \in Seq(S) : q = <<>> <=> Len(q) = 0
  BY EmptySeq
<1>5. Len(s) - n + 1 # 0 /\ (Len(s) - n = 0 <=> n = Len(s))
  OBVIOUS
<1>6. SubSeq(s, n, Len(s)) # <<>>
  BY <1>1, <1>4, <1>5
<1>7. SubSeq(s, n + 1, Len(s)) = <<>> <=> n = Len(s)
  BY <1>1, <1>4, <1>5
<1> QED BY <1>1, <1>2, <1>3, <1>6, <1>7

(* The option that comes next.                                             *)
LEMMA FoundIs ==
  ASSUME line \in Seq(WordType), NEW m, NEW k, At(args, cluster, m, k), OptionNext, NEW f \in Found
  PROVE  /\ m \in 1 .. Len(line) /\ k \in Nat /\ m \notin Swallowed(table) /\ IsOption(line[m])
         /\ \/ /\ k = 0 /\ f.row \in LongOption(table, line[m])
               /\ f.text = After(line[m]) /\ f.cluster = <<>>
            \/ /\ LongOption(table, line[m]) = {} /\ k + 1 \in 1 .. Len(line[m].chars)
               /\ \A j \in 1 .. k : \A r \in ShortOption(table, line[m].chars[j]) : ~Takes(r)
               /\ f.row \in ShortOption(table, line[m].chars[k + 1]) /\ f.text = <<>>
               /\ f.cluster = SubSeq(line[m].chars, k + 2, Len(line[m].chars))
         /\ f.args = SubSeq(line, m + 1, Len(line))
<1>1. CASE k = 0 /\ AtWord(args, cluster, m)
  <2>1. cluster = <<>> /\ args # <<>> /\ IsOption(Head(args))
    BY <1>1 DEF AtWord, OptionNext
  <2>2. m \in 1 .. Len(line) /\ m \notin Swallowed(table) /\ args = SubSeq(line, m, Len(line))
    <3>1. m \in 1 .. Len(line) + 1 /\ m \notin Swallowed(table) /\ args = SubSeq(line, m, Len(line))
      BY <1>1 DEF AtWord
    <3>2. m # Len(line) + 1
      <4>1. SubSeq(line, Len(line) + 1, Len(line)) = <<>>
        OBVIOUS
      <4> QED BY <2>1, <3>1, <4>1
    <3> QED BY <3>1, <3>2
  <2>3. Head(args) = line[m] /\ Tail(args) = SubSeq(line, m + 1, Len(line)) /\ line[m] \in WordType
    BY <2>2, Rest
  <2>4. CASE LongOption(table, line[m]) # {}
    <3>1. /\ f.row \in LongOption(table, line[m]) /\ f.text = After(line[m]) /\ f.cluster = <<>>
          /\ f.args = Tail(args)
      BY <2>1, <2>3, <2>4 DEF Found
    <3> QED BY <1>1, <2>1, <2>2, <2>3, <3>1
  <2>5. CASE LongOption(table, line[m]) = {}
    <3>1. /\ line[m].dashes = 1
          /\ f.row \in ShortOption(table, Head(line[m].chars)) /\ f.text = <<>>
          /\ f.cluster = Tail(line[m].chars) /\ f.args = Tail(args)
      <4>1. Found = IF line[m].dashes = 1
                    THEN {[row |-> r, text |-> <<>>, cluster |-> Tail(line[m].chars), args |-> Tail(args)] :
                            r \in ShortOption(table, Head(line[m].chars))}
                    ELSE {}
        BY <2>1, <2>3, <2>5, Zenon DEF Found
      <4>2. PICK r \in ShortOption(table, Head(line[m].chars)) :
              f = [row |-> r, text |-> <<>>, cluster |-> Tail(line[m].chars), args |-> Tail(args)]
        BY <4>1
      <4>3. line[m].dashes = 1
        BY <4>1
      <4> QED BY <4>2, <4>3
    <3>2. line[m].chars # <<>> /\ line[m].chars \in Seq(STRING)
      <4>1. line[m].chars \in Seq(STRING)
        BY <2>3 DEF WordType
      <4>2. IsOption(line[m])
        BY <2>1, <2>3
      <4> QED BY <3>1, <4>1, <4>2 DEF IsOption
    <3>3. 1 \in 1 .. Len(line[m].chars) /\ Head(line[m].chars) = line[m].chars[1]
      BY <3>2
    <3>4. Tail(line[m].chars) = SubSeq(line[m].chars, 2, Len(line[m].chars))
      BY <3>2
    <3>5. \A j \in 1 .. 0 : FALSE
      OBVIOUS
    <3> QED BY <1>1, <2>1, <2>2, <2>3, <2>5, <3>1, <3>3, <3>4, <3>5
  <2> QED BY <2>4, <2>5
<1>2. CASE AtLetter(args, cluster, m, k)
  <2>1. /\ m \in 1 .. Len(line) /\ m \notin Swallowed(table)
        /\ k \in 1 .. Len(line[m].chars) - 1
        /\ IsOption(line[m]) /\ LongOption(table, line[m]) = {}
        /\ \A j \in 1 .. k : \A r \in ShortOption(table, line[m].chars[j]) : ~Takes(r)
        /\ cluster = SubSeq(line[m].chars, k + 1, Len(line[m].chars))
        /\ args = SubSeq(line, m + 1, Len(line))
    BY <1>2 DEF AtLetter
  <2>2. line[m].chars \in Seq(STRING)
    <3>1. line[m] \in WordType
      BY <2>1
    <3> QED BY <3>1 DEF WordType
  <2>3. k + 1 \in 1 .. Len(line[m].chars)
    BY <2>1, <2>2
  <2>4. /\ cluster # <<>> /\ Head(cluster) = line[m].chars[k + 1]
        /\ Tail(cluster) = SubSeq(line[m].chars, (k + 1) + 1, Len(line[m].chars))
    BY <2>1, <2>2, <2>3, Rest
  <2>5. /\ f.row \in ShortOption(table, Head(cluster)) /\ f.text = <<>>
        /\ f.cluster = Tail(cluster) /\ f.args = args
    BY <2>4 DEF Found
  <2>6. (k + 1) + 1 = k + 2 /\ k \in Nat
    BY <2>1
  <2> QED BY <2>1, <2>3, <2>4, <2>5, <2>6
<1> QED BY <1>1, <1>2 DEF At

-----------------------------------------------------------------------------
(* Reading.                                                                *)

(* An option that is given is at a place of a word that was not taken.     *)
LEMMA GivenIs ==
  ASSUME NEW t
  PROVE  /\ \A i, j : <<i, j>> \in Given(t) <=>
                      i \in 1 .. Len(line) /\ i \notin Swallowed(t) /\ j \in Places(t, line[i])
         /\ \A g \in Given(t) : g = <<g[1], g[2]>>
         /\ \A w : Places(t, w) \subseteq Nat \ {0}
<1>1. \A w : Places(t, w) \subseteq Nat \ {0}
  BY DEF Places
<1>2. \A i, j : <<i, j>> \in Given(t) <=>
                i \in 1 .. Len(line) /\ i \notin Swallowed(t) /\ j \in Places(t, line[i])
  BY DEF Given
<1>3. \A g \in Given(t) : g = <<g[1], g[2]>>
  BY DEF Given
<1> QED BY <1>1, <1>2, <1>3

(* The options between two places of the parser.                           *)
LEMMA ReadsIs ==
  ASSUME NEW m \in Nat, NEW k \in Nat, NEW n \in Nat, NEW l \in Nat,
         \/ n = m /\ l = k + 1
         \/ /\ n > m /\ l = 0 /\ \A i \in m + 1 .. n - 1 : i \in Swallowed(table)
            /\ \A j \in Places(table, line[m]) : j <= k + 1
  PROVE  Reads(m, k, n, l)
<1> SUFFICES ASSUME NEW h \in Given(table)
             PROVE  Behind(h, n, l) <=> Behind(h, m, k) \/ h = <<m, k + 1>>
  BY DEF Reads
<1>1. PICK i, j : h = <<i, j>> /\ i \in 1 .. Len(line) /\ i \notin Swallowed(table) /\ j \in Places(table, line[i])
  BY GivenIs
<1>2. i \in Nat /\ j \in Nat \ {0}
  BY <1>1, GivenIs
<1>3. \A a, b : Behind(h, a, b) <=> i < a \/ (i = a /\ j <= b)
  BY <1>1 DEF Behind
<1>4. h = <<m, k + 1>> <=> i = m /\ j = k + 1
  BY <1>1
<1>5. CASE n = m /\ l = k + 1
  BY <1>2, <1>3, <1>4, <1>5
<1>6. CASE n > m /\ l = 0
  <2>1. i \notin m + 1 .. n - 1
    BY <1>1, <1>6
  <2>2. i = m => j <= k + 1
    BY <1>1, <1>6
  <2> QED BY <1>2, <1>3, <1>4, <1>6, <2>1, <2>2
<1> QED BY <1>5, <1>6

(* Where the parser goes on in a cluster, ...                              *)
Goes(ar, cl, m, k, n, l) ==
  /\ At(ar, cl, n, l) /\ Reads(m, k, n, l) /\ n >= m /\ n \in Nat
  /\ n = m => l > 0
  /\ \A i \in m + 1 .. n - 1 : i \in Swallowed(table)

(* ... after a word, ...                                                   *)
LEMMA WordRead ==
  ASSUME line \in Seq(WordType), NEW m \in 1 .. Len(line), NEW k \in Nat, m \notin Swallowed(table),
         ~Asks(table, line[m]), \A j \in Places(table, line[m]) : j <= k + 1
  PROVE  Goes(SubSeq(line, m + 1, Len(line)), <<>>, m, k, m + 1, 0)
<1>1. m + 1 \in 1 .. Len(line) + 1 /\ m + 1 > m /\ m \in Nat /\ m + 1 \in Nat
  OBVIOUS
<1>2. m + 1 \notin Swallowed(table)
  <2>1. CASE m + 1 \in 1 .. Len(line)
    <3>1. m + 1 > 1 /\ (m + 1) - 1 = m
      OBVIOUS
    <3> QED BY <2>1, <3>1, SwallowedNext
  <2>2. CASE m + 1 \notin 1 .. Len(line)
    BY <2>2 DEF Swallowed
  <2> QED BY <2>1, <2>2
<1>3. At(SubSeq(line, m + 1, Len(line)), <<>>, m + 1, 0)
  BY <1>1, <1>2 DEF At, AtWord
<1>4. \A i \in m + 1 .. (m + 1) - 1 : FALSE
  BY <1>1
<1>5. Reads(m, k, m + 1, 0)
  BY <1>1, <1>4, ReadsIs
<1> QED BY <1>1, <1>3, <1>4, <1>5 DEF Goes

(* ... and after a word and the next one, which was its text.              *)
LEMMA TwoWordsRead ==
  ASSUME line \in Seq(WordType), NEW m \in 1 .. Len(line), NEW k \in Nat, m \notin Swallowed(table),
         Asks(table, line[m]), \A j \in Places(table, line[m]) : j <= k + 1, m < Len(line)
  PROVE  Goes(SubSeq(line, m + 2, Len(line)), <<>>, m, k, m + 2, 0)
<1>1. m + 2 \in 1 .. Len(line) + 1 /\ m + 2 > m /\ m \in Nat /\ m + 2 \in Nat /\ m + 1 \in 1 .. Len(line)
  OBVIOUS
<1>2. m + 1 \in Swallowed(table)
  <2>1. m + 1 > 1 /\ (m + 1) - 1 = m
    OBVIOUS
  <2> QED BY <1>1, <2>1, SwallowedNext
<1>3. m + 2 \notin Swallowed(table)
  <2>1. CASE m + 2 \in 1 .. Len(line)
    <3>1. m + 2 > 1 /\ (m + 2) - 1 = m + 1
      OBVIOUS
    <3> QED BY <1>2, <2>1, <3>1, SwallowedNext
  <2>2. CASE m + 2 \notin 1 .. Len(line)
    BY <2>2 DEF Swallowed
  <2> QED BY <2>1, <2>2
<1>4. At(SubSeq(line, m + 2, Len(line)), <<>>, m + 2, 0)
  BY <1>1, <1>3 DEF At, AtWord
<1>5. \A i \in m + 1 .. (m + 2) - 1 : i \in Swallowed(table)
  <2>1. \A i \in m + 1 .. (m + 2) - 1 : i = m + 1
    BY <1>1
  <2> QED BY <1>2, <2>1
<1>6. Reads(m, k, m + 2, 0)
  BY <1>1, <1>5, ReadsIs
<1> QED BY <1>1, <1>4, <1>5, <1>6 DEF Goes

(* What an option leaves to be read.                                       *)
Leaves(f, ar, cl) ==
  \/ ~Takes(f.row) /\ f.text = <<>> /\ ar = f.args /\ cl = f.cluster
  \/ /\ Takes(f.row) /\ ~(f.text = <<>> /\ f.cluster = <<>> /\ f.args = <<>>)
     /\ ar = Argument(f).args /\ cl = <<>>

(* An option that is read is the next one of those given.                  *)
LEMMA OptionRead ==
  ASSUME line \in Seq(WordType), NEW m, NEW k, At(args, cluster, m, k), OptionNext, NEW f \in Found,
         NEW ar, NEW cl, Leaves(f, ar, cl)
  PROVE  /\ <<m, k + 1>> \in Given(table) /\ OptionsAt(table, <<m, k + 1>>) = {f.row}
         /\ IsOption(line[m])
         /\ \E n, l : Goes(ar, cl, m, k, n, l)
<1>1. /\ m \in 1 .. Len(line) /\ k \in Nat /\ m \notin Swallowed(table) /\ IsOption(line[m])
      /\ f.args = SubSeq(line, m + 1, Len(line))
  BY FoundIs
<1>2. /\ line[m] \in WordType /\ line[m].chars \in Seq(STRING) /\ m \in Nat
      /\ Tail(f.args) = SubSeq(line, m + 2, Len(line)) \/ f.args = <<>>
      /\ f.args = <<>> <=> m = Len(line)
  <2>1. line[m] \in WordType
    BY <1>1
  <2>2. line[m].chars \in Seq(STRING)
    BY <2>1 DEF WordType
  <2>3. f.args = <<>> <=> m = Len(line)
    BY <1>1, Rest
  <2>4. ASSUME m < Len(line) PROVE Tail(f.args) = SubSeq(line, m + 2, Len(line))
    <3>1. m + 1 \in 1 .. Len(line) /\ (m + 1) + 1 = m + 2
      BY <1>1, <2>4
    <3> QED BY <1>1, <3>1, Rest
  <2>5. m < Len(line) \/ f.args = <<>>
    BY <1>1, <2>3
  <2>6. m \in Nat
    BY <1>1
  <2>7. Tail(f.args) = SubSeq(line, m + 2, Len(line)) \/ f.args = <<>>
    BY <2>4, <2>5
  <2> QED BY <2>1, <2>2, <2>3, <2>6, <2>7, Zenon
<1>3. CASE k = 0 /\ f.row \in LongOption(table, line[m]) /\ f.text = After(line[m]) /\ f.cluster = <<>>
  <2>1. Places(table, line[m]) = {1}
    BY <1>1, <1>3 DEF Places
  <2>2. <<m, k + 1>> \in Given(table)
    BY <1>1, <1>3, <2>1, GivenIs
  <2>3. OptionsAt(table, <<m, k + 1>>) = {f.row}
    BY <1>3, OneOption DEF OptionsAt
  <2>4. Asks(table, line[m]) <=> After(line[m]) = <<>> /\ Takes(f.row)
    BY <1>1, <1>3, OneOption DEF Asks
  <2>5. \A j \in Places(table, line[m]) : j <= k + 1
    BY <1>3, <2>1
  <2>6. CASE Asks(table, line[m])
    <3>1. /\ Takes(f.row) /\ f.args # <<>> /\ cl = <<>>
          /\ ar = Tail(f.args)
      BY <1>3, <2>4, <2>6 DEF Leaves, Argument
    <3>4. m # Len(line) /\ Tail(f.args) = SubSeq(line, m + 2, Len(line))
      BY <1>2, <3>1
    <3>5. m < Len(line)
      BY <1>1, <3>4
    <3>2. m < Len(line) /\ ar = SubSeq(line, m + 2, Len(line))
      BY <3>1, <3>4, <3>5
    <3>3. Goes(ar, cl, m, k, m + 2, 0)
      BY <1>1, <2>5, <2>6, <3>1, <3>2, TwoWordsRead
    <3> QED BY <1>1, <2>2, <2>3, <3>3
  <2>7. CASE ~Asks(table, line[m])
    <3>1. cl = <<>> /\ ar = f.args
      BY <1>3, <2>4, <2>7 DEF Leaves, Argument
    <3>2. Goes(ar, cl, m, k, m + 1, 0)
      BY <1>1, <2>5, <2>7, <3>1, WordRead
    <3> QED BY <1>1, <2>2, <2>3, <3>2
  <2> QED BY <2>6, <2>7
<1>4. CASE /\ LongOption(table, line[m]) = {} /\ k + 1 \in 1 .. Len(line[m].chars)
           /\ \A j \in 1 .. k : \A r \in ShortOption(table, line[m].chars[j]) : ~Takes(r)
           /\ f.row \in ShortOption(table, line[m].chars[k + 1]) /\ f.text = <<>>
           /\ f.cluster = SubSeq(line[m].chars, k + 2, Len(line[m].chars))
  <2> DEFINE N == Len(line[m].chars)
             T(j) == \E r \in ShortOption(table, line[m].chars[j]) : Takes(r)
  <2>1. Places(table, line[m]) = {j \in 1 .. N : \A i \in 1 .. j - 1 : ~T(i)}
    BY <1>1, <1>4 DEF Places
  <2>2. Asks(table, line[m]) <=> \A j \in 1 .. N : T(j) <=> j = N
    BY <1>1, <1>4 DEF Asks
  <2>3. T(k + 1) <=> Takes(f.row)
    BY <1>4, OneOption
  <2>4. (\A j \in 1 .. k : ~T(j)) /\ k + 1 \in 1 .. N /\ N \in Nat
    BY <1>2, <1>4
  <2>5. OptionsAt(table, <<m, k + 1>>) = {f.row}
    BY <1>4, OneOption DEF OptionsAt
  <2>6. f.cluster = <<>> <=> k + 1 = N
    <3>1. (k + 1) + 1 = k + 2
      BY <1>1
    <3>2. PICK s : s = line[m].chars
      OBVIOUS
    <3>3. s \in Seq(STRING) /\ k + 1 \in 1 .. Len(s)
      BY <1>2, <2>4, <3>2
    <3>4. SubSeq(s, (k + 1) + 1, Len(s)) = <<>> <=> k + 1 = Len(s)
      BY <3>3, Rest
    <3> QED BY <1>4, <3>1, <3>2, <3>4
  <2> HIDE DEF N, T
  <2>7. k + 1 \in Places(table, line[m])
    <3>1. \A i \in 1 .. (k + 1) - 1 : i \in 1 .. k
      BY <1>1
    <3> QED BY <2>1, <2>4, <3>1
  <2>8. <<m, k + 1>> \in Given(table)
    BY <1>1, <2>7, GivenIs
  <2>9. T(k + 1) \/ k + 1 = N => \A j \in Places(table, line[m]) : j <= k + 1
    <3> SUFFICES ASSUME T(k + 1) \/ k + 1 = N, NEW j \in Places(table, line[m]), ~(j <= k + 1)
                 PROVE  FALSE
      OBVIOUS
    <3>1. j \in 1 .. N /\ \A i \in 1 .. j - 1 : ~T(i)
      BY <2>1
    <3>2. k + 1 \in 1 .. j - 1 /\ k + 1 # N
      BY <1>1, <2>4, <3>1
    <3> QED BY <3>1, <3>2
  <2>10. CASE Takes(f.row) /\ f.cluster = <<>>
    <3>1. Asks(table, line[m])
      <4>1. \A j \in 1 .. N : j \in 1 .. k \/ j = N
        BY <1>1, <2>4, <2>6, <2>10
      <4>2. N \notin 1 .. k
        BY <1>1, <2>4, <2>6, <2>10
      <4> QED BY <2>2, <2>3, <2>4, <2>6, <2>10, <4>1, <4>2
    <3>2. f.args # <<>> /\ cl = <<>> /\ ar = Tail(f.args)
      BY <1>4, <2>10 DEF Leaves, Argument
    <3>3. m < Len(line) /\ ar = SubSeq(line, m + 2, Len(line))
      BY <1>1, <1>2, <3>2
    <3>4. Goes(ar, cl, m, k, m + 2, 0)
      BY <1>1, <2>3, <2>9, <2>10, <3>1, <3>2, <3>3, TwoWordsRead
    <3> QED BY <1>1, <2>5, <2>8, <3>4
  <2>11. CASE (Takes(f.row) /\ f.cluster # <<>>) \/ (~Takes(f.row) /\ f.cluster = <<>>)
    <3>1. ~Asks(table, line[m])
      <4>1. N \in 1 .. N
        BY <2>4
      <4>2. (T(k + 1) <=> k + 1 # N)
        BY <2>3, <2>6, <2>11
      <4> QED BY <2>2, <2>4, <4>2
    <3>2. cl = <<>> /\ ar = f.args
      BY <1>4, <2>11 DEF Leaves, Argument
    <3>3. Goes(ar, cl, m, k, m + 1, 0)
      BY <1>1, <2>3, <2>6, <2>9, <2>11, <3>1, <3>2, WordRead
    <3> QED BY <1>1, <2>5, <2>8, <3>3
  <2>12. CASE ~Takes(f.row) /\ f.cluster # <<>>
    <3>1. cl = f.cluster /\ ar = f.args
      BY <2>12 DEF Leaves
    <3>2. k + 1 \in 1 .. N - 1 /\ (k + 1) + 1 = k + 2
      BY <1>1, <2>4, <2>6, <2>12
    <3>3. \A j \in 1 .. k + 1 : ~T(j)
      <4>1. \A j \in 1 .. k + 1 : j \in 1 .. k \/ j = k + 1
        BY <1>1
      <4> QED BY <2>3, <2>4, <2>12, <4>1
    <3>4. AtLetter(ar, cl, m, k + 1)
      BY <1>1, <1>4, <3>1, <3>2, <3>3 DEF AtLetter, N, T
    <3>8. m \in Nat /\ k \in Nat /\ k + 1 \in Nat /\ k + 1 > 0 /\ m >= m
      BY <1>1, <1>2
    <3>5. Reads(m, k, m, k + 1)
      BY <3>8, ReadsIs
    <3>6. \A i \in m + 1 .. m - 1 : FALSE
      BY <1>2
    <3>7. Goes(ar, cl, m, k, m, k + 1)
      BY <3>4, <3>5, <3>6, <3>8 DEF Goes, At
    <3> QED BY <1>1, <2>5, <2>8, <3>7
  <2> QED BY <2>10, <2>11, <2>12
<1>5. \/ /\ k = 0 /\ f.row \in LongOption(table, line[m])
         /\ f.text = After(line[m]) /\ f.cluster = <<>>
      \/ /\ LongOption(table, line[m]) = {} /\ k + 1 \in 1 .. Len(line[m].chars)
         /\ \A j \in 1 .. k : \A r \in ShortOption(table, line[m].chars[j]) : ~Takes(r)
         /\ f.row \in ShortOption(table, line[m].chars[k + 1]) /\ f.text = <<>>
         /\ f.cluster = SubSeq(line[m].chars, k + 2, Len(line[m].chars))
  BY FoundIs, Zenon
<1> QED BY <1>3, <1>4, <1>5

(* An option without a fault.                                              *)
LEMMA NoFault ==
  ASSUME NEW f, Fault(f) = "none"
  PROVE  /\ ~(Takes(f.row) /\ f.text = <<>> /\ f.cluster = <<>> /\ f.args = <<>>)
         /\ ~Takes(f.row) => f.text = <<>>
BY DEF Fault

(* At the beginning of a line, whatever the table.                         *)
LEMMA StartIs ==
  ASSUME line \in Seq(WordType)
  PROVE  /\ 1 \in 1 .. Len(line) + 1 /\ line = SubSeq(line, 1, Len(line))
         /\ \A t : 1 \notin Swallowed(t)
<1>1. 1 \in 1 .. Len(line) + 1 /\ line = SubSeq(line, 1, Len(line))
  OBVIOUS
<1>2. ASSUME NEW t PROVE 1 \notin Swallowed(t)
  <2>1. CASE Len(line) = 0
    BY <2>1 DEF Swallowed
  <2>2. CASE Len(line) > 0
    <3>1. 1 \in 1 .. Len(line)
      BY <2>2
    <3> QED BY <3>1, SwallowedNext
  <2> QED BY <2>1, <2>2
<1> QED BY <1>1, <1>2

(* At the end of it.                                                       *)
LEMMA AtEnd ==
  ASSUME line \in Seq(WordType), NEW m, NEW k, At(args, cluster, m, k), cluster = <<>>, args = <<>>
  PROVE  m = Len(line) + 1 /\ k = 0
<1>1. CASE k = 0 /\ AtWord(args, cluster, m)
  <2>1. m \in 1 .. Len(line) + 1 /\ SubSeq(line, m, Len(line)) = <<>>
    BY <1>1 DEF AtWord
  <2>2. m \notin 1 .. Len(line)
    BY <2>1, Rest
  <2> QED BY <1>1, <2>1, <2>2
<1>2. CASE AtLetter(args, cluster, m, k)
  <2>1. /\ m \in 1 .. Len(line) /\ k \in 1 .. Len(line[m].chars) - 1
        /\ SubSeq(line[m].chars, k + 1, Len(line[m].chars)) = <<>>
    BY <1>2 DEF AtLetter
  <2>2. line[m].chars \in Seq(STRING)
    <3>1. line[m] \in WordType
      BY <2>1
    <3> QED BY <3>1 DEF WordType
  <2>3. k + 1 \in 1 .. Len(line[m].chars)
    BY <2>1, <2>2
  <2> QED BY <2>1, <2>2, <2>3, Rest
<1> QED BY <1>1, <1>2 DEF At

(* The place is the line's.                                                *)
LEMMA AtStays ==
  ASSUME UNCHANGED <<line, table>>, NEW ar, NEW cl, NEW m, NEW k, At(ar, cl, m, k), args' = ar, cluster' = cl
  PROVE  At(args, cluster, m, k)'
<1>1. Swallowed(table)' = Swallowed(table)
  BY DEF Swallowed
<1> QED BY <1>1 DEF At, AtWord, AtLetter

(* A word without a dash.                                                  *)
LEMMA OperandRead ==
  ASSUME line \in Seq(WordType), NEW m, NEW k, At(args, cluster, m, k),
         cluster = <<>>, args # <<>>, ~IsOption(Head(args))
  PROVE  /\ m \in 1 .. Len(line) /\ k = 0 /\ m \notin Swallowed(table)
         /\ Head(args) = line[m] /\ ~IsOption(line[m])
         /\ Goes(Tail(args), <<>>, m, 0, m + 1, 0)
<1>1. k = 0 /\ AtWord(args, cluster, m)
  <2> SUFFICES ASSUME AtLetter(args, cluster, m, k) PROVE FALSE
    BY DEF At
  <2>1. /\ m \in 1 .. Len(line) /\ k \in 1 .. Len(line[m].chars) - 1
        /\ SubSeq(line[m].chars, k + 1, Len(line[m].chars)) = <<>>
    BY DEF AtLetter
  <2>2. line[m].chars \in Seq(STRING)
    <3>1. line[m] \in WordType
      BY <2>1
    <3> QED BY <3>1 DEF WordType
  <2>3. k + 1 \in 1 .. Len(line[m].chars)
    BY <2>1, <2>2
  <2> QED BY <2>1, <2>2, <2>3, Rest
<1>2. m \in 1 .. Len(line) + 1 /\ m \notin Swallowed(table) /\ args = SubSeq(line, m, Len(line))
  BY <1>1 DEF AtWord
<1>3. m # Len(line) + 1
  <2>1. SubSeq(line, Len(line) + 1, Len(line)) = <<>>
    OBVIOUS
  <2> QED BY <1>2, <2>1
<1>4. m \in 1 .. Len(line)
  BY <1>2, <1>3
<1>5. Head(args) = line[m] /\ Tail(args) = SubSeq(line, m + 1, Len(line))
  BY <1>2, <1>4, Rest
<1>6. ~Asks(table, line[m])
  BY <1>5 DEF Asks
<1>7. \A j \in Places(table, line[m]) : j <= 0 + 1
  BY <1>5 DEF Places
<1>8. Goes(Tail(args), <<>>, m, 0, m + 1, 0)
  BY <1>2, <1>4, <1>5, <1>6, <1>7, WordRead
<1> QED BY <1>1, <1>2, <1>4, <1>5, <1>8

(* No words are a list, ...                                               *)
LEMMA ListsNone == Lists(<<>>, {})
<1> DEFINE p == [i \in 1 .. 0 |-> 0]
<1>1. Len(<<>>) = 0 /\ p \in [1 .. 0 -> {}] /\ \A i \in 1 .. 0 : FALSE
  OBVIOUS
<1> QED BY <1>1 DEF Lists

(* ... and with one more it is one.                                        *)
LEMMA ListsMore ==
  ASSUME NEW S, NEW words \in Seq(S), NEW P, NEW m \in Nat, P \subseteq Nat, \A i \in P : i < m,
         Lists(words, P), line[m] \in S
  PROVE  Append(words, line[m]) \in Seq(S) /\ Lists(Append(words, line[m]), P \cup {m})
<1> DEFINE n == Len(words)
           more == Append(words, line[m])
<1>1. n \in Nat /\ more \in Seq(S) /\ Len(more) = n + 1
  OBVIOUS
<1>2. more[n + 1] = line[m] /\ \A i \in 1 .. n : more[i] = words[i]
  OBVIOUS
<1>3. PICK p \in [1 .. n -> P] :
        /\ \A i, j \in 1 .. n : i < j => p[i] < p[j]
        /\ \A i \in P : \E j \in 1 .. n : p[j] = i
        /\ \A i \in 1 .. n : words[i] = line[p[i]]
  BY DEF Lists
<1> HIDE DEF n, more
<1> DEFINE q == [i \in 1 .. n + 1 |-> IF i = n + 1 THEN m ELSE p[i]]
<1>4. \A i \in 1 .. n + 1 : i \in 1 .. n \/ i = n + 1
  BY <1>1
<1>5. n + 1 \in 1 .. n + 1 /\ \A i \in 1 .. n : i \in 1 .. n + 1 /\ i # n + 1
  BY <1>1
<1>6. q[n + 1] = m /\ \A i \in 1 .. n : q[i] = p[i]
  BY <1>5
<1>7. q \in [1 .. n + 1 -> P \cup {m}]
  BY <1>3, <1>4
<1> HIDE DEF q
<1>8. \A i, j \in 1 .. n + 1 : i < j => q[i] < q[j]
  <2> TAKE i \in 1 .. n + 1, j \in 1 .. n + 1
  <2> HAVE i < j
  <2>1. i \in 1 .. n
    BY <1>1
  <2>2. CASE j \in 1 .. n
    BY <1>3, <1>6, <2>1, <2>2
  <2>3. CASE j = n + 1
    <3>1. p[i] \in P
      BY <1>3, <2>1
    <3> QED BY <1>6, <2>1, <2>3, <3>1
  <2> QED BY <1>4, <2>2, <2>3
<1>9. \A i \in P \cup {m} : \E j \in 1 .. n + 1 : q[j] = i
  <2> TAKE i \in P \cup {m}
  <2>1. CASE i = m
    BY <1>5, <1>6, <2>1
  <2>2. CASE i \in P
    <3>1. PICK j \in 1 .. n : p[j] = i
      BY <1>3, <2>2
    <3> QED BY <1>5, <1>6, <3>1
  <2> QED BY <2>1, <2>2
<1>10. \A i \in 1 .. n + 1 : more[i] = line[q[i]]
  <2> TAKE i \in 1 .. n + 1
  <2> QED BY <1>2, <1>3, <1>4, <1>6
<1>11. Lists(more, P \cup {m})
  <2>1. Len(more) = n + 1
    BY <1>1
  <2>2. /\ q \in [1 .. Len(more) -> P \cup {m}]
        /\ \A i, j \in 1 .. Len(more) : i < j => q[i] < q[j]
        /\ \A i \in P \cup {m} : \E j \in 1 .. Len(more) : q[j] = i
        /\ \A i \in 1 .. Len(more) : more[i] = line[q[i]]
    BY ONLY <2>1, <1>7, <1>8, <1>9, <1>10, Zenon
  <2> QED BY <2>2, Zenon DEF Lists
<1> QED BY <1>1, <1>11 DEF more

-----------------------------------------------------------------------------
(* No operand is lost.                                                     *)

(* The parser is at a place of the line, and what remains are the operands *)
(* before it.                                                              *)
OperandsBefore(m) == {i \in Operands : i < m}

OperandInv ==
  /\ line \in Seq(WordType) /\ remaining \in Seq(WordType)
  /\ status = "parsing" => \E m, k : At(args, cluster, m, k) /\ Lists(remaining, OperandsBefore(m))
  /\ OperandsSurvive

(* Reading on over options meets no operand.                               *)
LEMMA NoOperandBetween ==
  ASSUME NEW m \in 1 .. Len(line), NEW n \in Nat, n >= m, IsOption(line[m]),
         \A i \in m + 1 .. n - 1 : i \in Swallowed(table)
  PROVE  OperandsBefore(n) = OperandsBefore(m)
<1>1. ASSUME NEW i \in OperandsBefore(n) PROVE i < m
  <2>1. i \in 1 .. Len(line) /\ i \notin Swallowed(table) /\ ~IsOption(line[i]) /\ i < n
    BY DEF OperandsBefore, Operands
  <2>2. i # m /\ i \notin m + 1 .. n - 1
    BY <2>1
  <2> QED BY <2>1, <2>2
<1>2. ASSUME NEW i \in OperandsBefore(m) PROVE i < n
  <2>1. i \in 1 .. Len(line) /\ i < m
    BY DEF OperandsBefore, Operands
  <2> QED BY <2>1
<1> QED BY <1>1, <1>2 DEF OperandsBefore

(* Which words are operands depends on the line and the table.             *)
LEMMA OperandsStay ==
  ASSUME UNCHANGED <<line, table>>
  PROVE  /\ Operands' = Operands /\ \A m : OperandsBefore(m)' = OperandsBefore(m)
         /\ \A w, P : Lists(w, P)' = Lists(w, P)
<1>1. Swallowed(table)' = Swallowed(table)
  BY DEF Swallowed
<1>2. Operands' = Operands
  BY <1>1 DEF Operands
<1> QED BY <1>2 DEF OperandsBefore, Lists

(* An option that was read leaves the operands alone.                      *)
LEMMA OptionKeepsOperands ==
  ASSUME OperandInv, status = "parsing", OptionNext, NEW f \in Found, Fault(f) = "none",
         UNCHANGED <<line, table, remaining, status>>, Leaves(f, args', cluster')
  PROVE  OperandInv'
<1>1. PICK m, k : At(args, cluster, m, k) /\ Lists(remaining, OperandsBefore(m))
  BY DEF OperandInv
<1>2. line \in Seq(WordType) /\ remaining \in Seq(WordType)
  BY DEF OperandInv
<1>3. PICK ar, cl : ar = args' /\ cl = cluster'
  OBVIOUS
<1>4. Leaves(f, ar, cl)
  BY <1>3
<1>5. m \in 1 .. Len(line)
  BY <1>1, <1>2, FoundIs
<1>6. IsOption(line[m]) /\ \E n, l : Goes(ar, cl, m, k, n, l)
  BY <1>1, <1>2, <1>4, OptionRead
<1>7. PICK n, l : Goes(ar, cl, m, k, n, l)
  BY <1>6
<1>8. /\ At(ar, cl, n, l) /\ n \in Nat /\ n >= m
      /\ \A i \in m + 1 .. n - 1 : i \in Swallowed(table)
  BY <1>7 DEF Goes
<1>9. OperandsBefore(n) = OperandsBefore(m)
  BY <1>5, <1>6, <1>8, NoOperandBetween
<1>10. At(args, cluster, n, l)'
  BY <1>3, <1>8, AtStays
<1>11. Lists(remaining, OperandsBefore(n))'
  BY <1>1, <1>9, OperandsStay
<1> QED BY <1>2, <1>10, <1>11 DEF OperandInv, OperandsSurvive

(* Whatever ends with an error ends.                                       *)
LEMMA EndsKeepOperands ==
  ASSUME OperandInv, NEW e, e \notin {"parsing", "ok"}, Ends(e)
  PROVE  OperandInv'
BY DEF OperandInv, Ends, OperandsSurvive

(* What may be wrong with an option.                                       *)
LEMMA FaultIs ==
  ASSUME NEW f
  PROVE  Fault(f) \in {"none", "NOARG", "BADNUMBER", "OVERFLOW", "UNWANTEDARG", "panic", "refused"}
BY DEF Fault

(* At first nothing is read and nothing remains.                           *)
LEMMA OperandsInit == Init => OperandInv
<1> SUFFICES ASSUME Init PROVE OperandInv
  OBVIOUS
<1>1. line \in Seq(WordType) /\ args = line /\ cluster = <<>> /\ remaining = <<>> /\ status = "parsing"
  BY OptionsAssumption DEF Init, WordType
<1>2. At(args, cluster, 1, 0)
  BY <1>1, StartIs DEF At, AtWord
<1>3. OperandsBefore(1) = {}
  BY DEF OperandsBefore, Operands
<1>4. Lists(remaining, OperandsBefore(1))
  BY <1>1, <1>3, ListsNone
<1>5. remaining \in Seq(WordType)
  BY <1>1
<1> QED BY <1>1, <1>2, <1>4, <1>5 DEF OperandInv, OperandsSurvive

(* Each step of the parser keeps the operands it has passed.               *)
LEMMA OperandsNext == OperandInv /\ [Next]_vars => OperandInv'
<1> SUFFICES ASSUME OperandInv, [Next]_vars PROVE OperandInv'
  OBVIOUS
<1>1. line \in Seq(WordType) /\ remaining \in Seq(WordType)
  BY DEF OperandInv
<1>2. CASE status = "parsing" /\ Operand
  <2>1. CASE Ends("BADOPT")
    BY <2>1, EndsKeepOperands
  <2>2. CASE TextOf(Head(args)) # <<>>
    <3>1. /\ cluster = <<>> /\ args # <<>> /\ ~IsOption(Head(args))
          /\ remaining' = Append(remaining, Head(args)) /\ args' = Tail(args)
          /\ UNCHANGED <<line, table, cluster, o, info, status>>
      BY <1>2, <2>2 DEF Operand
    <3>2. PICK m, k : At(args, cluster, m, k) /\ Lists(remaining, OperandsBefore(m))
      BY <1>2 DEF OperandInv
    <3>3. /\ m \in 1 .. Len(line) /\ m \notin Swallowed(table)
          /\ Head(args) = line[m] /\ ~IsOption(line[m])
          /\ Goes(Tail(args), <<>>, m, 0, m + 1, 0)
      BY <1>1, <3>1, <3>2, OperandRead
    <3>4. At(Tail(args), <<>>, m + 1, 0)
      BY <3>3 DEF Goes
    <3>5. PICK ar : ar = Tail(args)
      OBVIOUS
    <3>6. At(args, cluster, m + 1, 0)'
      BY <3>1, <3>4, <3>5, AtStays
    <3>7. OperandsBefore(m + 1) = OperandsBefore(m) \cup {m}
      BY <3>3 DEF OperandsBefore, Operands
    <3>8. m \in Nat /\ OperandsBefore(m) \subseteq Nat /\ (\A i \in OperandsBefore(m) : i < m)
          /\ line[m] \in WordType
      BY <1>1, <3>3 DEF OperandsBefore, Operands
    <3>9. Append(remaining, line[m]) \in Seq(WordType) /\ Lists(Append(remaining, line[m]), OperandsBefore(m + 1))
      <4>1. PICK P : P = OperandsBefore(m)
        OBVIOUS
      <4>2. Append(remaining, line[m]) \in Seq(WordType) /\ Lists(Append(remaining, line[m]), P \cup {m})
        BY <1>1, <3>2, <3>8, <4>1, ListsMore
      <4> QED BY <3>7, <4>1, <4>2
    <3>10. PICK rem : rem = Append(remaining, line[m])
      OBVIOUS
    <3>11. Lists(remaining, OperandsBefore(m + 1))'
      BY <3>1, <3>3, <3>9, <3>10, OperandsStay
    <3> QED BY <1>1, <1>2, <3>1, <3>3, <3>6, <3>9, <3>11 DEF OperandInv, OperandsSurvive
  <2> QED BY <1>2, <2>1, <2>2 DEF Operand
<1>3. CASE status = "parsing" /\ Unknown
  BY <1>3, EndsKeepOperands DEF Unknown
<1>4. CASE status = "parsing" /\ Refuse
  <2>1. PICK f \in Found : Fault(f) # "none" /\ Ends(Fault(f))
    BY <1>4 DEF Refuse
  <2>2. Fault(f) \notin {"parsing", "ok"}
    BY <2>1, FaultIs
  <2> QED BY <2>1, <2>2, EndsKeepOperands
<1>5. CASE status = "parsing" /\ Restart
  <2>1. /\ table' = "daemon" /\ args' = line /\ cluster' = <<>> /\ remaining' = <<>>
        /\ line' = line /\ status' = status
    BY <1>5 DEF Restart
  <2>2. Swallowed("daemon")' = Swallowed("daemon")
    BY <2>1 DEF Swallowed
  <2>3. AtWord(args, cluster, 1)'
    BY <1>1, <2>1, <2>2, StartIs DEF AtWord
  <2>4. At(args, cluster, 1, 0)'
    BY <2>3 DEF At
  <2>5. OperandsBefore(1)' = {}
    BY DEF OperandsBefore, Operands
  <2>6. Lists(remaining, OperandsBefore(1))'
    BY <2>1, <2>5, ListsNone DEF Lists
  <2> QED BY <1>1, <1>5, <2>1, <2>4, <2>6, EmptySeq DEF OperandInv, OperandsSurvive
<1>6. CASE status = "parsing" /\ TakeFlag
  <2>1. PICK f \in Found :
          /\ Fault(f) = "none" /\ ~Takes(f.row) /\ args' = f.args /\ cluster' = f.cluster
    BY <1>6 DEF TakeFlag
  <2>2. OptionNext /\ UNCHANGED <<line, table, remaining, status>>
    BY <1>6 DEF TakeFlag
  <2>3. Leaves(f, args', cluster')
    BY <2>1, NoFault DEF Leaves
  <2> QED BY <1>6, <2>1, <2>2, <2>3, OptionKeepsOperands
<1>7. CASE status = "parsing" /\ TakeText
  <2>1. PICK f \in Found :
          /\ Fault(f) = "none" /\ Takes(f.row) /\ args' = Argument(f).args /\ cluster' = <<>>
    BY <1>7 DEF TakeText
  <2>2. OptionNext /\ UNCHANGED <<line, table, remaining, status>>
    BY <1>7 DEF TakeText
  <2>3. Leaves(f, args', cluster')
    BY <2>1, NoFault DEF Leaves
  <2> QED BY <1>7, <2>1, <2>2, <2>3, OptionKeepsOperands
<1>8. CASE status = "parsing" /\ Finish
  <2>1. cluster = <<>> /\ args = <<>> /\ UNCHANGED <<line, table, remaining>> /\ status' = "ok"
    BY <1>8 DEF Finish
  <2>2. PICK m, k : At(args, cluster, m, k) /\ Lists(remaining, OperandsBefore(m))
    BY <1>8 DEF OperandInv
  <2>3. m = Len(line) + 1
    BY <1>1, <2>1, <2>2, AtEnd
  <2>4. OperandsBefore(m) = Operands
    BY <2>3 DEF OperandsBefore, Operands
  <2>5. Lists(remaining, Operands)'
    BY <2>1, <2>2, <2>4, OperandsStay
  <2> QED BY <1>1, <2>1, <2>5 DEF OperandInv, OperandsSurvive
<1>9. CASE UNCHANGED vars
  <2>1. UNCHANGED <<line, table, args, cluster, remaining, status>>
    BY <1>9 DEF vars
  <2>2. \A m, k : At(args, cluster, m, k) => At(args, cluster, m, k)'
    BY <2>1, AtStays
  <2> QED BY <2>1, <2>2, OperandsStay DEF OperandInv, OperandsSurvive
<1> QED BY <1>2, <1>3, <1>4, <1>5, <1>6, <1>7, <1>8, <1>9 DEF Next

(* Each name of a file remains when the parser succeeds, in the order of the*)
(* line, and nothing else does (poptGetNextOpt, ParseArguments).           *)
THEOREM NoOperandLost == Spec => []OperandsSurvive
<1>1. OperandInv => OperandsSurvive
  BY DEF OperandInv
<1> QED BY <1>1, OperandsInit, OperandsNext, PTL DEF Spec

-----------------------------------------------------------------------------
(* The rows of the tables.                                                 *)

(* The fields of the options that are texts.                               *)
TextNames == {
  "backup_dir", "backup_suffix", "batch_name", "bind_address", "bwlimit_arg", "checksum_choice",
  "compress_choice", "config_file", "copy_as", "early_input_file", "files_from",
  "gokr_anonssh_listen", "gokr_config", "gokr_listen", "gokr_modulemap", "gokr_monitoring_listen",
  "iconv_opt", "logfile_format", "logfile_name", "max_alloc_arg", "max_size_arg", "min_size_arg",
  "outbuf_mode", "partial_dir", "password_file", "rsync_path", "shell_cmd", "skip_compress",
  "sockopts", "stdout_format", "tmpdir"}

(* Flags that are on only at 1, fields the defaults decide or that count.  *)
OneFlags == {"ignore_times", "size_only"}
Decided  == {"relative_paths", "implied_dirs"} \cup Counters

Vals == -1 .. 6

SwitchCodes == {"a", "D", "no-D", "H"}

(* What the proofs need to know of the rows of the tables: which kind of   *)
(* option sets which kind of field, and which ones set a switch.           *)
Allowed(kind, field, val, code) ==
  /\ kind \in {"none", "or", "int", "text"} /\ val \in Vals
  /\ kind = "text" => field \in TextNames \cup {"nil"}
  /\ field \in TextNames => kind = "text"
  /\ kind = "or" => field = "missing_args" /\ val \in {1, 2}
  /\ field = "missing_args" => kind = "or"
  /\ field \in Decided => kind = "none" /\ val \in {0, 1}
  /\ field \in Flags => kind = "none" /\ code = "" /\ (field \in OneFlags => val = 1)
  /\ code \in SwitchCodes => field = "nil" /\ kind = "none"

GoodRow(r) == Allowed(r.kind, r.field, r.val, r.code)

Good(R) == \A r \in R : GoodRow(r)

(* The options whose letters are counted.                                  *)
LEMMA CountersAre ==
  Counters = {"human_readable", "itemize_changes", "verbose", "quiet", "one_file_system", "do_compression",
              "preserve_xattrs", "preserve_atimes"}
BY DEF Counters, Counted

(* The fields a row of each kind may have.                                 *)
Plain(f)   == f \notin TextNames /\ f # "missing_args"
Toggled(f) == Plain(f) /\ f \notin OneFlags
Free(f)    == Toggled(f) /\ f \notin Decided
Amount(f)  == Free(f) /\ f \notin Flags

(* A row that is written down.                                             *)
LEMMA GoodRowIs ==
  ASSUME NEW long, NEW short, NEW kind, NEW field, NEW val, NEW code,
         NEW r, r = Row(long, short, kind, field, val, code)
  PROVE  GoodRow(r) <=> Allowed(kind, field, val, code)
<1>1. r.kind = kind /\ r.field = field /\ r.val = val /\ r.code = code
  BY DEF Row
<1> QED BY <1>1, Zenon DEF GoodRow

(* The name of no option is no option.                                     *)
LEMMA NilIsNone ==
  /\ "nil" \notin Flags /\ "" \notin SwitchCodes /\ "nil" \notin TextNames /\ "nil" # "missing_args"
  /\ "nil" \notin Decided /\ (\A v \in {-1, 0, 1, 2, 4, 6} : v \in Vals) /\ 0 \in {0, 1} /\ 1 \in {0, 1}
BY CountersAre DEF Vals, Flags, SwitchCodes, TextNames, Decided

(* The texts are not among those with a range of their own.                *)
LEMMA NoTextIsElse == \A f \in TextNames : f # "missing_args" /\ f \notin Decided /\ f \notin Flags
BY CountersAre DEF TextNames, Decided, Flags

(* Rows of each kind are good if their option may be of that kind.         *)
LEMMA GoodFlag ==
  ASSUME NEW long, NEW short, NEW field, Plain(field)
  PROVE  Good(Flag(long, short, field))
<1>1. Allowed("none", field, 1, "")
  BY NilIsNone DEF Allowed, Plain
<1> QED BY <1>1, GoodRowIs, Zenon DEF Good, Flag

(* A case.                                                                 *)
LEMMA GoodCase ==
  ASSUME NEW long, NEW short, NEW code
  PROVE  Good(Case(long, short, code))
<1>1. Allowed("none", "nil", 0, code)
  BY NilIsNone DEF Allowed
<1> QED BY <1>1, GoodRowIs, Zenon DEF Good, Case

(* A value.                                                                *)
LEMMA GoodVal ==
  ASSUME NEW long, NEW short, NEW field, NEW val, val \in Vals, Free(field)
  PROVE  Good(Val(long, short, field, val))
<1>1. Allowed("none", field, val, "")
  BY NilIsNone DEF Allowed, Free, Toggled, Plain
<1> QED BY <1>1, GoodRowIs, Zenon DEF Good, Val

(* An option and its opposite.                                             *)
LEMMA GoodToggle ==
  ASSUME NEW long, NEW short, NEW field, NEW val, val \in Vals, Free(field)
  PROVE  Good(Toggle(long, short, field, val))
<1>1. \A l, s : Good(Val(l, s, field, val)) /\ Good(Val(l, s, field, 0))
  BY GoodVal, NilIsNone
<1> QED BY <1>1, Zenon DEF Good, Toggle

(* A zero.                                                                 *)
LEMMA GoodOff ==
  ASSUME NEW long, NEW short, NEW field, Toggled(field)
  PROVE  Good(Val(long, short, field, 0))
<1>1. Allowed("none", field, 0, "")
  BY NilIsNone DEF Allowed, Toggled, Plain
<1> QED BY <1>1, GoodRowIs, Zenon DEF Good, Val

(* A one.                                                                  *)
LEMMA GoodOn ==
  ASSUME NEW long, NEW short, NEW field, Toggled(field)
  PROVE  Good(Val(long, short, field, 1))
<1>1. Allowed("none", field, 1, "")
  BY NilIsNone DEF Allowed, Toggled, Plain
<1> QED BY <1>1, GoodRowIs, Zenon DEF Good, Val

(* A switch and its opposite.                                              *)
LEMMA GoodSwitch ==
  ASSUME NEW long, NEW short, NEW field, Toggled(field)
  PROVE  Good(Toggle(long, short, field, 1))
BY GoodOn, GoodOff, Zenon DEF Good, Toggle

(* A bit.                                                                  *)
LEMMA GoodBit ==
  ASSUME NEW long, NEW short, NEW val, val \in {1, 2}
  PROVE  Good(BitSet(long, short, "missing_args", val))
<1>1. Allowed("or", "missing_args", val, "")
  BY NilIsNone, CountersAre DEF Allowed, Vals, TextNames, Decided, Flags
<1> QED BY <1>1, GoodRowIs, Zenon DEF Good, BitSet

(* A text.                                                                 *)
LEMMA GoodText ==
  ASSUME NEW long, NEW short, NEW field, field \in TextNames
  PROVE  Good(Text(long, short, field))
<1>1. Allowed("text", field, 0, "")
  BY NilIsNone, NoTextIsElse DEF Allowed
<1> QED BY <1>1, GoodRowIs, Zenon DEF Good, Text

(* A text that a case takes.                                               *)
LEMMA GoodAsking ==
  ASSUME NEW long, NEW short, NEW code, code \notin SwitchCodes
  PROVE  Good(Asking(long, short, code))
<1>1. Allowed("text", "nil", 0, code)
  BY NilIsNone DEF Allowed
<1> QED BY <1>1, GoodRowIs, Zenon DEF Good, Asking

(* A number.                                                               *)
LEMMA GoodNumber ==
  ASSUME NEW long, NEW short, NEW field, Amount(field)
  PROVE  Good(Number(long, short, field))
<1>1. Allowed("int", field, 0, "")
  BY NilIsNone DEF Allowed, Amount, Free, Toggled, Plain
<1> QED BY <1>1, GoodRowIs, Zenon DEF Good, Number

(* The rows of rsyncopts.go, group by group.                               *)
LEMMA GoodOutputOptions == Good(OutputOptions)
<1>1. /\ Toggled("verbose") /\ Toggled("msgs2stderr") /\ Toggled("output_motd") /\ Plain("do_stats")
      /\ Toggled("human_readable") /\ Plain("dry_run") /\ Free("recurse")
      /\ Toggled("allow_inc_recurse") /\ Free("xfer_dirs") /\ "debug" \notin SwitchCodes
      /\ "info" \notin SwitchCodes /\ "refused" \notin SwitchCodes /\ 2 \in Vals /\ 4 \in Vals
  BY CountersAre DEF Amount, Free, Toggled, Plain, TextNames, OneFlags, Decided, Flags, SwitchCodes, Vals
<1>4. \A r \in OutputOptions : GoodRow(r)
  BY <1>1, GoodFlag, GoodCase, GoodVal, GoodOff, GoodToggle, GoodSwitch, GoodAsking, SMTT(30)
  DEF OutputOptions, Good
<1> QED BY <1>4 DEF Good

(* The next group.                                                         *)
LEMMA GoodAttributeOptions == Good(AttributeOptions)
<1>1. /\ Toggled("preserve_perms") /\ Plain("preserve_executability") /\ Toggled("preserve_acls")
      /\ Toggled("preserve_xattrs") /\ Toggled("preserve_mtimes") /\ Toggled("preserve_atimes")
      /\ Toggled("open_noatime") /\ Toggled("preserve_crtimes") /\ Toggled("omit_dir_times")
      /\ Toggled("omit_link_times")
  BY CountersAre DEF Amount, Free, Toggled, Plain, TextNames, OneFlags, Decided, Flags, SwitchCodes
<1>2. /\ Allowed("none", "preserve_crtimes", 1, "refused")
      /\ Allowed("int", "modify_window", 0, "refused")
  BY NilIsNone, CountersAre DEF Allowed, Vals, TextNames, Decided, Flags, SwitchCodes
<1>3. /\ GoodRow(Row({"crtimes"}, {"N"}, "none", "preserve_crtimes", 1, "refused"))
      /\ GoodRow(Row({"modify-window"}, {"@"}, "int", "modify_window", 0, "refused"))
  BY <1>2, GoodRowIs
<1>4. \A r \in AttributeOptions : GoodRow(r)
  BY <1>1, <1>3, GoodFlag, GoodCase, GoodOff, GoodSwitch, SMTT(30)
  DEF AttributeOptions, Good
<1> QED BY <1>4 DEF Good

(* The next group.                                                         *)
LEMMA GoodOwnerOptions == Good(OwnerOptions)
<1>1. /\ Free("am_root") /\ Toggled("preserve_uid") /\ Toggled("preserve_gid")
      /\ Toggled("preserve_devices") /\ Plain("copy_devices") /\ Toggled("write_devices")
      /\ Toggled("preserve_specials") /\ -1 \in Vals /\ 2 \in Vals
  BY CountersAre DEF Amount, Free, Toggled, Plain, TextNames, OneFlags, Decided, Flags, SwitchCodes, Vals
<1>4. \A r \in OwnerOptions : GoodRow(r)
  BY <1>1, GoodFlag, GoodCase, GoodVal, GoodToggle, GoodSwitch, SMTT(30)
  DEF OwnerOptions, Good
<1> QED BY <1>4 DEF Good

(* The next group.                                                         *)
LEMMA GoodLinkOptions == Good(LinkOptions)
<1>1. /\ Toggled("preserve_links") /\ Plain("copy_links") /\ Plain("copy_unsafe_links")
      /\ Plain("safe_symlinks") /\ Toggled("munge_symlinks") /\ Plain("copy_dirlinks")
      /\ Plain("keep_dirlinks") /\ Toggled("preserve_hard_links") /\ Toggled("relative_paths")
      /\ Toggled("implied_dirs")
  BY CountersAre DEF Amount, Free, Toggled, Plain, TextNames, OneFlags, Decided, Flags, SwitchCodes
<1>4. \A r \in LinkOptions : GoodRow(r)
  BY <1>1, GoodFlag, GoodCase, GoodOff, GoodSwitch, SMTT(30)
  DEF LinkOptions, Good
<1> QED BY <1>4 DEF Good

(* The next group.                                                         *)
LEMMA GoodUpdateOptions == Good(UpdateOptions)
<1>1. /\ Plain("ignore_times") /\ Plain("size_only") /\ Toggled("one_file_system")
      /\ Plain("update_only") /\ Plain("ignore_non_existing") /\ Plain("ignore_existing")
      /\ Toggled("sparse_files") /\ Plain("preallocate_files") /\ Toggled("inplace")
      /\ Free("append_mode") /\ Toggled("append_mode") /\ "max_alloc_arg" \in TextNames
      /\ "refused" \notin SwitchCodes /\ 2 \in Vals
  BY CountersAre DEF Amount, Free, Toggled, Plain, TextNames, OneFlags, Decided, Flags, SwitchCodes, Vals
<1>2. /\ Allowed("text", "max_size_arg", 0, "refused")
      /\ Allowed("text", "min_size_arg", 0, "refused")
  BY NilIsNone, CountersAre DEF Allowed, Vals, TextNames, Decided, Flags, SwitchCodes
<1>3. /\ GoodRow(Row({"max-size"}, {}, "text", "max_size_arg", 0, "refused"))
      /\ GoodRow(Row({"min-size"}, {}, "text", "min_size_arg", 0, "refused"))
  BY <1>2, GoodRowIs
<1>4. \A r \in UpdateOptions : GoodRow(r)
  BY <1>1, <1>3, GoodFlag, GoodCase, GoodVal, GoodOff, GoodSwitch, GoodText, GoodAsking, SMTT(30)
  DEF UpdateOptions, Good
<1> QED BY <1>4 DEF Good

(* The next group.                                                         *)
LEMMA GoodDeletionOptions == Good(DeletionOptions)
<1>1. /\ Plain("delete_during") /\ Plain("delete_mode") /\ Plain("delete_before")
      /\ Toggled("delete_during") /\ Free("delete_during") /\ Plain("delete_after")
      /\ Plain("delete_excluded") /\ Free("remove_source_files") /\ Toggled("remove_source_files")
      /\ Toggled("force_delete") /\ Toggled("ignore_errors") /\ Amount("max_delete")
      /\ Plain("cvs_exclude") /\ "refused" \notin SwitchCodes /\ 2 \in Vals
  BY CountersAre DEF Amount, Free, Toggled, Plain, TextNames, OneFlags, Decided, Flags, SwitchCodes, Vals
<1>4. \A r \in DeletionOptions : GoodRow(r)
  BY <1>1, GoodFlag, GoodCase, GoodVal, GoodOn, GoodSwitch, GoodBit, GoodAsking, GoodNumber, SMTT(30)
  DEF DeletionOptions, Good
<1> QED BY <1>4 DEF Good

(* The next group.                                                         *)
LEMMA GoodCompareOptions == Good(CompareOptions)
<1>1. /\ Toggled("whole_file") /\ Toggled("always_checksum") /\ Toggled("fuzzy_basis")
      /\ Amount("do_compression_level") /\ "checksum_choice" \in TextNames
      /\ "compress_choice" \in TextNames /\ "skip_compress" \in TextNames
      /\ "refused" \notin SwitchCodes
  BY CountersAre DEF Amount, Free, Toggled, Plain, TextNames, OneFlags, Decided, Flags, SwitchCodes
<1>4. \A r \in CompareOptions : GoodRow(r)
  BY <1>1, GoodCase, GoodOff, GoodSwitch, GoodText, GoodAsking, GoodNumber, SMTT(30)
  DEF CompareOptions, Good
<1> QED BY <1>4 DEF Good

(* The next group.                                                         *)
LEMMA GoodProgressOptions == Good(ProgressOptions)
<1>1. /\ Toggled("do_progress") /\ Toggled("keep_partial") /\ Toggled("delay_updates")
      /\ Toggled("prune_empty_dirs") /\ Toggled("itemize_changes") /\ Toggled("bwlimit")
      /\ Toggled("make_backups") /\ Free("list_only") /\ "partial_dir" \in TextNames
      /\ "logfile_name" \in TextNames /\ "logfile_format" \in TextNames
      /\ "stdout_format" \in TextNames /\ "backup_dir" \in TextNames
      /\ "backup_suffix" \in TextNames /\ "files_from" \in TextNames /\ 2 \in Vals
  BY CountersAre DEF Amount, Free, Toggled, Plain, TextNames, OneFlags, Decided, Flags, SwitchCodes, Vals
<1>2. /\ Allowed("text", "bwlimit_arg", 0, "refused")
      /\ Allowed("text", "batch_name", 0, "refused")
  BY NilIsNone, CountersAre DEF Allowed, Vals, TextNames, Decided, Flags, SwitchCodes
<1>3. /\ GoodRow(Row({"bwlimit"}, {}, "text", "bwlimit_arg", 0, "refused"))
      /\ GoodRow(Row({"read-batch", "write-batch", "only-write-batch"}, {}, "text", "batch_name", 0, "refused"))
  BY <1>2, GoodRowIs
<1>4. \A r \in ProgressOptions : GoodRow(r)
  BY <1>1, <1>3, GoodCase, GoodVal, GoodOn, GoodOff, GoodSwitch, GoodText, SMTT(30)
  DEF ProgressOptions, Good
<1> QED BY <1>4 DEF Good

(* The next group.                                                         *)
LEMMA GoodProtectionOptions == Good(ProtectionOptions)
<1>1. /\ Toggled("eol_nulls") /\ Toggled("old_style_args") /\ Toggled("protect_args")
      /\ Toggled("trust_sender") /\ Toggled("numeric_ids") /\ Amount("io_timeout")
      /\ Toggled("io_timeout") /\ Amount("connect_timeout") /\ Toggled("connect_timeout")
      /\ Plain("do_fsync") /\ "refused" \notin SwitchCodes
  BY CountersAre DEF Amount, Free, Toggled, Plain, TextNames, OneFlags, Decided, Flags, SwitchCodes
<1>4. \A r \in ProtectionOptions : GoodRow(r)
  BY <1>1, GoodFlag, GoodCase, GoodOn, GoodOff, GoodSwitch, GoodAsking, GoodNumber, SMTT(30)
  DEF ProtectionOptions, Good
<1> QED BY <1>4 DEF Good

(* The next group.                                                         *)
LEMMA GoodRemoteOptions == Good(RemoteOptions)
<1>1. /\ Toggled("allow_8bit_chars") /\ Toggled("mkpath_dest_arg") /\ Plain("use_qsort")
      /\ Toggled("blocking_io") /\ Amount("checksum_seed") /\ "shell_cmd" \in TextNames
      /\ "rsync_path" \in TextNames /\ "iconv_opt" \in TextNames /\ "copy_as" \in TextNames
      /\ "password_file" \in TextNames /\ "early_input_file" \in TextNames
      /\ "outbuf_mode" \in TextNames /\ "daemon" \notin SwitchCodes /\ "refused" \notin SwitchCodes
  BY CountersAre DEF Amount, Free, Toggled, Plain, TextNames, OneFlags, Decided, Flags, SwitchCodes
<1>4. \A r \in RemoteOptions : GoodRow(r)
  BY <1>1, GoodFlag, GoodCase, GoodSwitch, GoodText, GoodAsking, GoodNumber, SMTT(30)
  DEF RemoteOptions, Good
<1> QED BY <1>4 DEF Good

(* Those of both tables.                                                   *)
LEMMA GoodSharedOptions == Good(SharedOptions)
<1>1. /\ Amount("rsync_port") /\ Amount("protocol_version") /\ Free("default_af_hint")
      /\ "bind_address" \in TextNames /\ "sockopts" \in TextNames /\ "tmpdir" \in TextNames
      /\ 4 \in Vals /\ 6 \in Vals
  BY CountersAre DEF Amount, Free, Toggled, Plain, TextNames, OneFlags, Decided, Flags, SwitchCodes, Vals
<1>4. \A r \in SharedOptions : GoodRow(r)
  BY <1>1, GoodVal, GoodText, GoodNumber, SMTT(30)
  DEF SharedOptions, Good
<1> QED BY <1>4 DEF Good

(* The daemon's.                                                           *)
LEMMA GoodDaemonOptions == Good(DaemonOptions)
<1>1. /\ Amount("daemon_bwlimit") /\ Plain("daemon_opt") /\ Toggled("no_detach")
      /\ Plain("am_server") /\ Toggled("verbose") /\ "config_file" \in TextNames
      /\ "logfile_name" \in TextNames /\ "logfile_format" \in TextNames
      /\ "refused" \notin SwitchCodes
  BY CountersAre DEF Amount, Free, Toggled, Plain, TextNames, OneFlags, Decided, Flags, SwitchCodes
<1>2. /\ Allowed("none", "zero", 0, "v")
      /\ Allowed("none", "zero", 0, "refused")
  BY NilIsNone, CountersAre DEF Allowed, Vals, TextNames, Decided, Flags, SwitchCodes
<1>3. /\ GoodRow(Row({"verbose"}, {"v"}, "none", "zero", 0, "v"))
      /\ GoodRow(Row({}, {"h"}, "none", "zero", 0, "refused"))
  BY <1>2, GoodRowIs
<1>4. \A r \in DaemonOptions : GoodRow(r)
  BY <1>1, <1>3, GoodFlag, GoodCase, GoodOn, GoodOff, GoodText, GoodAsking, GoodNumber, SMTT(30)
  DEF DaemonOptions, Good
<1> QED BY <1>4 DEF Good

(* Gokrazy's.                                                              *)
LEMMA GoodGokrazyOptions == Good(GokrazyOptions)
<1>1. /\ "gokr_config" \in TextNames /\ "gokr_listen" \in TextNames
      /\ "gokr_monitoring_listen" \in TextNames /\ "gokr_anonssh_listen" \in TextNames
      /\ "gokr_modulemap" \in TextNames
  BY DEF TextNames
<1>4. \A r \in GokrazyOptions : GoodRow(r)
  BY <1>1, GoodText, SMTT(30)
  DEF GokrazyOptions, Good
<1> QED BY <1>4 DEF Good

(* Both tables are made of good rows.                                      *)
LEMMA GoodTables ==
  /\ DOMAIN Tables = {"main", "daemon"} /\ AllRows = Tables["main"] \cup Tables["daemon"]
  /\ Good(Tables["main"]) /\ Good(Tables["daemon"]) /\ Good(AllRows)
<1>1. Good(ClientOptions)
  BY GoodOutputOptions, GoodAttributeOptions, GoodOwnerOptions, GoodLinkOptions, GoodUpdateOptions,
     GoodDeletionOptions, GoodCompareOptions, GoodProgressOptions, GoodProtectionOptions, GoodRemoteOptions, Zenon
  DEF Good, ClientOptions
<1>2. Tables["main"] = GokrazyOptions \cup SharedOptions \cup ClientOptions
  BY DEF Tables
<1>3. Tables["daemon"] = GokrazyOptions \cup SharedOptions \cup DaemonOptions
  BY DEF Tables
<1>4. Good(Tables["main"]) /\ Good(Tables["daemon"])
  BY <1>1, <1>2, <1>3, GoodGokrazyOptions, GoodSharedOptions, GoodDaemonOptions, Zenon DEF Good
<1>5. DOMAIN Tables = {"main", "daemon"} /\ AllRows = Tables["main"] \cup Tables["daemon"]
  BY DEF Tables, AllRows
<1> QED BY <1>4, <1>5 DEF Good

(* What is found is a row of the table.                                    *)
LEMMA FoundRow ==
  ASSUME table \in {"main", "daemon"}, NEW f \in Found
  PROVE  f.row \in Tables[table]
<1>1. \A w : \A r \in LongOption(table, w) : r \in Tables[table]
  <2> SUFFICES ASSUME NEW w, NEW r \in LongOption(table, w) PROVE r \in Tables[table]
    OBVIOUS
  <2>1. r = LongNames[table][Name(Before(w))] /\ Name(Before(w)) \in DOMAIN LongNames[table]
    BY DEF LongOption
  <2>2. LongNames[table] = [n \in UNION {q.long : q \in Tables[table]} |-> CHOOSE q \in Tables[table] : n \in q.long]
    BY GoodTables DEF LongNames
  <2> DEFINE n == Name(Before(w))
  <2> HIDE DEF n
  <2>3. n \in UNION {q.long : q \in Tables[table]} /\ r = CHOOSE q \in Tables[table] : n \in q.long
    BY <2>1, <2>2 DEF n
  <2>4. \E q \in Tables[table] : n \in q.long
    BY <2>3
  <2> QED BY <2>3, <2>4
<1>2. \A c : \A r \in ShortOption(table, c) : r \in Tables[table]
  <2> SUFFICES ASSUME NEW n, NEW r \in ShortOption(table, n) PROVE r \in Tables[table]
    OBVIOUS
  <2>1. r = ShortNames[table][n] /\ n \in DOMAIN ShortNames[table]
    BY DEF ShortOption
  <2>2. ShortNames[table] = [m \in UNION {q.short : q \in Tables[table]} |-> CHOOSE q \in Tables[table] : m \in q.short]
    BY GoodTables DEF ShortNames
  <2>3. n \in UNION {q.short : q \in Tables[table]} /\ r = CHOOSE q \in Tables[table] : n \in q.short
    BY <2>1, <2>2
  <2>4. \E q \in Tables[table] : n \in q.short
    BY <2>3
  <2> QED BY <2>3, <2>4
<1>3. \/ f.row \in LongOption(table, Head(args)) \/ f.row \in ShortOption(table, Head(cluster))
      \/ f.row \in ShortOption(table, Head(Head(args).chars))
  BY DEF Found
<1> QED BY <1>1, <1>2, <1>3

(* So what is found is a good row.                                         *)
LEMMA FoundGood ==
  ASSUME table \in {"main", "daemon"}, NEW f \in Found
  PROVE  GoodRow(f.row) /\ f.row \in AllRows
BY FoundRow, GoodTables, Zenon DEF Good

(* No switch is a text.                                                    *)
LEMMA FlagsNoText == Flags \cap TextNames = {} /\ "nil" \notin Flags /\ "zero" \notin Flags
BY DEF Flags, TextNames

(* The switches behind an option.                                          *)
SwitchedBy(r, old, new) ==
  \A flag \in Flags : IF Sets(r, flag) THEN On(flag, new[flag]) <=> SwitchesOn(r) ELSE new[flag] = old[flag]

(* No switch is among what the other cases set.                            *)
LEMMA SwitchNames ==
  /\ \A f \in Counters \cup {"do_progress", "keep_partial", "preserve_atimes", "open_noatime", "am_server", "am_sender",
                             "compress_choice", "do_compression"} : f \notin Flags
  /\ \A code \in DOMAIN Counted : Counted[code] \in Counters
BY CountersAre DEF Flags, Counters, Counted

-----------------------------------------------------------------------------
(* What an option does to the switches.                                    *)

(* What a row sets is an option.                                           *)
LEMMA FieldOf ==
  ASSUME NEW r \in AllRows, r.field \notin {"nil", "zero"}
  PROVE  r.field \in Fields
BY DEF Fields, IntFields

Has(R, field) == \E r \in R : r.field = field

(* A row that is in a group.                                               *)
LEMMA HasRow ==
  ASSUME NEW R, NEW long, NEW short, NEW kind, NEW field, NEW val, NEW code,
         Row(long, short, kind, field, val, code) \in R
  PROVE  Has(R, field)
BY DEF Has, Row

(* The switches are options.                                               *)
LEMMA FlagsAreFields == Flags \subseteq Fields
<1>1. /\ Has(OutputOptions, "dry_run")
      /\ Has(OutputOptions, "recurse")
  <2>1. /\ Row({"dry-run"}, {"n"}, "none", "dry_run", 1, "") \in OutputOptions
        /\ Row({"recursive"}, {"r"}, "none", "recurse", 2, "") \in OutputOptions
    BY DEF OutputOptions, Flag, Val, Toggle
  <2> QED BY <2>1, HasRow
<1>2. /\ Has(AttributeOptions, "preserve_perms")
      /\ Has(AttributeOptions, "preserve_mtimes")
  <2>1. /\ Row({"perms"}, {"p"}, "none", "preserve_perms", 1, "") \in AttributeOptions
        /\ Row({"times"}, {"t"}, "none", "preserve_mtimes", 1, "") \in AttributeOptions
    BY DEF AttributeOptions, Flag, Val, Toggle
  <2> QED BY <2>1, HasRow
<1>3. /\ Has(OwnerOptions, "preserve_uid")
      /\ Has(OwnerOptions, "preserve_gid")
      /\ Has(OwnerOptions, "preserve_devices")
      /\ Has(OwnerOptions, "preserve_specials")
  <2>1. /\ Row({"owner"}, {"o"}, "none", "preserve_uid", 1, "") \in OwnerOptions
        /\ Row({"group"}, {"g"}, "none", "preserve_gid", 1, "") \in OwnerOptions
        /\ Row({"devices"}, {}, "none", "preserve_devices", 1, "") \in OwnerOptions
        /\ Row({"specials"}, {}, "none", "preserve_specials", 1, "") \in OwnerOptions
    BY DEF OwnerOptions, Flag, Val, Toggle
  <2> QED BY <2>1, HasRow
<1>4. /\ Has(LinkOptions, "preserve_links")
      /\ Has(LinkOptions, "preserve_hard_links")
  <2>1. /\ Row({"links"}, {"l"}, "none", "preserve_links", 1, "") \in LinkOptions
        /\ Row({"no-hard-links", "no-H"}, {}, "none", "preserve_hard_links", 0, "") \in LinkOptions
    BY DEF LinkOptions, Flag, Val, Toggle
  <2> QED BY <2>1, HasRow
<1>5. /\ Has(UpdateOptions, "ignore_times")
      /\ Has(UpdateOptions, "size_only")
  <2>1. /\ Row({"ignore-times"}, {"I"}, "none", "ignore_times", 1, "") \in UpdateOptions
        /\ Row({"size-only"}, {}, "none", "size_only", 1, "") \in UpdateOptions
    BY DEF UpdateOptions, Flag, Val, Toggle
  <2> QED BY <2>1, HasRow
<1>6. Has(DeletionOptions, "delete_mode")
  <2>1. Row({"delete"}, {}, "none", "delete_mode", 1, "") \in DeletionOptions
    BY DEF DeletionOptions, Flag, Val, Toggle
  <2> QED BY <2>1, HasRow
<1>7. Has(CompareOptions, "always_checksum")
  <2>1. Row({"checksum"}, {"c"}, "none", "always_checksum", 1, "") \in CompareOptions
    BY DEF CompareOptions, Flag, Val, Toggle
  <2> QED BY <2>1, HasRow
<1>8. \A r \in ClientOptions : r \in AllRows
  BY DEF AllRows, Tables
<1>9. /\ OutputOptions \subseteq AllRows /\ AttributeOptions \subseteq AllRows /\ OwnerOptions \subseteq AllRows
      /\ LinkOptions \subseteq AllRows /\ UpdateOptions \subseteq AllRows /\ DeletionOptions \subseteq AllRows
      /\ CompareOptions \subseteq AllRows
  BY <1>8 DEF ClientOptions
<1>10. \A f \in Flags : \E r \in AllRows : r.field = f
  BY <1>1, <1>2, <1>3, <1>4, <1>5, <1>6, <1>7, <1>9 DEF Flags, Has
<1> QED BY <1>10, FieldOf, FlagsNoText

(* The other cases leave the switches alone.                               *)
LEMMA HandledElse ==
  ASSUME NEW p, DOMAIN p = Fields, NEW code, code \notin SwitchCodes
  PROVE  \A flag \in Flags : Handled(code, p)[flag] = p[flag]
<1> TAKE flag \in Flags
<1>1. flag \in DOMAIN p
  BY FlagsAreFields
<1>2. \A val : [f \in Fields |-> IF f \in {"do_progress", "keep_partial"} THEN val ELSE p[f]][flag] = p[flag]
  BY <1>1, SwitchNames
<1>3. flag # "am_server" /\ flag # "am_sender" /\ flag # "compress_choice" /\ flag # "do_compression"
      /\ flag # "preserve_atimes" /\ flag # "open_noatime"
  BY SwitchNames
<1>4. /\ \A v : [p EXCEPT !.am_server = v][flag] = p[flag]
      /\ \A v : [p EXCEPT !.am_sender = v][flag] = p[flag]
      /\ \A v : [p EXCEPT !.compress_choice = v][flag] = p[flag]
      /\ \A v, w : [p EXCEPT !.compress_choice = v, !.do_compression = w][flag] = p[flag]
      /\ \A v, w : [p EXCEPT !.preserve_atimes = v, !.open_noatime = w][flag] = p[flag]
      /\ \A c \in DOMAIN Counted : \A v : [p EXCEPT ![Counted[c]] = v][flag] = p[flag]
  BY <1>1, <1>3, SwitchNames
<1>5. code # "a" /\ code # "D" /\ code # "no-D" /\ code # "H"
  BY DEF SwitchCodes
<1>6. CASE code = "P"
  <2>1. Handled(code, p) = AllSet(p, {"do_progress", "keep_partial"}, 1)
    BY <1>6 DEF Handled, Counted
  <2> QED BY <1>2, <2>1 DEF AllSet
<1>10. CASE code = "U"
  <2>1. Handled(code, p) = [p EXCEPT !.preserve_atimes = @ + 1,
                                     !.open_noatime = IF p.preserve_atimes > 0 THEN 1 ELSE @]
    BY <1>10 DEF Handled
  <2>2. flag # "preserve_atimes" /\ flag # "open_noatime"
    BY <1>3
  <2> QED BY <1>1, <2>1, <2>2
<1>11. CASE code = "server"
  <2>1. Handled(code, p) = [p EXCEPT !.am_server = 1]
    BY <1>11 DEF Handled, Counted
  <2> QED BY <1>1, <1>3, <2>1
<1>12. CASE code = "sender"
  <2>1. Handled(code, p) = [p EXCEPT !.am_sender = 1]
    BY <1>12 DEF Handled, Counted
  <2> QED BY <1>1, <1>3, <2>1
<1>7. CASE code \in {"old-compress", "new-compress", "no-compress"}
  BY <1>4, <1>5, <1>7 DEF Handled
<1>8. CASE code \in DOMAIN Counted \ {"U"}
  BY <1>4, <1>5, <1>8 DEF Handled, Counted
<1>9. CASE code \notin {"P", "U", "server", "sender", "old-compress", "new-compress", "no-compress"} \cup DOMAIN Counted
  BY <1>5, <1>9 DEF Handled
<1> QED BY <1>6, <1>7, <1>8, <1>9, <1>10, <1>11, <1>12

(* The cases of the switch add no option.                                  *)
LEMMA HandledFields ==
  ASSUME NEW p, DOMAIN p = Fields, NEW code
  PROVE  DOMAIN Handled(code, p) = Fields
BY DEF Handled, AllSet, Counted

(* The cases of the switch that are about switches.                        *)
LEMMA HandledSwitch ==
  ASSUME NEW r, GoodRow(r), r.code \in SwitchCodes, NEW p, DOMAIN p = Fields
  PROVE  SwitchedBy(r, p, Handled(r.code, p))
<1> SUFFICES ASSUME NEW flag \in Flags
             PROVE  IF Sets(r, flag) THEN On(flag, Handled(r.code, p)[flag]) <=> SwitchesOn(r)
                    ELSE Handled(r.code, p)[flag] = p[flag]
  BY DEF SwitchedBy
<1>1. flag \in Fields /\ r.field # flag
  <2>1. r.field = "nil"
    BY DEF GoodRow, Allowed
  <2> QED BY <2>1, FlagsAreFields, FlagsNoText
<1>2. CASE r.code = "a"
  <2>1. Handled(r.code, p) = AllSet(p, Archive \cup (IF p.recurse = 0 THEN {"recurse"} ELSE {}), 1)
    BY <1>2 DEF Handled, Counted
  <2>2. SwitchesOn(r) /\ (Sets(r, flag) <=> flag \in Archive \cup {"recurse"})
    BY <1>1, <1>2 DEF SwitchesOn, Sets
  <2>3. CASE flag \in Archive
    BY <1>1, <2>1, <2>2, <2>3 DEF AllSet, On, Archive
  <2>4. CASE flag = "recurse"
    BY <1>1, <2>1, <2>2, <2>4 DEF AllSet, On, Archive
  <2>5. CASE flag \notin Archive \cup {"recurse"}
    BY <1>1, <2>1, <2>2, <2>5 DEF AllSet
  <2> QED BY <2>3, <2>4, <2>5
<1>3. CASE r.code = "D"
  <2>1. Handled(r.code, p) = AllSet(p, Devices, 1)
    BY <1>3 DEF Handled, Counted
  <2>2. SwitchesOn(r) /\ (Sets(r, flag) <=> flag \in Devices)
    BY <1>1, <1>3 DEF SwitchesOn, Sets, Devices
  <2> QED BY <1>1, <2>1, <2>2 DEF AllSet, On, Devices
<1>4. CASE r.code = "no-D"
  <2>1. Handled(r.code, p) = AllSet(p, Devices, 0)
    BY <1>4 DEF Handled, Counted
  <2>2. ~SwitchesOn(r) /\ (Sets(r, flag) <=> flag \in Devices)
    BY <1>1, <1>4 DEF SwitchesOn, Sets, Devices
  <2> QED BY <1>1, <2>1, <2>2 DEF AllSet, On, Devices
<1>5. CASE r.code = "H"
  <2>1. Handled(r.code, p) = [p EXCEPT !.preserve_hard_links = 1]
    BY <1>5 DEF Handled, Counted
  <2>2. SwitchesOn(r) /\ (Sets(r, flag) <=> flag = "preserve_hard_links")
    BY <1>1, <1>5 DEF SwitchesOn, Sets
  <2> QED BY <1>1, <2>1, <2>2 DEF On
<1> QED BY <1>2, <1>3, <1>4, <1>5 DEF SwitchCodes

(* What poptSaveInt and poptSaveArg leave.                                 *)
LEMMA SavedFields ==
  ASSUME DOMAIN o = Fields, NEW r, NEW text
  PROVE  /\ DOMAIN Saved(r, text) = Fields
         /\ \A f \in Fields : f # r.field => Saved(r, text)[f] = o[f]
         /\ r.field \in Fields /\ r.field # "nil" /\ r.kind = "none" => Saved(r, text)[r.field] = r.val
BY DEF Saved

(* A row of a switch sets it, another one does not.                        *)
LEMMA SavedSwitch ==
  ASSUME DOMAIN o = Fields, NEW r, GoodRow(r), r.code \notin SwitchCodes, NEW text
  PROVE  SwitchedBy(r, o, Saved(r, text))
<1> SUFFICES ASSUME NEW flag \in Flags
             PROVE  IF Sets(r, flag) THEN On(flag, Saved(r, text)[flag]) <=> SwitchesOn(r)
                    ELSE Saved(r, text)[flag] = o[flag]
  BY DEF SwitchedBy
<1>1. flag \in Fields /\ flag # "nil"
  BY FlagsAreFields, FlagsNoText
<1>2. Sets(r, flag) <=> r.field = flag
  BY DEF Sets, SwitchCodes
<1>3. CASE r.field = flag
  <2>1. r.kind = "none" /\ r.code = "" /\ (flag \in OneFlags => r.val = 1)
    BY <1>3 DEF GoodRow, Allowed
  <2>2. Saved(r, text)[flag] = r.val
    BY <1>1, <1>3, <2>1, SavedFields
  <2>3. SwitchesOn(r) <=> r.val # 0
    BY <2>1 DEF SwitchesOn
  <2>4. On(flag, r.val) <=> r.val # 0
    <3>1. CASE flag \in OneFlags
      <4>1. r.val = 1 /\ (On(flag, r.val) <=> r.val = 1)
        BY <2>1, <3>1 DEF On, OneFlags
      <4> QED BY <4>1
    <3>2. CASE flag \notin OneFlags
      BY <3>2 DEF On, OneFlags
    <3> QED BY <3>1, <3>2
  <2> QED BY <1>2, <1>3, <2>2, <2>3, <2>4
<1>4. CASE r.field # flag
  BY <1>1, <1>2, <1>4, SavedFields
<1> QED BY <1>3, <1>4

(* An option switches what it is about, and nothing else.                  *)
LEMMA OptionSwitches ==
  ASSUME DOMAIN o = Fields, NEW r, GoodRow(r), NEW text
  PROVE  /\ DOMAIN Saved(r, text) = Fields /\ DOMAIN Handled(r.code, Saved(r, text)) = Fields
         /\ SwitchedBy(r, o, Handled(r.code, Saved(r, text)))
         /\ Takes(r) => SwitchedBy(r, o, Saved(r, text))
<1>1. DOMAIN Saved(r, text) = Fields /\ DOMAIN Handled(r.code, Saved(r, text)) = Fields
  BY SavedFields, HandledFields
<1>2. CASE r.code \in SwitchCodes
  <2>1. r.field = "nil" /\ r.kind = "none"
    BY <1>2 DEF GoodRow, Allowed
  <2>2. Saved(r, text) = o /\ ~Takes(r)
    BY <2>1 DEF Saved, Takes
  <2> QED BY <1>1, <1>2, <2>2, HandledSwitch
<1>3. CASE r.code \notin SwitchCodes
  <2>1. SwitchedBy(r, o, Saved(r, text))
    BY <1>3, SavedSwitch
  <2>2. \A flag \in Flags : Handled(r.code, Saved(r, text))[flag] = Saved(r, text)[flag]
    BY <1>1, <1>3, HandledElse
  <2>3. SwitchedBy(r, o, Handled(r.code, Saved(r, text)))
    BY <2>1, <2>2 DEF SwitchedBy
  <2> QED BY <1>1, <2>1, <2>3
<1> QED BY <1>2, <1>3

-----------------------------------------------------------------------------
(* The last option wins.                                                   *)

(* The options that the parser has read and that are about a switch; what  *)
(* the last of them says.                                                  *)
About(flag, m, k) ==
  {g \in Given(table) : Behind(g, m, k) /\ \E r \in OptionsAt(table, g) : Sets(r, flag)}

LastSays(about) ==
  \E g \in about : /\ \A h \in about : ~Precedes(g, h)
                   /\ \E r \in OptionsAt(table, g) : SwitchesOn(r)

LeftAsLast(p, m, k) == \A flag \in Flags : On(flag, p[flag]) <=> LastSays(About(flag, m, k))

SwitchInv ==
  /\ line \in Seq(WordType) /\ table \in {"main", "daemon"} /\ DOMAIN o = Fields
  /\ status = "parsing" =>
       \E m, k : At(args, cluster, m, k) /\ (table = "main" => LeftAsLast(o, m, k))
  /\ LastOptionWins

(* What was read before a place comes before the option there.             *)
LEMMA BehindPrecedes ==
  ASSUME NEW m \in Nat, NEW k \in Nat
  PROVE  /\ \A h \in Given(table) : Behind(h, m, k) =>
              Precedes(h, <<m, k + 1>>) /\ ~Precedes(<<m, k + 1>>, h) /\ h # <<m, k + 1>>
         /\ ~Precedes(<<m, k + 1>>, <<m, k + 1>>)
<1>1. ~Precedes(<<m, k + 1>>, <<m, k + 1>>)
  BY DEF Precedes
<1>2. ASSUME NEW h \in Given(table), Behind(h, m, k)
      PROVE  Precedes(h, <<m, k + 1>>) /\ ~Precedes(<<m, k + 1>>, h) /\ h # <<m, k + 1>>
  <2>1. PICK i, j : h = <<i, j>> /\ i \in Nat /\ j \in Nat
    <3>1. h = <<h[1], h[2]>>
      BY GivenIs
    <3>2. h[1] \in 1 .. Len(line) /\ h[2] \in Nat
      BY <3>1, GivenIs
    <3> QED BY <3>1, <3>2
  <2>2. i < m \/ (i = m /\ j <= k)
    BY <1>2, <2>1 DEF Behind
  <2>3. h[1] = i /\ h[2] = j
    BY <2>1
  <2>4. Precedes(h, <<m, k + 1>>) <=> i < m \/ (i = m /\ j < k + 1)
    BY <2>3 DEF Precedes
  <2>5. Precedes(<<m, k + 1>>, h) <=> m < i \/ (m = i /\ k + 1 < j)
    BY <2>3 DEF Precedes
  <2>6. h = <<m, k + 1>> => i = m /\ j = k + 1
    BY <2>3
  <2> QED BY <2>1, <2>2, <2>4, <2>5, <2>6
<1> QED BY <1>1, <1>2

(* Once more option is read.                                               *)
LEMMA OneMore ==
  ASSUME NEW m \in Nat, NEW k \in Nat, NEW n, NEW l, Reads(m, k, n, l),
         <<m, k + 1>> \in Given(table), NEW r, OptionsAt(table, <<m, k + 1>>) = {r},
         NEW old, NEW new, LeftAsLast(old, m, k), SwitchedBy(r, old, new)
  PROVE  LeftAsLast(new, n, l)
<1> DEFINE g0 == <<m, k + 1>>
<1> SUFFICES ASSUME NEW flag \in Flags
             PROVE  On(flag, new[flag]) <=> LastSays(About(flag, n, l))
  BY DEF LeftAsLast
<1>1. /\ \A h \in Given(table) : Behind(h, n, l) <=> Behind(h, m, k) \/ h = g0
      /\ g0 \in Given(table) /\ OptionsAt(table, g0) = {r}
  BY DEF Reads
<1>2. /\ \A h \in Given(table) : Behind(h, m, k) => Precedes(h, g0) /\ ~Precedes(g0, h) /\ h # g0
      /\ ~Precedes(g0, g0)
  BY BehindPrecedes
<1> HIDE DEF g0
<1>3. CASE Sets(r, flag)
  <2>1. About(flag, n, l) = About(flag, m, k) \cup {g0}
    BY <1>1, <1>3 DEF About
  <2>2. \A h \in About(flag, m, k) : Precedes(h, g0) /\ ~Precedes(g0, h)
    BY <1>2 DEF About
  <2>3. LastSays(About(flag, n, l)) <=> SwitchesOn(r)
    BY <1>1, <1>2, <2>1, <2>2 DEF LastSays
  <2>4. On(flag, new[flag]) <=> SwitchesOn(r)
    BY <1>3 DEF SwitchedBy
  <2> QED BY <2>3, <2>4
<1>4. CASE ~Sets(r, flag)
  <2>1. About(flag, n, l) = About(flag, m, k)
    BY <1>1, <1>4 DEF About
  <2>2. new[flag] = old[flag]
    BY <1>4 DEF SwitchedBy
  <2> QED BY <2>1, <2>2 DEF LeftAsLast
<1> QED BY <1>3, <1>4

(* What was said depends on the line and the table.                        *)
LEMMA AboutStays ==
  ASSUME UNCHANGED <<line, table>>
  PROVE  \A p, m, k : LeftAsLast(p, m, k)' <=> LeftAsLast(p, m, k)
<1>1. Given(table)' = Given(table)
  BY DEF Given, Swallowed
<1>2. \A g : OptionsAt(table, g)' = OptionsAt(table, g)
  BY DEF OptionsAt
<1>3. \A flag, m, k : About(flag, m, k)' = About(flag, m, k)
  BY <1>1, <1>2 DEF About
<1> QED BY <1>2, <1>3 DEF LeftAsLast, LastSays

(* An option that was read, whatever it did.                               *)
LEMMA OptionKeepsSwitches ==
  ASSUME SwitchInv, status = "parsing", OptionNext, NEW f \in Found,
         UNCHANGED <<line, table, status>>, Leaves(f, args', cluster'),
         DOMAIN o' = Fields, SwitchedBy(f.row, o, o')
  PROVE  SwitchInv'
<1>1. PICK m, k : At(args, cluster, m, k) /\ (table = "main" => LeftAsLast(o, m, k))
  BY DEF SwitchInv
<1>2. line \in Seq(WordType)
  BY DEF SwitchInv
<1>3. PICK ar, cl, new : ar = args' /\ cl = cluster' /\ new = o'
  OBVIOUS
<1>4. Leaves(f, ar, cl) /\ SwitchedBy(f.row, o, new)
  BY <1>3
<1>5. m \in 1 .. Len(line) /\ k \in Nat
  BY <1>1, <1>2, FoundIs
<1>6. /\ <<m, k + 1>> \in Given(table) /\ OptionsAt(table, <<m, k + 1>>) = {f.row}
      /\ \E n, l : Goes(ar, cl, m, k, n, l)
  BY <1>1, <1>2, <1>4, OptionRead
<1>7. PICK n, l : Goes(ar, cl, m, k, n, l)
  BY <1>6
<1>8. At(ar, cl, n, l) /\ Reads(m, k, n, l)
  BY <1>7 DEF Goes
<1>9. table = "main" => LeftAsLast(new, n, l)
  BY <1>1, <1>4, <1>5, <1>6, <1>8, OneMore
<1>10. At(args, cluster, n, l)'
  BY <1>3, <1>8, AtStays
<1>11. table' = "main" => LeftAsLast(o, n, l)'
  BY <1>3, <1>9, AboutStays DEF LeftAsLast
<1> QED BY <1>2, <1>10, <1>11 DEF SwitchInv, LastOptionWins

(* At first all switches are off, and nothing was said.                    *)
LEMMA SwitchesInit == Init => SwitchInv
<1> SUFFICES ASSUME Init PROVE SwitchInv
  OBVIOUS
<1>1. /\ line \in Seq(WordType) /\ args = line /\ cluster = <<>> /\ status = "parsing"
      /\ table = "main" /\ o = NewOptions
  BY OptionsAssumption DEF Init, WordType
<1>2. At(args, cluster, 1, 0)
  BY <1>1, StartIs DEF At, AtWord
<1>3. DOMAIN o = Fields /\ \A flag \in Flags : ~On(flag, o[flag])
  <2>1. DOMAIN o = Fields
    BY <1>1 DEF NewOptions
  <2>2. ASSUME NEW flag \in Flags PROVE o[flag] = 0
    <3>1. flag \in Fields /\ flag \notin TextFields
      <4>1. \A r \in AllRows : r.kind = "text" => r.field \notin Flags
        <5>1. \A r \in AllRows : GoodRow(r)
          BY GoodTables DEF Good
        <5> QED BY <5>1 DEF GoodRow, Allowed
      <4> QED BY <4>1, FlagsAreFields DEF TextFields
    <3>2. /\ flag \notin {"output_motd", "human_readable", "allow_inc_recurse", "implied_dirs"}
          /\ flag \notin {"xfer_dirs", "relative_paths", "whole_file", "blocking_io"}
          /\ flag \notin {"max_delete", "do_compression_level"}
          /\ flag \notin {"msgs2stderr", "default_af_hint", "protocol_version", "rsync_path"}
      BY DEF Flags
    <3> QED BY <1>1, <3>1, <3>2 DEF NewOptions
  <2>3. ASSUME NEW flag \in Flags PROVE ~On(flag, o[flag])
    <3>1. o[flag] = 0
      BY <2>2
    <3> QED BY <3>1 DEF On
  <2> QED BY <2>1, <2>3
<1>4. \A flag : About(flag, 1, 0) = {}
  <2>1. ASSUME NEW g \in Given(table) PROVE ~Behind(g, 1, 0)
    <3>1. g = <<g[1], g[2]>>
      BY GivenIs
    <3>2. g[1] \in 1 .. Len(line) /\ g[2] \in Nat \ {0}
      BY <3>1, GivenIs
    <3> QED BY <3>2 DEF Behind
  <2> QED BY <2>1 DEF About
<1>5. LeftAsLast(o, 1, 0)
  BY <1>3, <1>4 DEF LeftAsLast, LastSays
<1> QED BY <1>1, <1>2, <1>3, <1>5 DEF SwitchInv, LastOptionWins

(* Whatever ends with an error ends.                                       *)
LEMMA EndsKeepSwitches ==
  ASSUME SwitchInv, NEW e, e \notin {"parsing", "ok"}, Ends(e)
  PROVE  SwitchInv'
BY DEF SwitchInv, Ends, LastOptionWins

(* The defaults are about no switch.                                       *)
LEMMA DefaultsNoSwitch ==
  ASSUME NEW p, DOMAIN p = Fields, NEW levels
  PROVE  DOMAIN Defaults(p, levels) = Fields /\ \A flag \in Flags : Defaults(p, levels)[flag] = p[flag]
<1>1. \A flag \in Flags : flag \in Fields /\ flag \notin
        {"xfer_dirs", "relative_paths", "implied_dirs", "missing_args", "backup_suffix", "make_backups", "stdout_format"}
  BY FlagsAreFields DEF Flags
<1> QED BY <1>1 DEF Defaults

(* An operand says nothing about a switch.                                 *)
LEMMA OperandKeepsSwitches ==
  ASSUME SwitchInv, status = "parsing", Operand
  PROVE  SwitchInv'
<1>1. line \in Seq(WordType) /\ table \in {"main", "daemon"} /\ DOMAIN o = Fields
  BY DEF SwitchInv
<1>2. CASE Ends("BADOPT")
  BY <1>2, EndsKeepSwitches
<1>3. CASE TextOf(Head(args)) # <<>>
  <2>1. /\ cluster = <<>> /\ args # <<>> /\ ~IsOption(Head(args)) /\ args' = Tail(args)
        /\ UNCHANGED <<line, table, cluster, o, info, status>>
    BY <1>3 DEF Operand
  <2>2. PICK m, k : At(args, cluster, m, k) /\ (table = "main" => LeftAsLast(o, m, k))
    BY DEF SwitchInv
  <2>3. /\ m \in 1 .. Len(line) /\ k = 0 /\ ~IsOption(line[m])
        /\ Goes(Tail(args), <<>>, m, 0, m + 1, 0)
    BY <1>1, <2>1, <2>2, OperandRead
  <2>4. At(Tail(args), <<>>, m + 1, 0) /\ Reads(m, 0, m + 1, 0)
    BY <2>3 DEF Goes
  <2>5. <<m, 1>> \notin Given(table)
    <3>1. Places(table, line[m]) = {}
      BY <2>3 DEF Places
    <3> QED BY <3>1, GivenIs
  <2>6. \A h \in Given(table) : Behind(h, m + 1, 0) <=> Behind(h, m, 0)
    <3>1. \A h \in Given(table) : Behind(h, m + 1, 0) <=> Behind(h, m, 0) \/ h = <<m, 0 + 1>>
      BY <2>4 DEF Reads
    <3> QED BY <2>5, <3>1
  <2>7. \A flag : About(flag, m + 1, 0) = About(flag, m, k)
    BY <2>3, <2>6 DEF About
  <2>8. table = "main" => LeftAsLast(o, m + 1, 0)
    BY <2>2, <2>7 DEF LeftAsLast
  <2>9. PICK ar, p : ar = Tail(args) /\ p = o
    OBVIOUS
  <2>10. At(args, cluster, m + 1, 0)'
    BY <2>1, <2>4, <2>9, AtStays
  <2>11. table' = "main" => LeftAsLast(o, m + 1, 0)'
    BY <2>1, <2>8, <2>9, AboutStays DEF LeftAsLast
  <2> QED BY <1>1, <2>1, <2>10, <2>11 DEF SwitchInv, LastOptionWins
<1> QED BY <1>2, <1>3 DEF Operand

(* At the end of the line all was said.                                    *)
LEMMA FinishKeepsSwitches ==
  ASSUME SwitchInv, status = "parsing", Finish
  PROVE  SwitchInv'
<1>1. line \in Seq(WordType) /\ table \in {"main", "daemon"} /\ DOMAIN o = Fields
  BY DEF SwitchInv
<1>2. cluster = <<>> /\ args = <<>> /\ UNCHANGED <<line, table>> /\ status' = "ok"
  BY DEF Finish
<1>3. PICK m, k : At(args, cluster, m, k) /\ (table = "main" => LeftAsLast(o, m, k))
  BY DEF SwitchInv
<1>4. m = Len(line) + 1
  BY <1>1, <1>2, <1>3, AtEnd
<1>5. \A g \in Given(table) : Behind(g, m, k)
  <2> SUFFICES ASSUME NEW g \in Given(table) PROVE Behind(g, m, k)
    OBVIOUS
  <2>1. g = <<g[1], g[2]>>
    BY GivenIs
  <2>2. g[1] \in 1 .. Len(line)
    BY <2>1, GivenIs
  <2>3. Len(line) \in Nat
    BY <1>1
  <2> QED BY <1>4, <2>2, <2>3 DEF Behind
<1>6. \A flag : About(flag, m, k) = {g \in Given(table) : \E r \in OptionsAt(table, g) : Sets(r, flag)}
  BY <1>5 DEF About
<1>7. CASE table = "main"
  <2>1. PICK levels : o' = Defaults(o, levels)
    BY <1>7 DEF Finish
  <2>2. PICK p, q : p = o /\ q = o'
    OBVIOUS
  <2>3. DOMAIN q = Fields /\ \A flag \in Flags : q[flag] = p[flag]
    BY <1>1, <2>1, <2>2, DefaultsNoSwitch
  <2>4. LeftAsLast(q, m, k)
    BY <1>3, <1>7, <2>2, <2>3 DEF LeftAsLast
  <2>5. \A flag \in Flags : On(flag, q[flag]) <=>
          LastSays({g \in Given(table) : \E r \in OptionsAt(table, g) : Sets(r, flag)})
    BY <1>6, <2>4 DEF LeftAsLast
  <2>6. Given(table)' = Given(table) /\ \A g : OptionsAt(table, g)' = OptionsAt(table, g)
    BY <1>2 DEF Given, Swallowed, OptionsAt
  <2>7. LastOptionWins'
    BY <2>2, <2>5, <2>6 DEF LastOptionWins, LastSays
  <2> QED BY <1>1, <1>2, <2>2, <2>3, <2>7 DEF SwitchInv
<1>8. CASE table = "daemon"
  <2>1. o' = [o EXCEPT !.am_daemon = 1]
    BY <1>8 DEF Finish
  <2>2. DOMAIN o' = Fields
    BY <1>1, <2>1
  <2> QED BY <1>1, <1>2, <1>8, <2>2 DEF SwitchInv, LastOptionWins
<1> QED BY <1>1, <1>7, <1>8

(* Each step of the parser leaves the switches as the last option said.    *)
LEMMA SwitchesNext == SwitchInv /\ [Next]_vars => SwitchInv'
<1> SUFFICES ASSUME SwitchInv, [Next]_vars PROVE SwitchInv'
  OBVIOUS
<1>1. line \in Seq(WordType) /\ table \in {"main", "daemon"} /\ DOMAIN o = Fields
  BY DEF SwitchInv
<1>2. CASE status = "parsing" /\ Operand
  BY <1>2, OperandKeepsSwitches
<1>3. CASE status = "parsing" /\ Unknown
  BY <1>3, EndsKeepSwitches DEF Unknown
<1>4. CASE status = "parsing" /\ Refuse
  <2>1. PICK f \in Found : Fault(f) # "none" /\ Ends(Fault(f))
    BY <1>4 DEF Refuse
  <2>2. Fault(f) \notin {"parsing", "ok"}
    BY <2>1, FaultIs
  <2> QED BY <2>1, <2>2, EndsKeepSwitches
<1>5. CASE status = "parsing" /\ Restart
  <2>1. /\ table' = "daemon" /\ args' = line /\ cluster' = <<>>
        /\ line' = line /\ status' = status /\ o' = o
    BY <1>5 DEF Restart
  <2>2. Swallowed("daemon")' = Swallowed("daemon")
    BY <2>1 DEF Swallowed
  <2>3. AtWord(args, cluster, 1)'
    BY <1>1, <2>1, <2>2, StartIs DEF AtWord
  <2>4. At(args, cluster, 1, 0)'
    BY <2>3 DEF At
  <2> QED BY <1>1, <1>5, <2>1, <2>4 DEF SwitchInv, LastOptionWins
<1>6. CASE status = "parsing" /\ TakeFlag
  <2>1. PICK f \in Found :
          /\ Fault(f) = "none" /\ ~Takes(f.row) /\ args' = f.args /\ cluster' = f.cluster
          /\ o' = Handled(f.row.code, Saved(f.row, <<>>))
    BY <1>6 DEF TakeFlag
  <2>2. OptionNext /\ UNCHANGED <<line, table, status>>
    BY <1>6 DEF TakeFlag
  <2>3. Leaves(f, args', cluster')
    BY <2>1, NoFault DEF Leaves
  <2>4. GoodRow(f.row)
    BY <1>1, FoundGood
  <2>5. PICK new : new = o'
    OBVIOUS
  <2>6. DOMAIN new = Fields /\ SwitchedBy(f.row, o, new)
    BY <1>1, <2>1, <2>4, <2>5, OptionSwitches
  <2> QED BY <1>6, <2>2, <2>3, <2>5, <2>6, OptionKeepsSwitches
<1>7. CASE status = "parsing" /\ TakeText
  <2>1. PICK f \in Found :
          /\ Fault(f) = "none" /\ Takes(f.row) /\ args' = Argument(f).args /\ cluster' = <<>>
          /\ o' = Saved(f.row, Argument(f).text)
    BY <1>7 DEF TakeText
  <2>2. OptionNext /\ UNCHANGED <<line, table, status>>
    BY <1>7 DEF TakeText
  <2>3. Leaves(f, args', cluster')
    BY <2>1, NoFault DEF Leaves
  <2>4. GoodRow(f.row)
    BY <1>1, FoundGood
  <2>5. PICK new : new = o'
    OBVIOUS
  <2>6. DOMAIN new = Fields /\ SwitchedBy(f.row, o, new)
    BY <1>1, <2>1, <2>4, <2>5, OptionSwitches
  <2> QED BY <1>7, <2>2, <2>3, <2>5, <2>6, OptionKeepsSwitches
<1>8. CASE status = "parsing" /\ Finish
  BY <1>8, FinishKeepsSwitches
<1>9. CASE UNCHANGED vars
  <2>1. UNCHANGED <<line, table, args, cluster, o, status>>
    BY <1>9 DEF vars
  <2>2. \A m, k : At(args, cluster, m, k) => At(args, cluster, m, k)'
    BY <2>1, AtStays
  <2>3. Given(table)' = Given(table) /\ \A g : OptionsAt(table, g)' = OptionsAt(table, g)
    BY <2>1 DEF Given, Swallowed, OptionsAt
  <2>4. LastOptionWins'
    BY <2>1, <2>3 DEF SwitchInv, LastOptionWins
  <2>5. \A m, k : LeftAsLast(o, m, k) => LeftAsLast(o, m, k)'
    <3>1. PICK p : p = o
      OBVIOUS
    <3> QED BY <2>1, <3>1, AboutStays DEF LeftAsLast
  <2> QED BY <2>1, <2>2, <2>4, <2>5 DEF SwitchInv
<1> QED BY <1>2, <1>3, <1>4, <1>5, <1>6, <1>7, <1>8, <1>9 DEF Next

(* When the parser succeeds each switch is as the last option about it left*)
(* it, for every line (poptGetNextOpt, the tables, the cases of ParseArguments).*)
THEOREM LastWins == Spec => []LastOptionWins
<1>1. SwitchInv => LastOptionWins
  BY DEF SwitchInv
<1> QED BY <1>1, SwitchesInit, SwitchesNext, PTL DEF Spec

-----------------------------------------------------------------------------
(* Texts.                                                                  *)

(* A set of indices has a least and a greatest one.                        *)
LEMMA EndsOfIndices ==
  ASSUME NEW n \in Nat, NEW I, I \subseteq 1 .. n, I # {}
  PROVE  /\ \E x \in I : \A y \in I : x <= y
         /\ \E x \in I : \A y \in I : x >= y
<1>1. \E x \in I : \A y \in I : x <= y
  <2> DEFINE S == {i \in 0 .. n : (\E y \in I : y <= i) => \E x \in I : \A y \in I : x <= y}
  <2>1. 0 \in S
    OBVIOUS
  <2>2. ASSUME NEW i \in 1 .. n, i - 1 \in S PROVE i \in S
    <3>1. CASE \E y \in I : y <= i - 1
      BY <2>2, <3>1
    <3>2. CASE \A y \in I : y >= i
      BY <3>2
    <3> QED BY <3>1, <3>2
  <2> HIDE DEF S
  <2>3. n \in S
    BY <2>1, <2>2, UpTo
  <2>4. \E y \in I : y <= n
    <3>1. PICK y \in I : y \in 1 .. n
      OBVIOUS
    <3> QED BY <3>1
  <2> QED BY <2>3, <2>4 DEF S
<1>2. \E x \in I : \A y \in I : x >= y
  <2> DEFINE S == {i \in 0 .. n : (\E y \in I : y >= n + 1 - i) => \E x \in I : \A y \in I : x >= y}
  <2>1. 0 \in S
    OBVIOUS
  <2>2. ASSUME NEW i \in 1 .. n, i - 1 \in S PROVE i \in S
    <3>1. CASE \E y \in I : y >= n + 1 - (i - 1)
      BY <2>2, <3>1
    <3>2. CASE \A y \in I : y <= n + 1 - i
      BY <3>2
    <3> QED BY <3>1, <3>2
  <2> HIDE DEF S
  <2>3. n \in S
    BY <2>1, <2>2, UpTo
  <2>4. \E y \in I : y >= n + 1 - n
    <3>1. PICK y \in I : y \in 1 .. n
      OBVIOUS
    <3> QED BY <3>1
  <2> QED BY <2>3, <2>4 DEF S
<1> QED BY <1>1, <1>2

(* The greatest one.                                                       *)
LEMMA MaxIs == ASSUME NEW n \in Nat, NEW I, I \subseteq 1 .. n, I # {} PROVE Max(I) \in I
BY EndsOfIndices DEF Max

(* The least one.                                                          *)
LEMMA MinIs == ASSUME NEW n \in Nat, NEW I, I \subseteq 1 .. n, I # {} PROVE Min(I) \in I
BY EndsOfIndices DEF Min

(* A sequence of what is in a smaller set.                                 *)
LEMMA Retyped ==
  ASSUME NEW S, NEW T, NEW s \in Seq(S), \A i \in 1 .. Len(s) : s[i] \in T
  PROVE  s \in Seq(T)
OBVIOUS

(* A text is made of tokens.                                               *)
LEMMA OwnTexts ==
  /\ <<>> \in Seq(Tokens) /\ <<"rsync">> \in Seq(Tokens) /\ <<"zlib">> \in Seq(Tokens)
  /\ <<"zlibx">> \in Seq(Tokens) /\ <<"~">> \in Seq(Tokens) /\ <<"%n%L">> \in Seq(Tokens)
<1>1. {"-", "rsync", "zlib", "zlibx", "~", "%n%L"} \subseteq Tokens
  BY DEF Tokens
<1>2. \A d \in Tokens : <<d>> \in Seq(Tokens)
  OBVIOUS
<1> QED BY <1>1, <1>2, EmptySeq

(* A word is made of the tokens of the line.                               *)
LEMMA WordTokens ==
  ASSUME line \in Seq(WordType), NEW m \in 1 .. Len(line)
  PROVE  line[m].chars \in Seq(Tokens) /\ line[m].dashes \in Nat /\ line[m] \in ToSet(line)
<1>1. line[m] \in WordType /\ line[m] \in ToSet(line)
  BY DEF ToSet
<1>2. line[m].chars \in Seq(STRING) /\ line[m].dashes \in Nat
  BY <1>1 DEF WordType
<1>3. \A i \in 1 .. Len(line[m].chars) : line[m].chars[i] \in ToSet(line[m].chars)
  BY <1>2 DEF ToSet
<1>4. \A i \in 1 .. Len(line[m].chars) : line[m].chars[i] \in Tokens
  BY <1>1, <1>3, Zenon DEF Tokens
<1> QED BY <1>1, <1>2, <1>4, Retyped

(* What is behind the sign in a word.                                      *)
LEMMA AfterIs == ASSUME NEW T, NEW w, w.chars \in Seq(T) PROVE After(w) \in Seq(T)
<1> DEFINE I == {i \in 1 .. Len(w.chars) : w.chars[i] = "="}
<1>2. EqualsSign(w) = IF I # {} THEN Min(I) ELSE 0
  BY DEF EqualsSign, SelectInSeq
<1>7. I \subseteq 1 .. Len(w.chars) /\ Len(w.chars) \in Nat
  OBVIOUS
<1> HIDE DEF I
<1>3. I # {} => Min(I) \in I
  BY <1>7, MinIs
<1>4. EqualsSign(w) \in 0 .. Len(w.chars)
  <2>1. CASE I = {}
    BY <1>2, <1>7, <2>1
  <2>2. CASE I # {}
    <3>1. EqualsSign(w) \in 1 .. Len(w.chars)
      BY <1>2, <1>3, <1>7, <2>2
    <3> QED BY <1>7, <3>1
  <2> QED BY <2>1, <2>2
<1>5. CASE EqualsSign(w) = 0
  BY <1>5, EmptySeq DEF After
<1>6. CASE EqualsSign(w) # 0
  <2>1. EqualsSign(w) + 1 \in 1 .. Len(w.chars) + 1
    BY <1>4, <1>6, <1>7
  <2> QED BY <1>6, <2>1, SubSeqProperties DEF After
<1> QED BY <1>5, <1>6

(* A word as a text.                                                       *)
LEMMA TextOfIs ==
  ASSUME NEW T, "-" \in T, NEW w, w.chars \in Seq(T), w.dashes \in Nat
  PROVE  TextOf(w) \in Seq(T)
<1>1. \A d \in T, n \in Nat : [i \in 1 .. n |-> d] \in Seq(T)
  OBVIOUS
<1>2. [i \in 1 .. w.dashes |-> "-"] \in Seq(T)
  BY <1>1
<1> QED BY <1>2, ConcatProperties DEF TextOf

(* What is found, and the text it takes, are made of tokens.               *)
LEMMA FoundTyped ==
  ASSUME line \in Seq(WordType), NEW m, NEW k, At(args, cluster, m, k), OptionNext, NEW f \in Found
  PROVE  /\ f.cluster \in Seq(Tokens)
         /\ Takes(f.row) /\ ~(f.text = <<>> /\ f.cluster = <<>> /\ f.args = <<>>) => Argument(f).text \in Seq(Tokens)
<1>1. /\ m \in 1 .. Len(line) /\ k \in Nat
      /\ \/ f.text = After(line[m]) /\ f.cluster = <<>>
         \/ /\ k + 1 \in 1 .. Len(line[m].chars) /\ f.text = <<>>
            /\ f.cluster = SubSeq(line[m].chars, k + 2, Len(line[m].chars))
      /\ f.args = SubSeq(line, m + 1, Len(line))
  BY FoundIs
<1>2. line[m].chars \in Seq(Tokens)
  BY <1>1, WordTokens
<1>3. f.text \in Seq(Tokens)
  BY <1>1, <1>2, AfterIs, EmptySeq
<1>4. f.cluster \in Seq(Tokens)
  <2>1. CASE f.cluster = <<>>
    BY <2>1, EmptySeq
  <2>2. CASE k + 1 \in 1 .. Len(line[m].chars) /\ f.cluster = SubSeq(line[m].chars, k + 2, Len(line[m].chars))
    <3>1. k + 2 \in 1 .. Len(line[m].chars) + 1
      BY <1>1, <1>2, <2>2
    <3> QED BY <1>2, <2>2, <3>1, SubSeqProperties
  <2> QED BY <1>1, <2>1, <2>2
<1>5. f.args # <<>> => TextOf(Head(f.args)) \in Seq(Tokens)
  <2> SUFFICES ASSUME f.args # <<>> PROVE TextOf(Head(f.args)) \in Seq(Tokens)
    OBVIOUS
  <2>1. m + 1 \in 1 .. Len(line)
    BY <1>1, Rest
  <2>2. Head(f.args) = line[m + 1]
    BY <1>1, <2>1, Rest
  <2>3. line[m + 1].chars \in Seq(Tokens) /\ line[m + 1].dashes \in Nat
    BY <2>1, WordTokens
  <2>4. "-" \in Tokens
    BY DEF Tokens
  <2> QED BY <2>2, <2>3, <2>4, TextOfIs
<1>6. f.cluster # <<>> => Trim(f.cluster) \in Seq(Tokens)
  <2>1. \A T : \A c \in Seq(T) : c # <<>> => Tail(c) \in Seq(T)
    OBVIOUS
  <2> QED BY <1>4, <2>1 DEF Trim
<1>7. ASSUME Takes(f.row), ~(f.text = <<>> /\ f.cluster = <<>> /\ f.args = <<>>)
      PROVE  Argument(f).text \in Seq(Tokens)
  <2>1. CASE f.text # <<>>
    BY <1>3, <2>1 DEF Argument
  <2>2. CASE f.text = <<>> /\ f.cluster # <<>>
    BY <1>6, <2>2 DEF Argument
  <2>3. CASE f.text = <<>> /\ f.cluster = <<>>
    BY <1>5, <1>7, <2>3 DEF Argument
  <2> QED BY <2>1, <2>2, <2>3
<1> QED BY <1>4, <1>7

(* The levels that a text of --info sets.                                  *)
LEMMA LeveledIs ==
  ASSUME NEW levels, \A w \in InfoWords : levels[w] \in Nat, NEW T, NEW text \in Seq(T)
  PROVE  \A w \in InfoWords : Leveled(levels, text)[w] \in Nat
<1> TAKE w \in InfoWords
<1> DEFINE about == {i \in 1 .. Len(text) : text[i] \in DOMAIN Levels /\ Levels[text[i]].name \in {w, "all"}}
<1>1. Leveled(levels, text)[w] = IF about = {} THEN levels[w] ELSE Levels[text[Max(about)]].level
  BY DEF Leveled
<1>4. about \subseteq 1 .. Len(text) /\ Len(text) \in Nat
  OBVIOUS
<1> HIDE DEF about
<1>2. about # {} => Max(about) \in about
  BY <1>4, MaxIs
<1>3. about # {} => Levels[text[Max(about)]].level \in Nat
  BY <1>2, OptionsAssumption DEF about
<1> QED BY <1>1, <1>3

-----------------------------------------------------------------------------
(* What an option holds.                                                   *)

(* What an option may hold.                                                *)
FieldType(f, v) ==
  /\ f \in IntFields => v \in IF f \in Counters THEN Nat ELSE MinInt32 .. MaxInt32
  /\ f \in TextFields => v \in Seq(Tokens)
  /\ f = "missing_args" => v \in 0 .. 3
  /\ f = "relative_paths" => v \in {-1, 0, 1}
  /\ f = "implied_dirs" => v \in {0, 1}

Typed(p) == DOMAIN p = Fields /\ \A f \in Fields : FieldType(f, p[f])

(* Texts are texts in each row, the numbers the program sets fit.          *)
LEMMA TextsAre ==
  /\ TextFields \subseteq TextNames
  /\ \A r \in AllRows : r.field \in TextNames => r.field \in TextFields /\ r.kind = "text"
<1>1. \A r \in AllRows : GoodRow(r)
  BY GoodTables DEF Good
<1>2. TextFields \subseteq TextNames
  BY <1>1 DEF GoodRow, Allowed, TextFields
<1>3. ASSUME NEW r \in AllRows, r.field \in TextNames PROVE r.field \in TextFields /\ r.kind = "text"
  <2>1. r.kind = "text"
    BY <1>1, <1>3 DEF GoodRow, Allowed
  <2>2. r.field # "nil"
    BY <1>3 DEF TextNames
  <2> QED BY <2>1, <2>2 DEF TextFields
<1> QED BY <1>2, <1>3

(* The numbers the program itself sets fit 32 bits.                        *)
LEMMA SmallNumbers ==
  /\ \A v \in -1 .. 6 : v \in MinInt32 .. MaxInt32
  /\ \A v \in -1 .. 27 : v \in MinInt32 .. MaxInt32
  /\ MinInt32 \in MinInt32 .. MaxInt32
BY OptionsAssumption

(* The options that the program itself sets, apart from the table.         *)
LEMMA OwnFields ==
  /\ {"backup_suffix", "stdout_format", "compress_choice", "rsync_path", "backup_dir", "files_from"} \subseteq TextFields
  /\ {"xfer_dirs", "relative_paths", "implied_dirs", "missing_args", "recurse", "list_only", "verbose"} \subseteq Fields
<1>1. Has(ProgressOptions, "backup_suffix") /\ Has(ProgressOptions, "stdout_format")
      /\ Has(ProgressOptions, "backup_dir") /\ Has(ProgressOptions, "files_from") /\ Has(ProgressOptions, "list_only")
  <2>1. /\ Row({"suffix"}, {}, "text", "backup_suffix", 0, "") \in ProgressOptions
        /\ Row({"out-format", "log-format"}, {}, "text", "stdout_format", 0, "") \in ProgressOptions
        /\ Row({"backup-dir"}, {}, "text", "backup_dir", 0, "") \in ProgressOptions
        /\ Row({"files-from"}, {}, "text", "files_from", 0, "") \in ProgressOptions
        /\ Row({"list-only"}, {}, "none", "list_only", 2, "") \in ProgressOptions
    BY DEF ProgressOptions, Text, Val
  <2> QED BY <2>1, HasRow
<1>2. Has(CompareOptions, "compress_choice")
  <2>1. Row({"compress-choice", "zc"}, {}, "text", "compress_choice", 0, "") \in CompareOptions
    BY DEF CompareOptions, Text
  <2> QED BY <2>1, HasRow
<1>3. Has(RemoteOptions, "rsync_path")
  <2>1. Row({"rsync-path"}, {}, "text", "rsync_path", 0, "") \in RemoteOptions
    BY DEF RemoteOptions, Text
  <2> QED BY <2>1, HasRow
<1>4. Has(OutputOptions, "xfer_dirs") /\ Has(OutputOptions, "recurse") /\ Has(OutputOptions, "verbose")
  <2>1. /\ Row({"old-dirs", "old-d"}, {}, "none", "xfer_dirs", 4, "") \in OutputOptions
        /\ Row({"recursive"}, {"r"}, "none", "recurse", 2, "") \in OutputOptions
        /\ Row({"no-verbose", "no-v"}, {}, "none", "verbose", 0, "") \in OutputOptions
    BY DEF OutputOptions, Val, Toggle
  <2> QED BY <2>1, HasRow
<1>5. Has(LinkOptions, "relative_paths") /\ Has(LinkOptions, "implied_dirs")
  <2>1. /\ Row({"relative"}, {"R"}, "none", "relative_paths", 1, "") \in LinkOptions
        /\ Row({"implied-dirs", "i-d"}, {}, "none", "implied_dirs", 1, "") \in LinkOptions
    BY DEF LinkOptions, Val, Toggle
  <2> QED BY <2>1, HasRow
<1>6. Has(DeletionOptions, "missing_args")
  <2>1. Row({"delete-missing-args"}, {}, "or", "missing_args", 2, "") \in DeletionOptions
    BY DEF DeletionOptions, BitSet
  <2> QED BY <2>1, HasRow
<1>7. \A R \in {ProgressOptions, CompareOptions, RemoteOptions, OutputOptions, LinkOptions, DeletionOptions} :
        R \subseteq AllRows
  BY DEF AllRows, Tables, ClientOptions
<1>8. \A f \in {"backup_suffix", "stdout_format", "compress_choice", "rsync_path", "backup_dir", "files_from",
                "xfer_dirs", "relative_paths", "implied_dirs", "missing_args", "recurse", "list_only", "verbose"} :
        \E r \in AllRows : r.field = f
  BY <1>1, <1>2, <1>3, <1>4, <1>5, <1>6, <1>7 DEF Has
<1>9. {"backup_suffix", "stdout_format", "compress_choice", "rsync_path", "backup_dir", "files_from"} \subseteq TextNames
  BY DEF TextNames
<1>10. {"backup_suffix", "stdout_format", "compress_choice", "rsync_path", "backup_dir", "files_from"} \subseteq TextFields
  BY <1>8, <1>9, TextsAre
<1>11. \A f \in {"xfer_dirs", "relative_paths", "implied_dirs", "missing_args", "recurse", "list_only", "verbose"} :
        \E r \in AllRows : r.field = f /\ r.field \notin {"nil", "zero"}
  BY <1>8
<1> QED BY <1>10, <1>11, FieldOf

(* An option is a number or a text.                                        *)
LEMMA IntOrText == \A f \in Fields : f \notin TextFields => f \in IntFields
BY DEF Fields

(* A number is one.                                                        *)
LEMMA IntOf ==
  ASSUME NEW p, Typed(p), NEW f \in Fields, f \notin TextFields, f \notin Counters
  PROVE  p[f] \in Int
<1>1. p[f] \in MinInt32 .. MaxInt32
  BY IntOrText DEF Typed, FieldType
<1> QED BY <1>1, OptionsAssumption

(* No and yes are good for all that is no text, numbers for a counter.     *)
LEMMA NoAndYes ==
  /\ \A f : f \notin TextNames => FieldType(f, 0) /\ FieldType(f, 1)
  /\ \A f \in Counters, v \in Nat : FieldType(f, v)
  /\ \A f \in TextNames, v \in Seq(Tokens) : FieldType(f, v)
<1>1. ASSUME NEW f, f \notin TextNames PROVE FieldType(f, 0) /\ FieldType(f, 1)
  <2>1. f \notin TextFields
    BY <1>1, TextsAre
  <2>2. 0 \in MinInt32 .. MaxInt32 /\ 1 \in MinInt32 .. MaxInt32
    BY SmallNumbers
  <2> QED BY <2>1, <2>2 DEF FieldType
<1>2. ASSUME NEW f \in Counters, NEW v \in Nat PROVE FieldType(f, v)
  <2>1. f \notin TextNames /\ f # "missing_args" /\ f # "relative_paths" /\ f # "implied_dirs"
    BY CountersAre DEF TextNames
  <2>2. f \notin TextFields
    BY <2>1, TextsAre
  <2> QED BY <2>1, <2>2 DEF FieldType
<1>3. ASSUME NEW f \in TextNames, NEW v \in Seq(Tokens) PROVE FieldType(f, v)
  <2>1. f # "missing_args" /\ f # "relative_paths" /\ f # "implied_dirs"
    BY DEF TextNames
  <2>2. f \notin IntFields
    <3>1. f \notin {"quiet", "do_compression", "am_sender", "am_daemon"}
      BY DEF TextNames
    <3>2. \A r \in AllRows : r.field = f => f \in TextFields
      BY TextsAre
    <3> QED BY <3>1, <3>2 DEF IntFields
  <2> QED BY <2>1, <2>2 DEF FieldType
<1> QED BY <1>1, <1>2, <1>3

(* NewOptions.                                                             *)
LEMMA NewTyped == Typed(NewOptions)
<1> SUFFICES ASSUME NEW f \in Fields PROVE FieldType(f, NewOptions[f])
  BY DEF Typed, NewOptions
<1>1. CASE f \in TextFields
  <2>1. f \in TextNames
    BY <1>1, TextsAre
  <2>2. /\ f \notin {"output_motd", "human_readable", "allow_inc_recurse", "implied_dirs"}
        /\ f \notin {"xfer_dirs", "relative_paths", "whole_file", "blocking_io"}
        /\ f \notin {"max_delete", "do_compression_level"}
        /\ f \notin {"msgs2stderr", "default_af_hint", "protocol_version"}
    BY <2>1 DEF TextNames
  <2>3. NewOptions[f] \in {<<"rsync">>, <<>>}
    BY <1>1, <2>2 DEF NewOptions
  <2> QED BY <2>1, <2>3, OwnTexts, NoAndYes
<1>2. CASE f \notin TextFields
  <2>1. f # "rsync_path"
    BY <1>2, OwnFields
  <2>2. NewOptions[f] = CASE f \in {"output_motd", "human_readable", "allow_inc_recurse", "implied_dirs"} -> 1
                          [] f \in {"xfer_dirs", "relative_paths", "whole_file", "blocking_io"} -> -1
                          [] f \in {"max_delete", "do_compression_level"} -> MinInt32
                          [] f = "msgs2stderr" -> 2 [] f = "default_af_hint" -> 6 [] f = "protocol_version" -> 27
                          [] OTHER -> 0
    BY <1>2, <2>1 DEF NewOptions
  <2>3. /\ 1 \in MinInt32 .. MaxInt32 /\ -1 \in MinInt32 .. MaxInt32 /\ MinInt32 \in MinInt32 .. MaxInt32
        /\ 2 \in MinInt32 .. MaxInt32 /\ 6 \in MinInt32 .. MaxInt32 /\ 27 \in MinInt32 .. MaxInt32
        /\ 0 \in MinInt32 .. MaxInt32
    BY SmallNumbers
  <2>4. NewOptions[f] \in MinInt32 .. MaxInt32
    BY <2>2, <2>3
  <2>5. f \in Counters => NewOptions[f] \in {0, 1}
    BY <2>2, CountersAre
  <2>6. /\ f = "missing_args" => NewOptions[f] = 0
        /\ f = "relative_paths" => NewOptions[f] = -1
        /\ f = "implied_dirs" => NewOptions[f] = 1
    BY <2>2
  <2>7. 0 \in 0 .. 3 /\ -1 \in {-1, 0, 1} /\ 1 \in {0, 1} /\ (\A v \in {0, 1} : v \in Nat)
    OBVIOUS
  <2> DEFINE v == NewOptions[f]
  <2>8. /\ v \in MinInt32 .. MaxInt32 /\ (f \in Counters => v \in Nat)
        /\ (f = "missing_args" => v \in 0 .. 3) /\ (f = "relative_paths" => v \in {-1, 0, 1})
        /\ (f = "implied_dirs" => v \in {0, 1})
    BY <2>4, <2>5, <2>6, <2>7
  <2> HIDE DEF v
  <2>9. FieldType(f, v)
    BY <1>2, <2>8, Zenon DEF FieldType
  <2> QED BY <2>9 DEF v
<1> QED BY <1>1, <1>2

(* poptSaveInt and poptSaveArg.                                            *)
LEMMA SavedTyped ==
  ASSUME Typed(o), NEW r \in AllRows, GoodRow(r), r.field # "zero", NEW text,
         r.kind = "text" => text \in Seq(Tokens), r.kind = "int" => Numbers[text] \in MinInt32 .. MaxInt32
  PROVE  Typed(Saved(r, text))
<1>1. CASE r.field = "nil"
  BY <1>1 DEF Saved
<1>2. CASE r.field # "nil"
  <2>1. r.field \in Fields
    BY <1>2, FieldOf
  <2>2. /\ DOMAIN Saved(r, text) = Fields /\ \A f \in Fields : f # r.field => Saved(r, text)[f] = o[f]
    BY SavedFields DEF Typed
  <2>3. r.kind \in {"none", "or", "int", "text"}
    BY DEF GoodRow, Allowed
  <2>4. CASE r.kind = "none"
    <3>1. Saved(r, text)[r.field] = r.val
      BY <1>2, <2>1, <2>4, SavedFields DEF Typed
    <3>2. r.field \notin TextNames /\ r.field # "missing_args" /\ (r.field \in Decided => r.val \in {0, 1})
      BY <2>4 DEF GoodRow, Allowed
    <3>3. r.val \in -1 .. 6
      BY DEF GoodRow, Allowed, Vals
    <3>4. r.val \in MinInt32 .. MaxInt32
      BY <3>3, SmallNumbers
    <3>5. r.field \notin TextFields
      BY <3>2, TextsAre
    <3>7. \A v \in {0, 1} : v \in Nat /\ v \in {-1, 0, 1}
      OBVIOUS
    <3>6. FieldType(r.field, r.val)
      BY <3>2, <3>4, <3>5, <3>7, Zenon DEF FieldType, Decided
    <3> QED BY <2>2, <3>1, <3>6 DEF Typed
  <2>5. CASE r.kind = "or"
    <3>1. r.field = "missing_args" /\ r.val \in {1, 2}
      BY <2>5 DEF GoodRow, Allowed
    <3>2. o["missing_args"] \in 0 .. 3
      BY <2>1, <3>1 DEF Typed, FieldType
    <3>3. Saved(r, text)[r.field] = IF o[r.field] \in {r.val, 3} THEN o[r.field] ELSE o[r.field] + r.val
      BY <1>2, <2>1, <2>5 DEF Typed, Saved
    <3>4. Saved(r, text)[r.field] \in 0 .. 3
      BY <3>1, <3>2, <3>3
    <3>5. r.field \notin TextNames /\ r.field \notin Counters
      BY <3>1, CountersAre DEF TextNames
    <3>6. r.field \notin TextFields
      BY <3>5, TextsAre
    <3>7. \A v \in 0 .. 3 : v \in MinInt32 .. MaxInt32
      <4>1. \A v \in 0 .. 3 : v \in -1 .. 6
        OBVIOUS
      <4> QED BY <4>1, SmallNumbers
    <3>8. Saved(r, text)[r.field] \in MinInt32 .. MaxInt32
      BY <3>4, <3>7
    <3>9. FieldType(r.field, Saved(r, text)[r.field])
      BY <3>1, <3>4, <3>5, <3>6, <3>8 DEF FieldType
    <3> QED BY <2>2, <3>9 DEF Typed
  <2>6. CASE r.kind = "int"
    <3>1. Saved(r, text)[r.field] = Numbers[text]
      BY <1>2, <2>1, <2>6 DEF Typed, Saved
    <3>2. r.field \notin TextNames /\ r.field # "missing_args" /\ r.field \notin Decided
      BY <2>6 DEF GoodRow, Allowed
    <3>3. r.field \notin TextFields
      BY <3>2, TextsAre
    <3>4. FieldType(r.field, Numbers[text])
      BY <2>6, <3>2, <3>3 DEF FieldType, Decided
    <3> QED BY <2>2, <3>1, <3>4 DEF Typed
  <2>7. CASE r.kind = "text"
    <3>1. Saved(r, text)[r.field] = text
      BY <1>2, <2>1, <2>7 DEF Typed, Saved
    <3>2. r.field \in TextNames
      BY <1>2, <2>7 DEF GoodRow, Allowed
    <3>3. FieldType(r.field, text)
      BY <2>7, <3>2, NoAndYes
    <3> QED BY <2>2, <3>1, <3>3 DEF Typed
  <2> QED BY <2>3, <2>4, <2>5, <2>6, <2>7
<1> QED BY <1>1, <1>2

(* Switches may be set.                                                    *)
LEMMA SetTyped ==
  ASSUME NEW p, Typed(p), NEW fields, fields \cap TextNames = {}, NEW val \in {0, 1}
  PROVE  Typed(AllSet(p, fields, val))
<1> SUFFICES ASSUME NEW f \in Fields PROVE FieldType(f, AllSet(p, fields, val)[f])
  BY DEF Typed, AllSet
<1>1. AllSet(p, fields, val)[f] = IF f \in fields THEN val ELSE p[f]
  BY DEF AllSet
<1>2. f \in fields => FieldType(f, 0) /\ FieldType(f, 1)
  BY NoAndYes
<1>3. FieldType(f, p[f])
  BY DEF Typed
<1> QED BY <1>1, <1>2, <1>3

(* An option may be set to what it may hold.                               *)
LEMMA PutTyped ==
  ASSUME NEW p, Typed(p), NEW g, NEW v, g \in Fields => FieldType(g, v)
  PROVE  Typed([p EXCEPT ![g] = v])
<1>1. \A f \in Fields : FieldType(f, [p EXCEPT ![g] = v][f])
  BY DEF Typed
<1> QED BY <1>1 DEF Typed

(* The cases of the switch.                                                *)
LEMMA HandledTyped ==
  ASSUME NEW p, Typed(p), NEW code
  PROVE  Typed(Handled(code, p))
<1>1. CASE code = "a"
  <2>1. Handled(code, p) = AllSet(p, Archive \cup (IF p.recurse = 0 THEN {"recurse"} ELSE {}), 1)
    BY <1>1 DEF Handled, Counted
  <2>2. (Archive \cup (IF p.recurse = 0 THEN {"recurse"} ELSE {})) \cap TextNames = {}
    BY DEF Archive, TextNames
  <2> QED BY <2>1, <2>2, SetTyped
<1>2. CASE code \in {"D", "no-D"}
  <2>1. Handled(code, p) = AllSet(p, Devices, IF code = "D" THEN 1 ELSE 0)
    BY <1>2 DEF Handled, Counted
  <2>2. Devices \cap TextNames = {}
    BY DEF Devices, TextNames
  <2> QED BY <2>1, <2>2, SetTyped
<1>3. CASE code = "P"
  <2>1. Handled(code, p) = AllSet(p, {"do_progress", "keep_partial"}, 1)
    BY <1>3 DEF Handled, Counted
  <2>2. {"do_progress", "keep_partial"} \cap TextNames = {}
    BY DEF TextNames
  <2> QED BY <2>1, <2>2, SetTyped
<1>4. CASE code \in {"H", "server", "sender"}
  <2>1. PICK g \in {"preserve_hard_links", "am_server", "am_sender"} : Handled(code, p) = [p EXCEPT ![g] = 1]
    BY <1>4 DEF Handled, Counted
  <2>2. FieldType(g, 1)
    BY NoAndYes DEF TextNames
  <2>3. Typed([p EXCEPT ![g] = 1])
    BY <2>2, PutTyped
  <2> QED BY <2>1, <2>3
<1>5. \A g \in Counters : g \in Fields => FieldType(g, p[g] + 1) /\ p[g] \in Nat
  <2> SUFFICES ASSUME NEW g \in Counters, g \in Fields PROVE FieldType(g, p[g] + 1) /\ p[g] \in Nat
    OBVIOUS
  <2>1. g \notin TextNames
    BY CountersAre DEF TextNames
  <2>2. g \in IntFields
    BY <2>1, TextsAre, IntOrText
  <2>3. p[g] \in Nat
    BY <2>2 DEF Typed, FieldType
  <2> QED BY <2>3, NoAndYes
<1>6. CASE code = "U"
  <2>1. PICK q : q = [p EXCEPT !.preserve_atimes = @ + 1]
    OBVIOUS
  <2>2. Typed(q)
    BY <1>5, <2>1, PutTyped, CountersAre
  <2>3. Handled(code, p) = q \/ Handled(code, p) = [q EXCEPT !.open_noatime = 1]
    <3>1. Handled(code, p) = [p EXCEPT !.preserve_atimes = @ + 1,
                                       !.open_noatime = IF p.preserve_atimes > 0 THEN 1 ELSE @]
      BY <1>6 DEF Handled, Counted
    <3>2. CASE p.preserve_atimes > 0
      BY <2>1, <3>1, <3>2
    <3>3. CASE ~(p.preserve_atimes > 0)
      BY <2>1, <3>1, <3>3
    <3> QED BY <3>2, <3>3
  <2>4. FieldType("open_noatime", 1)
    BY NoAndYes DEF TextNames
  <2> QED BY <2>2, <2>3, <2>4, PutTyped
<1>7. CASE code \in {"old-compress", "new-compress"}
  <2>1. PICK v \in {<<"zlib">>, <<"zlibx">>} : Handled(code, p) = [p EXCEPT !["compress_choice"] = v]
    BY <1>7 DEF Handled, Counted
  <2>2. FieldType("compress_choice", v)
    BY OwnTexts, NoAndYes DEF TextNames
  <2>3. Typed([p EXCEPT !["compress_choice"] = v])
    BY <2>2, PutTyped
  <2> QED BY <2>1, <2>3
<1>8. CASE code = "no-compress"
  <2>1. PICK q : q = [p EXCEPT !["compress_choice"] = <<>>]
    OBVIOUS
  <2>2. FieldType("compress_choice", <<>>) /\ FieldType("do_compression", 0)
    BY OwnTexts, NoAndYes DEF TextNames
  <2>3. Typed(q)
    BY <2>1, <2>2, PutTyped
  <2>4. Handled(code, p) = [q EXCEPT !["do_compression"] = 0]
    BY <1>8, <2>1 DEF Handled, Counted
  <2>5. Typed([q EXCEPT !["do_compression"] = 0])
    BY <2>2, <2>3, PutTyped
  <2> QED BY <2>4, <2>5
<1>9. CASE code \in DOMAIN Counted \ {"U"}
  <2>1. PICK g : g = Counted[code] /\ g \in Counters
    BY <1>9 DEF Counters
  <2>2. Handled(code, p) = [p EXCEPT ![g] = p[g] + 1]
    BY <1>9, <2>1 DEF Handled, Counted
  <2>3. g \in Fields => FieldType(g, p[g] + 1)
    BY <1>5, <2>1
  <2>4. Typed([p EXCEPT ![g] = p[g] + 1])
    BY <2>3, PutTyped
  <2> QED BY <2>2, <2>4
<1>10. CASE code \notin {"a", "D", "no-D", "P", "H", "U", "server", "sender", "old-compress", "new-compress",
                         "no-compress"} \cup DOMAIN Counted
  BY <1>10 DEF Handled
<1> QED BY <1>1, <1>2, <1>3, <1>4, <1>6, <1>7, <1>8, <1>9, <1>10

(* The levels of --info.                                                   *)
LEMMA LevelsAre ==
  ASSUME NEW verbose, NEW levels, \A w \in InfoWords : levels[w] \in Nat
  PROVE  /\ DOMAIN SetOutputVerbosity(verbose, levels) = InfoWords
         /\ \A w \in InfoWords : SetOutputVerbosity(verbose, levels)[w] \in Nat
BY DEF SetOutputVerbosity

(* The defaults decide.                                                    *)
LEMMA DefaultsTyped ==
  ASSUME NEW p, Typed(p), NEW levels
  PROVE  /\ Typed(Defaults(p, levels))
         /\ Defaults(p, levels).xfer_dirs >= 0 /\ Defaults(p, levels).missing_args \in 0 .. 2
         /\ Defaults(p, levels).relative_paths \in {0, 1} /\ Defaults(p, levels).implied_dirs \in {0, 1}
<1> DEFINE d == Defaults(p, levels)
           changed == {"xfer_dirs", "relative_paths", "implied_dirs", "missing_args", "backup_suffix", "make_backups",
                       "stdout_format"}
<1>1. /\ "xfer_dirs" \in Fields /\ "relative_paths" \in Fields /\ "implied_dirs" \in Fields /\ "missing_args" \in Fields
      /\ "backup_suffix" \in Fields /\ "stdout_format" \in Fields
  BY OwnFields DEF Fields
<1>2. p.xfer_dirs \in Int /\ "xfer_dirs" \in IntFields
  <2>1. "xfer_dirs" \notin TextNames /\ "xfer_dirs" \notin Counters
    BY CountersAre DEF TextNames
  <2> QED BY <1>1, <2>1, TextsAre, IntOf, IntOrText
<1>3. p.relative_paths \in {-1, 0, 1} /\ p.implied_dirs \in {0, 1} /\ p.missing_args \in 0 .. 3
  BY <1>1 DEF Typed, FieldType
<1>4. DOMAIN d = Fields /\ \A f \in Fields : f \notin changed => d[f] = p[f]
  BY DEF Typed, Defaults
<1>5. d.xfer_dirs >= 0 /\ (d.xfer_dirs = p.xfer_dirs \/ d.xfer_dirs \in {0, 1})
  <2>1. d.xfer_dirs = IF p.recurse # 0 \/ (p.xfer_dirs < 0 /\ p.list_only # 0) THEN 1 ELSE IF p.xfer_dirs < 0 THEN 0 ELSE p.xfer_dirs
    BY <1>1 DEF Typed, Defaults
  <2> QED BY <1>2, <2>1
<1>6. d.relative_paths \in {0, 1}
  <2>1. d.relative_paths = IF p.relative_paths >= 0 THEN p.relative_paths ELSE IF p.files_from # <<>> THEN 1 ELSE 0
    BY <1>1 DEF Typed, Defaults
  <2> QED BY <1>3, <2>1
<1>7. d.implied_dirs \in {0, 1}
  <2>1. d.implied_dirs \in {0, p.implied_dirs}
    BY <1>1 DEF Typed, Defaults
  <2> QED BY <1>3, <2>1
<1>8. d.missing_args \in 0 .. 2
  <2>1. d.missing_args = IF p.missing_args = 3 THEN 2 ELSE p.missing_args
    BY <1>1 DEF Typed, Defaults
  <2> QED BY <1>3, <2>1
<1>9. d.backup_suffix \in {<<"~">>, p.backup_suffix} /\ d.stdout_format \in {<<"%n%L">>, p.stdout_format}
  <2>1. d.backup_suffix \in {<<"~">>, p.backup_suffix}
    BY <1>1 DEF Typed, Defaults
  <2>2. d.stdout_format \in {<<"%n%L">>, p.stdout_format}
    BY <1>1 DEF Typed, Defaults
  <2> QED BY <2>1, <2>2
<1>10. "make_backups" \in Fields => d.make_backups \in {1, p.make_backups}
  BY DEF Typed, Defaults
<1> HIDE DEF d
<1>11. \A f \in Fields : FieldType(f, p[f])
  BY DEF Typed
<1>12. ASSUME NEW f \in Fields PROVE FieldType(f, d[f])
  <2>1. CASE f = "xfer_dirs"
    <3>1. FieldType(f, 0) /\ FieldType(f, 1)
      BY <2>1, NoAndYes DEF TextNames
    <3> QED BY <1>5, <1>11, <2>1, <3>1
  <2>2. CASE f \in {"relative_paths", "implied_dirs"}
    <3>1. FieldType(f, 0) /\ FieldType(f, 1)
      BY <2>2, NoAndYes DEF TextNames
    <3> QED BY <1>6, <1>7, <2>2, <3>1
  <2>3. CASE f = "missing_args"
    <3>1. f \notin TextFields /\ f \notin Counters
      <4>1. f \notin TextNames
        BY <2>3 DEF TextNames
      <4> QED BY <2>3, <4>1, TextsAre, CountersAre
    <3>2. d[f] \in 0 .. 3 /\ d[f] \in MinInt32 .. MaxInt32
      <4>1. \A v \in 0 .. 2 : v \in 0 .. 3 /\ v \in -1 .. 6
        OBVIOUS
      <4> QED BY <1>8, <2>3, <4>1, SmallNumbers
    <3> QED BY <2>3, <3>1, <3>2 DEF FieldType
  <2>4. CASE f \in {"backup_suffix", "stdout_format"}
    <3>1. FieldType(f, <<"~">>) /\ FieldType(f, <<"%n%L">>)
      BY <2>4, OwnTexts, NoAndYes DEF TextNames
    <3> QED BY <1>9, <1>11, <2>4, <3>1
  <2>5. CASE f = "make_backups"
    <3>1. FieldType(f, 1)
      BY <2>5, NoAndYes DEF TextNames
    <3> QED BY <1>10, <1>11, <2>5, <3>1
  <2>6. CASE f \notin changed
    BY <1>4, <1>11, <2>6
  <2> QED BY <2>1, <2>2, <2>3, <2>4, <2>5, <2>6
<1>13. Typed(d)
  BY <1>4, <1>12 DEF Typed
<1> QED BY <1>5, <1>6, <1>7, <1>8, <1>13 DEF d

-----------------------------------------------------------------------------
(* Types.                                                                  *)

TypeInv ==
  /\ line \in Seq(WordType) /\ (status = "parsing" => \E m, k : At(args, cluster, m, k))
  /\ Typed(o) /\ TypeOK

(* What is left of the line is made of its words and tokens.               *)
LEMMA AtTyped ==
  ASSUME line \in Seq(WordType), NEW ar, NEW cl, NEW m, NEW k, At(ar, cl, m, k)
  PROVE  cl \in Seq(Tokens) /\ \A w \in ToSet(ar) : w \in ToSet(line)
<1>1. ASSUME NEW n \in 1 .. Len(line) + 1, ar = SubSeq(line, n, Len(line))
      PROVE  \A w \in ToSet(ar) : w \in ToSet(line)
  <2>1. \A i \in 1 .. Len(ar) : ar[i] = line[n + i - 1] /\ n + i - 1 \in 1 .. Len(line)
    BY <1>1
  <2>2. DOMAIN ar = 1 .. Len(ar) /\ DOMAIN line = 1 .. Len(line)
    BY <1>1
  <2> QED BY <2>1, <2>2 DEF ToSet
<1>2. CASE AtWord(ar, cl, m)
  BY <1>1, <1>2, EmptySeq DEF AtWord
<1>3. CASE AtLetter(ar, cl, m, k)
  <2>1. /\ m \in 1 .. Len(line) /\ k \in 1 .. Len(line[m].chars) - 1
        /\ cl = SubSeq(line[m].chars, k + 1, Len(line[m].chars)) /\ ar = SubSeq(line, m + 1, Len(line))
    BY <1>3 DEF AtLetter
  <2>2. line[m].chars \in Seq(Tokens) /\ m + 1 \in 1 .. Len(line) + 1
    BY <2>1, WordTokens
  <2>3. k + 1 \in 1 .. Len(line[m].chars) + 1
    BY <2>1, <2>2
  <2>4. cl \in Seq(Tokens)
    BY <2>1, <2>2, <2>3, SubSeqProperties
  <2> QED BY <1>1, <2>1, <2>2, <2>4
<1> QED BY <1>2, <1>3 DEF At

(* The types depend on the line alone.                                     *)
LEMMA TypedStays ==
  ASSUME UNCHANGED line, NEW p, Typed(p)
  PROVE  Typed(p)'
<1>1. Tokens' = Tokens
  BY DEF Tokens
<1> QED BY <1>1 DEF Typed, FieldType

(* The types of TypeOK.                                                    *)
LEMMA TypedIs ==
  ASSUME Typed(o)
  PROVE  /\ \A f \in IntFields : o[f] \in IF f \in Counters THEN Nat ELSE MinInt32 .. MaxInt32
         /\ \A f \in TextFields : o[f] \in Seq(Tokens)
BY DEF Typed, FieldType, Fields

(* At first all types are right.                                           *)
LEMMA TypesInit == Init => TypeInv
<1> SUFFICES ASSUME Init PROVE TypeInv
  OBVIOUS
<1>1. /\ line \in Seq(WordType) /\ args = line /\ cluster = <<>> /\ status = "parsing" /\ table = "main"
      /\ o = NewOptions /\ info = [w \in InfoWords |-> 0] /\ remaining = <<>>
  BY OptionsAssumption DEF Init, WordType
<1>2. At(args, cluster, 1, 0)
  BY <1>1, StartIs DEF At, AtWord
<1>3. Typed(o)
  BY <1>1, NewTyped
<1>4. cluster \in Seq(Tokens) /\ \A w \in ToSet(args) \cup ToSet(remaining) : w \in ToSet(line)
  BY <1>1, EmptySeq DEF ToSet
<1>5. \A w \in InfoWords : info[w] \in Nat
  BY <1>1
<1> QED BY <1>1, <1>2, <1>3, <1>4, <1>5, TypedIs DEF TypeInv, TypeOK

(* Whatever ends with an error ends.                                       *)
LEMMA EndsKeepTypes ==
  ASSUME TypeInv, NEW e \in {"panic"} \cup Errors, Ends(e)
  PROVE  TypeInv'
<1>1. UNCHANGED <<line, table, args, cluster, o, info, remaining>> /\ status' = e
  BY DEF Ends
<1>2. e # "parsing" /\ e # "ok"
  BY DEF Errors
<1>3. Typed(o)'
  <2>1. PICK p : p = o
    OBVIOUS
  <2>2. Typed(p)'
    BY <1>1, <2>1, TypedStays DEF TypeInv
  <2> QED BY <1>1, <2>1, <2>2 DEF Typed
<1>4. Tokens' = Tokens
  BY <1>1 DEF Tokens
<1> QED BY <1>1, <1>2, <1>3, <1>4 DEF TypeInv, TypeOK

(* An option that was read, whatever it did.                               *)
LEMMA OptionKeepsTypes ==
  ASSUME TypeInv, status = "parsing", OptionNext, NEW f \in Found,
         UNCHANGED <<line, table, remaining, status>>, Leaves(f, args', cluster'),
         NEW new, Typed(new), o' = new, \A w \in InfoWords : info'[w] \in Nat
  PROVE  TypeInv'
<1>1. PICK m, k : At(args, cluster, m, k)
  BY DEF TypeInv
<1>2. line \in Seq(WordType)
  BY DEF TypeInv
<1>3. PICK ar, cl : ar = args' /\ cl = cluster'
  OBVIOUS
<1>4. Leaves(f, ar, cl)
  BY <1>3
<1>5. \E n, l : Goes(ar, cl, m, k, n, l)
  BY <1>1, <1>2, <1>4, OptionRead
<1>6. PICK n, l : Goes(ar, cl, m, k, n, l)
  BY <1>5
<1>7. At(ar, cl, n, l)
  BY <1>6 DEF Goes
<1>8. At(args, cluster, n, l)'
  BY <1>3, <1>7, AtStays
<1>9. cl \in Seq(Tokens) /\ \A w \in ToSet(ar) : w \in ToSet(line)
  BY <1>2, <1>7, AtTyped
<1>10. Tokens' = Tokens
  BY DEF Tokens
<1>11. Typed(new)'
  BY TypedStays
<1>12. Typed(o)'
  BY <1>11 DEF Typed
<1>13. /\ \A g \in IntFields : o'[g] \in IF g \in Counters THEN Nat ELSE MinInt32 .. MaxInt32
       /\ \A g \in TextFields : o'[g] \in Seq(Tokens)
  BY DEF Typed, FieldType, Fields
<1>14. TypeOK'
  BY <1>3, <1>9, <1>10, <1>13 DEF TypeInv, TypeOK
<1> QED BY <1>2, <1>8, <1>12, <1>14 DEF TypeInv

(* An operand is a word of the line.                                       *)
LEMMA OperandKeepsTypes ==
  ASSUME TypeInv, status = "parsing", Operand
  PROVE  TypeInv'
<1>1. line \in Seq(WordType)
  BY DEF TypeInv
<1>2. CASE Ends("BADOPT")
  BY <1>2, EndsKeepTypes DEF Errors
<1>3. CASE TextOf(Head(args)) # <<>>
  <2>1. /\ cluster = <<>> /\ args # <<>> /\ ~IsOption(Head(args)) /\ args' = Tail(args)
        /\ remaining' = Append(remaining, Head(args)) /\ UNCHANGED <<line, table, cluster, o, info, status>>
    BY <1>3 DEF Operand
  <2>2. PICK m, k : At(args, cluster, m, k)
    BY DEF TypeInv
  <2>3. m \in 1 .. Len(line) /\ Head(args) = line[m] /\ Goes(Tail(args), <<>>, m, 0, m + 1, 0)
    BY <1>1, <2>1, <2>2, OperandRead
  <2>4. At(Tail(args), <<>>, m + 1, 0)
    BY <2>3 DEF Goes
  <2>5. PICK ar, p : ar = Tail(args) /\ p = o
    OBVIOUS
  <2>6. At(args, cluster, m + 1, 0)'
    BY <2>1, <2>4, <2>5, AtStays
  <2>7. \A w \in ToSet(ar) : w \in ToSet(line)
    BY <1>1, <2>4, <2>5, AtTyped
  <2>8. Head(args) \in ToSet(line)
    BY <1>1, <2>3, WordTokens
  <2>9. Typed(o)'
    <3>1. Typed(p)'
      BY <2>1, <2>5, TypedStays DEF TypeInv
    <3> QED BY <2>1, <2>5, <3>1 DEF Typed
  <2>10. Tokens' = Tokens
    BY <2>1 DEF Tokens
  <2>11. \A w \in ToSet(remaining') : w \in ToSet(remaining) \/ w = Head(args)
    BY <2>1 DEF ToSet
  <2>12. \A w \in ToSet(args') \cup ToSet(remaining') : w \in ToSet(line')
    BY <2>1, <2>5, <2>7, <2>8, <2>11 DEF TypeInv, TypeOK
  <2> QED BY <1>1, <2>1, <2>6, <2>9, <2>10, <2>12 DEF TypeInv, TypeOK
<1> QED BY <1>2, <1>3 DEF Operand

(* The defaults decide what was left open.                                 *)
LEMMA FinishKeepsTypes ==
  ASSUME TypeInv, status = "parsing", Finish
  PROVE  TypeInv'
<1>1. /\ line \in Seq(WordType) /\ table \in {"main", "daemon"} /\ Typed(o)
      /\ \A w \in InfoWords : info[w] \in Nat
  BY DEF TypeInv, TypeOK
<1>2. UNCHANGED <<line, table, args, cluster, remaining>> /\ status' = "ok"
  BY DEF Finish
<1>3. PICK new : new = o'
  OBVIOUS
<1>4. Tokens' = Tokens
  BY <1>2 DEF Tokens
<1>5. CASE table = "main"
  <2>1. PICK levels : /\ levels = SetOutputVerbosity(o.verbose, info)
                      /\ info' = [levels EXCEPT !.name = NameLevel(o, levels)] /\ o' = Defaults(o, levels)
    BY <1>5 DEF Finish
  <2>2. \A w \in InfoWords : info'[w] \in Nat
    <3>1. DOMAIN levels = InfoWords /\ \A w \in InfoWords : levels[w] \in Nat
      BY <1>1, <2>1, LevelsAre
    <3>2. "name" \in InfoWords
      BY DEF InfoWords
    <3>3. NameLevel(o, levels) \in Nat
      BY <3>1, <3>2 DEF NameLevel
    <3> QED BY <2>1, <3>1, <3>3
  <2>3. /\ Typed(new) /\ new.xfer_dirs >= 0 /\ new.missing_args \in 0 .. 2
        /\ new.relative_paths \in {0, 1} /\ new.implied_dirs \in {0, 1}
    BY <1>1, <1>3, <2>1, DefaultsTyped
  <2>4. Typed(new)'
    BY <1>2, <2>3, TypedStays
  <2>5. Typed(o)'
    BY <1>3, <2>4 DEF Typed
  <2>6. /\ \A g \in IntFields : o'[g] \in IF g \in Counters THEN Nat ELSE MinInt32 .. MaxInt32
        /\ \A g \in TextFields : o'[g] \in Seq(Tokens)
    BY <1>3, <2>3 DEF Typed, FieldType, Fields
  <2>7. TypeOK'
    BY <1>2, <1>3, <1>4, <2>2, <2>3, <2>6 DEF TypeInv, TypeOK
  <2> QED BY <1>1, <1>2, <2>5, <2>7 DEF TypeInv
<1>6. CASE table = "daemon"
  <2>1. o' = [o EXCEPT !["am_daemon"] = 1] /\ info' = info
    BY <1>6 DEF Finish
  <2>2. FieldType("am_daemon", 1)
    BY NoAndYes DEF TextNames
  <2>3. Typed([o EXCEPT !["am_daemon"] = 1])
    BY <1>1, <2>2, PutTyped
  <2>4. Typed(new)
    BY <1>3, <2>1, <2>3
  <2>5. Typed(new)'
    BY <1>2, <2>4, TypedStays
  <2>6. Typed(o)'
    BY <1>3, <2>5 DEF Typed
  <2>7. /\ \A g \in IntFields : o'[g] \in IF g \in Counters THEN Nat ELSE MinInt32 .. MaxInt32
        /\ \A g \in TextFields : o'[g] \in Seq(Tokens)
    BY <1>3, <2>4 DEF Typed, FieldType, Fields
  <2>8. TypeOK'
    BY <1>2, <1>4, <1>6, <2>1, <2>7 DEF TypeInv, TypeOK
  <2> QED BY <1>1, <1>2, <2>6, <2>8 DEF TypeInv
<1> QED BY <1>1, <1>5, <1>6

(* Each step of the parser keeps the types.                                *)
LEMMA TypesNext == TypeInv /\ [Next]_vars => TypeInv'
<1> SUFFICES ASSUME TypeInv, [Next]_vars PROVE TypeInv'
  OBVIOUS
<1>1. /\ line \in Seq(WordType) /\ table \in {"main", "daemon"} /\ Typed(o)
      /\ \A w \in InfoWords : info[w] \in Nat
  BY DEF TypeInv, TypeOK
<1>2. CASE status = "parsing" /\ Operand
  BY <1>2, OperandKeepsTypes
<1>3. CASE status = "parsing" /\ Unknown
  BY <1>3, EndsKeepTypes DEF Unknown, Errors
<1>4. CASE status = "parsing" /\ Refuse
  <2>1. PICK f \in Found : Fault(f) # "none" /\ Ends(Fault(f))
    BY <1>4 DEF Refuse
  <2>2. Fault(f) \in {"panic"} \cup Errors
    BY <2>1, FaultIs DEF Errors
  <2> QED BY <2>1, <2>2, EndsKeepTypes
<1>5. CASE status = "parsing" /\ Restart
  <2>1. /\ table' = "daemon" /\ args' = line /\ cluster' = <<>> /\ remaining' = <<>>
        /\ line' = line /\ status' = status /\ o' = o /\ info' = info
    BY <1>5 DEF Restart
  <2>2. Swallowed("daemon")' = Swallowed("daemon")
    BY <2>1 DEF Swallowed
  <2>3. AtWord(args, cluster, 1)'
    BY <1>1, <2>1, <2>2, StartIs DEF AtWord
  <2>4. At(args, cluster, 1, 0)'
    BY <2>3 DEF At
  <2>5. PICK p : p = o
    OBVIOUS
  <2>6. Typed(o)'
    <3>1. Typed(p)'
      BY <1>1, <2>1, <2>5, TypedStays
    <3> QED BY <2>1, <2>5, <3>1 DEF Typed
  <2>7. Tokens' = Tokens
    BY <2>1 DEF Tokens
  <2>8. cluster' \in Seq(Tokens) /\ \A w \in ToSet(args') \cup ToSet(remaining') : w \in ToSet(line')
    BY <2>1, EmptySeq DEF ToSet
  <2>9. TypeOK'
    BY <1>5, <2>1, <2>7, <2>8 DEF TypeInv, TypeOK
  <2> QED BY <1>1, <1>5, <2>1, <2>4, <2>6, <2>9 DEF TypeInv
<1>6. CASE status = "parsing" /\ TakeFlag
  <2>1. PICK f \in Found :
          /\ Fault(f) = "none" /\ ~Takes(f.row) /\ args' = f.args /\ cluster' = f.cluster
          /\ o' = Handled(f.row.code, Saved(f.row, <<>>))
    BY <1>6 DEF TakeFlag
  <2>2. OptionNext /\ UNCHANGED <<line, table, info, remaining, status>>
    BY <1>6 DEF TakeFlag
  <2>3. Leaves(f, args', cluster')
    BY <2>1, NoFault DEF Leaves
  <2>4. GoodRow(f.row) /\ f.row \in AllRows
    BY <1>1, FoundGood
  <2>5. f.row.field # "zero" /\ f.row.kind # "text" /\ f.row.kind # "int"
    BY <2>1 DEF Fault, Takes
  <2>6. Typed(Saved(f.row, <<>>))
    BY <1>1, <2>4, <2>5, SavedTyped
  <2>7. PICK new : new = o'
    OBVIOUS
  <2>8. Typed(new)
    BY <2>1, <2>6, <2>7, HandledTyped
  <2>9. \A w \in InfoWords : info'[w] \in Nat
    BY <1>1, <2>2
  <2> QED BY <1>6, <2>2, <2>3, <2>7, <2>8, <2>9, OptionKeepsTypes
<1>7. CASE status = "parsing" /\ TakeText
  <2>1. PICK f \in Found :
          /\ Fault(f) = "none" /\ Takes(f.row) /\ args' = Argument(f).args /\ cluster' = <<>>
          /\ o' = Saved(f.row, Argument(f).text)
          /\ info' = IF f.row.code = "info" THEN Leveled(info, Argument(f).text) ELSE info
    BY <1>7 DEF TakeText
  <2>2. OptionNext /\ UNCHANGED <<line, table, remaining, status>>
    BY <1>7 DEF TakeText
  <2>3. Leaves(f, args', cluster')
    BY <2>1, NoFault DEF Leaves
  <2>4. GoodRow(f.row) /\ f.row \in AllRows
    BY <1>1, FoundGood
  <2>5. f.row.field # "zero" /\ (f.row.kind = "int" => Numbers[Argument(f).text] \in MinInt32 .. MaxInt32)
    BY <2>1 DEF Fault, Fits
  <2>6. PICK m, k : At(args, cluster, m, k)
    BY <1>7 DEF TypeInv
  <2>7. Argument(f).text \in Seq(Tokens)
    BY <1>1, <2>1, <2>2, <2>6, FoundTyped, NoFault
  <2>8. Typed(Saved(f.row, Argument(f).text))
    BY <1>1, <2>4, <2>5, <2>7, SavedTyped
  <2>9. PICK new : new = o'
    OBVIOUS
  <2>10. Typed(new)
    BY <2>1, <2>8, <2>9
  <2>11. \A w \in InfoWords : info'[w] \in Nat
    BY <1>1, <2>1, <2>7, LeveledIs
  <2> QED BY <1>7, <2>2, <2>3, <2>9, <2>10, <2>11, OptionKeepsTypes
<1>8. CASE status = "parsing" /\ Finish
  BY <1>8, FinishKeepsTypes
<1>9. CASE UNCHANGED vars
  <2>1. UNCHANGED <<line, table, args, cluster, o, info, remaining, status>>
    BY <1>9 DEF vars
  <2>2. \A m, k : At(args, cluster, m, k) => At(args, cluster, m, k)'
    BY <2>1, AtStays
  <2>3. PICK p : p = o
    OBVIOUS
  <2>4. Typed(o)'
    <3>1. Typed(p)'
      BY <1>1, <2>1, <2>3, TypedStays
    <3> QED BY <2>1, <2>3, <3>1 DEF Typed
  <2>5. Tokens' = Tokens
    BY <2>1 DEF Tokens
  <2>6. TypeOK'
    BY <2>1, <2>5 DEF TypeInv, TypeOK
  <2> QED BY <2>1, <2>2, <2>4, <2>6 DEF TypeInv
<1> QED BY <1>2, <1>3, <1>4, <1>5, <1>6, <1>7, <1>8, <1>9 DEF Next

(* Types: no text is made up, what is no count of letters fits 32 bits, and*)
(* after the defaults nothing is undecided (poptSaveInt, the defaults of   *)
(* ParseArguments).                                                        *)
THEOREM TypesHold == Spec => []TypeOK
<1>1. TypeInv => TypeOK
  BY DEF TypeInv
<1> QED BY <1>1, TypesInit, TypesNext, PTL DEF Spec
=============================================================================
