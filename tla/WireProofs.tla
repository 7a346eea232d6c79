----------------------------- MODULE WireProofs -----------------------------
(***************************************************************************)
(* The reader of a connection never loses its place, and what it delivers  *)
(* is the stream that was written.  The invariant says of each cell on its *)
(* way, and of the cell read last, what comes after it.                    *)
(***************************************************************************)
EXTENDS Wire, TLAPS

Messages == [tag : Tag, size : Nat, at : Nat]

(* The cell at place i of message m: integers of the greeting are counted  *)
(* up to 0, the header of a message is at 0, and bytes come after it.      *)
Cell(m, i) == IF m = Hello THEN Plain(i) ELSE IF i = 0 THEN Header(m) ELSE Byte(m, i)

PlainCells  == [k : {"plain"}, of : {Hello}, off : Int]
HeaderCells == [k : {"header"}, top : SUBSET Int, low : Nat, of : Messages, off : {0}]
ByteCells   == [k : {"byte"}, v : Nat, of : Messages, off : Nat]
Cells       == PlainCells \cup HeaderCells \cup ByteCells

Size(m)  == IF m.tag = "data" THEN m.size ELSE 0

(* How many cells the message of c has after c, the data bytes up to c and *)
(* those up to the end of its message.                                     *)
Rest(c)  == c.of.size - c.off
Upto(c)  == c.of.at + (IF c.of.tag = "data" THEN c.off ELSE 0)
After(c) == c.of.at + Size(c.of)

(* A cell of a message that is short enough, after w data bytes were       *)
(* written.                                                                *)
CellOK(c, w) ==
  c = Cell(c.of, c.off) /\ Rest(c) >= 0 /\ Upto(c) <= w /\ c.of.size < Span

(* After c, which is at place i of s, comes the rest of its message, and   *)
(* then the header of one that begins where the data of c's message end.   *)
Leads(c, s, i) ==
  /\ \A j \in 1 .. Len(s) : j > i /\ j <= i + Rest(c) => s[j] = Cell(c.of, c.off + (j - i))
  /\ \A j \in 1 .. Len(s) : j = i + Rest(c) + 1 =>
       s[j].k = "header" /\ s[j].off = 0 /\ s[j].of.at = After(c)

End == IF conn = <<>> THEN last ELSE conn[Len(conn)]

WriterInv ==
  \/ closed
  \/ /\ plainOut > 0 /\ pending = NoMessage
     /\ End = Plain(-plainOut) /\ written = 0
  \/ /\ plainOut = 0 /\ pending = NoMessage
     /\ Rest(End) = 0 /\ After(End) = written
  \/ /\ plainOut = 0 /\ pending \in Messages
     /\ End = Header(pending) /\ pending.at = written

ReaderInv ==
  /\ reader = "plain"   => last = Plain(-plainIn) /\ plainIn > 0 /\ Len(got) = 0
  /\ reader = "header"  => Rest(last) = 0 /\ After(last) = Len(got)
  /\ reader = "payload" => last.k = "header" /\ last.off = 0 /\ last.of.at = Len(got)

TypeInv ==
  /\ plainOut \in Nat /\ plainIn \in Int /\ pending \in Messages \cup {NoMessage}
  /\ conn \in Seq(Cells) /\ last \in Cells
  /\ closed \in BOOLEAN /\ over \in BOOLEAN /\ written \in Nat /\ buffer \in Nat
  /\ reader \in {"plain", "header", "payload"} \cup Ended
  /\ reader = "payload" => last \in HeaderCells /\ last.low <= MaxMessage
  /\ got \in Seq(Nat)

Framed ==
  /\ \A i \in 1 .. Len(conn) : CellOK(conn[i], written) /\ Leads(conn[i], conn, i)
  /\ CellOK(last, written) /\ Leads(last, conn, 0)

InOrder == got = [i \in 1 .. Len(got) |-> i]

Ordered == Framed /\ WriterInv /\ ReaderInv /\ InOrder /\ reader # "lost"

WireInv == TypeInv /\ LargeBufferIsEnough /\ (~over => Ordered)

-----------------------------------------------------------------------------
LEMMA Fields ==
  ASSUME NEW m \in Messages \cup {Hello}, NEW i
  PROVE  Cell(m, i).of = m /\ Cell(m, i).off = i
  BY DEF Cell, Plain, Header, Byte

LEMMA ByteFields ==
  ASSUME NEW m, NEW i
  PROVE  /\ Byte(m, i).k = "byte" /\ Byte(m, i).of = m /\ Byte(m, i).off = i
         /\ m.tag = "data" => Byte(m, i).v = m.at + i
  BY DEF Byte

LEMMA Short ==
  ASSUME NEW n \in Nat, n < Span
  PROVE  n % Span = n /\ Spilled(n) = {}
  BY WireAssumption DEF Spilled

LEMMA HeaderType ==
  ASSUME NEW m \in Messages
  PROVE  Header(m) \in HeaderCells
<1>1. m.size % Span \in Nat BY WireAssumption DEF Messages
<1>2. Bits(m.tag) \cup Spilled(m.size) \in SUBSET Int BY DEF Bits, Spilled, Messages, Tag
<1> QED BY <1>1, <1>2 DEF Header, HeaderCells

LEMMA HeaderFacts ==
  ASSUME NEW m \in Messages, m.size < Span
  PROVE  Header(m).top = Bits(m.tag) /\ Header(m).low = m.size
  BY Short DEF Header, Messages

LEMMA BitsDiffer ==
  /\ Bits("data") # Bits("error")
  /\ Bits("info") # Bits("error") /\ Bits("info") # Bits("data")
<1>1. 0 \in Bits("data") /\ 0 \notin Bits("error") /\ 3 \notin Bits("data")
      /\ 3 \in Bits("info") /\ 0 \in Bits("info")
  BY DEF Bits
<1> QED BY <1>1

(* What the first n cells carry is a sequence.                             *)
LEMMA Values ==
  ASSUME NEW s, NEW n \in Nat, \A i \in 1 .. n : s[i].v \in Nat
  PROVE  [i \in 1 .. n |-> s[i].v] \in Seq(Nat)
<1> DEFINE f == [i \in 1 .. n |-> s[i].v]
<1>1. f \in [1 .. n -> Nat]
  OBVIOUS
<1> HIDE DEF f
<1>2. f \in Seq(Nat)
  BY <1>1
<1> QED BY <1>2 DEF f

LEMMA Between ==
  ASSUME NEW a \in Int, NEW b \in Int, NEW k \in Int, NEW n \in Int, NEW w \in Int,
         k <= n, a + (b + n) <= w
  PROVE  a + (b + k) <= w
  OBVIOUS

(* A sequence of which the first n cells are gone.                         *)
LEMMA LeadsDrop ==
  ASSUME NEW s \in Seq(Cells), NEW t \in Seq(Cells), NEW n \in 0 .. Len(s),
         Len(t) = Len(s) - n, \A j \in 1 .. Len(t) : t[j] = s[j + n],
         NEW c \in Cells, NEW i \in Nat, Leads(c, s, i + n)
  PROVE  Leads(c, t, i)
<1>1. Rest(c) \in Int BY DEF Rest, Cells, PlainCells, HeaderCells, ByteCells, Messages, Hello
<1>2. ASSUME NEW j \in 1 .. Len(t)
      PROVE  j + n \in 1 .. Len(s) /\ t[j] = s[j + n] /\ (j + n) - (i + n) = j - i
  OBVIOUS
<1>3. ASSUME NEW j \in 1 .. Len(t), j > i, j <= i + Rest(c)
      PROVE  t[j] = Cell(c.of, c.off + (j - i))
  <2>1. j + n > i + n /\ j + n <= (i + n) + Rest(c) BY <1>1, <1>3
  <2> QED BY <2>1, <1>2, <1>3 DEF Leads
<1>4. ASSUME NEW j \in 1 .. Len(t), j = i + Rest(c) + 1
      PROVE  t[j].k = "header" /\ t[j].off = 0 /\ t[j].of.at = After(c)
  <2>1. j + n = (i + n) + Rest(c) + 1 BY <1>1, <1>4
  <2>2. s[j + n].k = "header" /\ s[j + n].off = 0 /\ s[j + n].of.at = After(c)
    BY <2>1, <1>2 DEF Leads
  <2> QED BY <2>2, <1>2
<1> QED BY <1>3, <1>4 DEF Leads

LEMMA LeadsCut ==
  ASSUME NEW s \in Seq(Cells), NEW t \in Seq(Cells), Len(t) <= Len(s),
         \A j \in 1 .. Len(t) : t[j] = s[j],
         NEW c \in Cells, NEW i \in Nat, Leads(c, s, i)
  PROVE  Leads(c, t, i)
  BY DEF Leads

LEMMA CellTypes ==
  ASSUME NEW c \in Cells
  PROVE  /\ c.of \in Messages \cup {Hello} /\ c.off \in Int
         /\ Rest(c) \in Int /\ Upto(c) \in Int /\ After(c) \in Nat
<1>1. c.of \in Messages \cup {Hello} /\ c.off \in Int
  BY DEF Cells, PlainCells, HeaderCells, ByteCells
<1>2. c.of.size \in Nat /\ c.of.at \in Nat
  BY <1>1 DEF Messages, Hello
<1> QED BY <1>1, <1>2 DEF Rest, Upto, After, Size

(* The cell before place K + 1, if c is at i and its message reaches K.    *)
LEMMA EndOf ==
  ASSUME NEW s \in Seq(Cells), NEW c \in Cells, NEW i \in 0 .. Len(s), Leads(c, s, i),
         Len(s) <= i + Rest(c),
         NEW e \in Cells, i = Len(s) => e = c, i < Len(s) => e = s[Len(s)]
  PROVE  e.of = c.of /\ e.off = c.off + (Len(s) - i)
<1>1. c.of \in Messages \cup {Hello} /\ c.off \in Int /\ Rest(c) \in Int
  BY CellTypes
<1>2. CASE i = Len(s)
  BY <1>1, <1>2
<1>3. CASE i < Len(s)
  <2> DEFINE o == c.off + (Len(s) - i)
  <2>1. e = Cell(c.of, o)
    BY <1>1, <1>3 DEF Leads
  <2> HIDE DEF o
  <2>2. Cell(c.of, o).of = c.of /\ Cell(c.of, o).off = o
    BY <1>1, Fields
  <2>3. e.of = c.of /\ e.off = o
    BY <2>1, <2>2
  <2> QED BY <2>3 DEF o
<1> QED BY <1>2, <1>3

(* More cells of the message of the last cell e.                           *)
LEMMA LeadsFill ==
  ASSUME NEW s \in Seq(Cells), NEW t \in Seq(Cells), Len(t) >= Len(s),
         \A j \in 1 .. Len(s) : t[j] = s[j],
         NEW c \in Cells, NEW i \in 0 .. Len(s), Leads(c, s, i), Rest(c) >= 0,
         NEW e \in Cells, i = Len(s) => e = c, i < Len(s) => e = s[Len(s)],
         Len(t) - Len(s) <= Rest(e),
         \A j \in 1 .. Len(t) : j > Len(s) => t[j] = Cell(e.of, e.off + (j - Len(s)))
  PROVE  Leads(c, t, i)
<1>1. c.off \in Int /\ Rest(c) \in Int /\ e.off \in Int /\ Rest(e) \in Int
  BY CellTypes
<1>2. CASE Len(s) <= i + Rest(c)
  <2>1. e.of = c.of /\ e.off = c.off + (Len(s) - i)
    BY <1>2, EndOf
  <2>2. Rest(e) = Rest(c) - (Len(s) - i)
    <3>1. c.of.size \in Int
      BY CellTypes DEF Messages, Hello
    <3>2. Rest(c) = c.of.size - c.off /\ Rest(e) = c.of.size - (c.off + (Len(s) - i))
      BY <2>1 DEF Rest
    <3>3. Len(s) \in Int /\ i \in Int
      OBVIOUS
    <3> HIDE DEF Rest
    <3> QED BY <1>1, <3>1, <3>2, <3>3
  <2>3. ASSUME NEW j \in 1 .. Len(t), j > i
        PROVE  t[j] = Cell(c.of, c.off + (j - i))
    <3>1. CASE j > Len(s)
      <4>1. e.off + (j - Len(s)) = c.off + (j - i)
        BY <1>1, <2>1
      <4> QED BY <2>1, <3>1, <4>1
    <3>2. CASE j <= Len(s)
      BY <1>1, <1>2, <2>3, <3>2 DEF Leads
    <3> QED BY <3>1, <3>2
  <2>4. \A j \in 1 .. Len(t) : j # i + Rest(c) + 1
    BY <1>1, <2>2
  <2> QED BY <2>3, <2>4 DEF Leads
<1>3. CASE i + Rest(c) < Len(s)
  <2>1. \A j \in 1 .. Len(t) : j <= i + Rest(c) + 1 => j \in 1 .. Len(s) /\ t[j] = s[j]
    BY <1>1, <1>3
  <2>2. ASSUME NEW j \in 1 .. Len(t), j > i, j <= i + Rest(c)
        PROVE  t[j] = Cell(c.of, c.off + (j - i))
    <3>1. j \in 1 .. Len(s) /\ t[j] = s[j]
      BY <1>1, <2>1, <2>2
    <3>2. s[j] = Cell(c.of, c.off + (j - i))
      BY <2>2, <3>1 DEF Leads
    <3> QED BY <3>1, <3>2
  <2>3. ASSUME NEW j \in 1 .. Len(t), j = i + Rest(c) + 1
        PROVE  t[j].k = "header" /\ t[j].off = 0 /\ t[j].of.at = After(c)
    <3>1. j \in 1 .. Len(s) /\ t[j] = s[j]
      BY <1>1, <2>1, <2>3
    <3>2. s[j].k = "header" /\ s[j].off = 0 /\ s[j].of.at = After(c)
      BY <2>3, <3>1 DEF Leads
    <3> QED BY <3>1, <3>2
  <2> QED BY <2>2, <2>3 DEF Leads
<1> QED BY <1>1, <1>2, <1>3

(* The header of a message after one that is whole.                        *)
LEMMA LeadsStart ==
  ASSUME NEW s \in Seq(Cells), NEW t \in Seq(Cells), Len(t) = Len(s) + 1,
         \A j \in 1 .. Len(s) : t[j] = s[j],
         NEW c \in Cells, NEW i \in 0 .. Len(s), Leads(c, s, i), Rest(c) >= 0,
         NEW e \in Cells, i = Len(s) => e = c, i < Len(s) => e = s[Len(s)],
         Rest(e) = 0, NEW d, t[Len(t)] = d,
         d.k = "header" /\ d.off = 0 /\ d.of.at = After(e)
  PROVE  Leads(c, t, i)
<1>1. c.off \in Int /\ Rest(c) \in Int /\ e.off \in Int
  BY CellTypes
<1>2. CASE Len(s) <= i + Rest(c)
  <2>1. e.of = c.of /\ e.off = c.off + (Len(s) - i)
    BY <1>2, EndOf
  <2>2. i + Rest(c) = Len(s)
    <3>1. c.of.size \in Int
      BY CellTypes DEF Messages, Hello
    <3>2. c.of.size - e.off = 0 /\ Rest(c) = c.of.size - c.off
      BY <2>1 DEF Rest
    <3>3. e.off = c.of.size /\ Len(s) \in Int /\ i \in Int
      BY <1>1, <3>1, <3>2
    <3>4. c.of.size = c.off + (Len(s) - i)
      BY <2>1, <3>3
    <3>5. Rest(c) = (c.off + (Len(s) - i)) - c.off
      BY <3>2, <3>4
    <3>6. Rest(c) = Len(s) - i
      BY <1>1, <3>3, <3>5
    <3> QED BY <3>3, <3>6
  <2>3. ASSUME NEW j \in 1 .. Len(t), j > i, j <= i + Rest(c)
        PROVE  t[j] = Cell(c.of, c.off + (j - i))
    BY <2>2, <2>3 DEF Leads
  <2>4. \A j \in 1 .. Len(t) : j = i + Rest(c) + 1 => t[j] = d /\ d.of.at = After(c)
    BY <2>1, <2>2 DEF After
  <2> QED BY <2>3, <2>4 DEF Leads
<1>3. CASE i + Rest(c) < Len(s)
  <2>1. \A j \in 1 .. Len(t) : j <= i + Rest(c) + 1 => j \in 1 .. Len(s) /\ t[j] = s[j]
    BY <1>1, <1>3
  <2>2. ASSUME NEW j \in 1 .. Len(t), j > i, j <= i + Rest(c)
        PROVE  t[j] = Cell(c.of, c.off + (j - i))
    <3>1. j \in 1 .. Len(s) /\ t[j] = s[j]
      BY <1>1, <2>1, <2>2
    <3>2. s[j] = Cell(c.of, c.off + (j - i))
      BY <2>2, <3>1 DEF Leads
    <3> QED BY <3>1, <3>2
  <2>3. ASSUME NEW j \in 1 .. Len(t), j = i + Rest(c) + 1
        PROVE  t[j].k = "header" /\ t[j].off = 0 /\ t[j].of.at = After(c)
    <3>1. j \in 1 .. Len(s) /\ t[j] = s[j]
      BY <1>1, <2>1, <2>3
    <3>2. s[j].k = "header" /\ s[j].off = 0 /\ s[j].of.at = After(c)
      BY <2>3, <3>1 DEF Leads
    <3> QED BY <3>1, <3>2
  <2> QED BY <2>2, <2>3 DEF Leads
<1> QED BY <1>1, <1>2, <1>3

(* Nothing comes after a last cell.                                        *)
LEMMA LeadsLast ==
  ASSUME NEW t \in Seq(Cells), NEW c \in Cells, Rest(c) >= 0
  PROVE  Leads(c, t, Len(t))
<1>1. Rest(c) \in Int
  BY CellTypes
<1>2. Len(t) \in Nat
  OBVIOUS
<1>3. \A j \in 1 .. Len(t) : ~(j > Len(t)) /\ j # Len(t) + Rest(c) + 1
  BY <1>1, <1>2
<1> QED BY <1>3 DEF Leads

-----------------------------------------------------------------------------
LEMMA InitInv == WireInit => WireInv
<1> SUFFICES ASSUME WireInit PROVE WireInv
  OBVIOUS
<1>1. plainOut \in Nat /\ plainIn = plainOut /\ buffer \in Nat
  BY WireAssumption DEF WireInit
<1>2. last = Plain(-plainOut) /\ last = Cell(Hello, -plainOut) /\ last \in PlainCells
  BY <1>1 DEF WireInit, Plain, Cell, PlainCells
<1>3. last.of = Hello /\ last.off = -plainOut
  BY <1>2 DEF Plain
<1>4. TypeInv
  <2>1. conn \in Seq(Cells) /\ got \in Seq(Nat) /\ written \in Nat
    BY DEF WireInit
  <2>2. last \in Cells /\ pending \in Messages \cup {NoMessage}
    BY <1>2 DEF Cells, WireInit
  <2>3. closed \in BOOLEAN /\ over \in BOOLEAN /\ reader \in {"plain", "header"}
    BY DEF WireInit
  <2> QED BY <1>1, <2>1, <2>2, <2>3 DEF TypeInv
<1>5. Rest(last) = plainOut /\ Upto(last) = 0 /\ After(last) = 0 /\ last.of.size < Span
  BY <1>1, <1>3, WireAssumption DEF Rest, Upto, After, Size, Hello
<1>6. Framed
  BY <1>1, <1>2, <1>3, <1>5 DEF Framed, CellOK, Leads, WireInit
<1>7. WriterInv /\ ReaderInv
  BY <1>1, <1>2, <1>5 DEF WriterInv, ReaderInv, End, WireInit
<1>8. InOrder /\ reader # "lost"
  BY DEF InOrder, WireInit
<1>9. LargeBufferIsEnough
  BY DEF LargeBufferIsEnough, WireInit
<1> QED BY <1>4, <1>6, <1>7, <1>8, <1>9 DEF WireInv, Ordered

LEMMA TypeStep == TypeInv /\ [WireNext]_wireVars => TypeInv'
<1> SUFFICES ASSUME TypeInv, [WireNext]_wireVars PROVE TypeInv'
  OBVIOUS
<1> USE DEF TypeInv, writerVars, readerVars
<1>1. CASE WritePlain
  <2>1. Plain(1 - plainOut) \in Cells
    BY DEF Plain, Cells, PlainCells
  <2> QED BY <1>1, <2>1 DEF WritePlain
<1>2. ASSUME NEW t \in Tag, NEW n \in Sizes, WriteHeader(t, n) PROVE TypeInv'
  <2>1. Message(t, n) \in Messages
    BY WireAssumption DEF Message, Messages
  <2>2. Header(pending') \in Cells /\ pending' \in Messages
    BY <1>2, <2>1, HeaderType DEF WriteHeader, Cells
  <2> QED BY <1>2, <2>2 DEF WriteHeader
<1>3. CASE WritePayload
  <2>1. pending \in Messages
    BY <1>3 DEF WritePayload
  <2>2. \A i \in 1 .. pending.size : Byte(pending, i) \in Cells
    BY <2>1 DEF Byte, Cells, ByteCells, Messages
  <2>3. [i \in 1 .. pending.size |-> Byte(pending, i)] \in Seq(Cells)
    BY <2>1, <2>2 DEF Messages
  <2>4. conn' \in Seq(Cells) /\ written' \in Nat
    BY <1>3, <2>1, <2>3 DEF WritePayload, Messages
  <2> QED BY <1>3, <2>4 DEF WritePayload
<1>4. CASE Cut
  BY <1>4 DEF Cut
<1>5. CASE ReadPlain
  <2>1. conn' \in Seq(Cells) /\ last' \in Cells /\ plainIn' \in Int
    BY <1>5 DEF ReadPlain
  <2>2. reader' \in {"plain", "header"} \cup Ended
    BY <1>5 DEF ReadPlain, Ended
  <2> QED BY <1>5, <2>1, <2>2 DEF ReadPlain
<1>6. CASE ReadHeader
  <2>1. conn' \in Seq(Cells) /\ last' \in Cells
    BY <1>6 DEF ReadHeader
  <2>2. last'.k = "header" => last' \in HeaderCells
    BY <2>1 DEF Cells, PlainCells, ByteCells
  <2>3. reader' \in {"payload"} \cup Ended
    BY <1>6, <2>1, <2>2, WireAssumption DEF ReadHeader, Ended, HeaderCells
  <2>4. reader' = "payload" => last' \in HeaderCells /\ last'.low <= MaxMessage
    <3>1. reader' = "payload" => last'.k = "header"
      BY <1>6, <2>2 DEF ReadHeader
    <3>2. last'.k = "header" => last'.low \in Nat
      BY <2>2 DEF HeaderCells
    <3>3. last'.k = "header" /\ last'.low > MaxMessage => reader' = "refused"
      BY <1>6, <3>2, WireAssumption DEF ReadHeader
    <3> QED BY <2>2, <3>1, <3>2, <3>3, WireAssumption
  <2> QED BY <1>6, <2>1, <2>3, <2>4 DEF ReadHeader
<1>7. CASE ReadPayload
  <2>1. last.low \in Nat /\ last.low <= Len(conn)
    BY <1>7 DEF ReadPayload, HeaderCells
  <2>2. conn' \in Seq(Cells)
    BY <1>7, <2>1 DEF ReadPayload, Drop
  <2>3. last' \in Cells
    BY <1>7, <2>1 DEF ReadPayload
  <2>4. CASE UNCHANGED got
    BY <1>7, <2>2, <2>3, <2>4 DEF ReadPayload, Ended
  <2>5. CASE /\ \A i \in 1 .. last.low : conn[i].k = "byte"
             /\ reader' = "header"
             /\ got' = got \o [i \in 1 .. last.low |-> conn[i].v]
    <3>1. \A i \in 1 .. last.low : conn[i].v \in Nat
      <4> TAKE i \in 1 .. last.low
      <4>1. conn[i] \in Cells BY <2>1
      <4>2. conn[i] \in ByteCells
        BY <2>5, <4>1 DEF Cells, PlainCells, HeaderCells
      <4> QED BY <4>2 DEF ByteCells
    <3>2. [i \in 1 .. last.low |-> conn[i].v] \in Seq(Nat)
      BY <2>1, <3>1, Values
    <3>3. got' \in Seq(Nat)
      BY <2>5, <3>2
    <3> QED BY <1>7, <2>2, <2>3, <2>5, <3>3 DEF ReadPayload
  <2> QED BY <1>7, <2>4, <2>5 DEF ReadPayload
<1>8. CASE ReadFails
  BY <1>8 DEF ReadFails, Ended
<1>9. CASE UNCHANGED wireVars
  BY <1>9 DEF wireVars
<1> QED BY <1>1, <1>2, <1>3, <1>4, <1>5, <1>6, <1>7, <1>8, <1>9 DEF WireNext, Reads

-----------------------------------------------------------------------------
(* Reading takes n cells away.                                             *)
LEMMA DropStep ==
  ASSUME TypeInv, TypeInv', Framed, NEW n \in 0 .. Len(conn), conn' = SubSeq(conn, n + 1, Len(conn)),
         last' = IF n = 0 THEN last ELSE conn[n], UNCHANGED written
  PROVE  Framed' /\ End' = End
<1>1. Len(conn') = Len(conn) - n /\ \A j \in 1 .. Len(conn') : conn'[j] = conn[j + n]
  <2>1. conn \in Seq(Cells)
    BY DEF TypeInv
  <2> QED BY <2>1
<1>2. conn \in Seq(Cells) /\ conn' \in Seq(Cells) /\ Len(conn) \in Nat /\ Len(conn') \in Nat
  <2>1. conn \in Seq(Cells)
    BY DEF TypeInv
  <2>2. conn' \in Seq(Cells)
    BY DEF TypeInv
  <2> QED BY <2>1, <2>2
<1>3. ASSUME NEW i \in 1 .. Len(conn')
      PROVE  CellOK(conn'[i], written') /\ Leads(conn'[i], conn', i)
  <2>1. i + n \in 1 .. Len(conn) /\ conn'[i] = conn[i + n] /\ i \in Nat
    BY <1>1, <1>2
  <2>2. CellOK(conn[i + n], written) /\ Leads(conn[i + n], conn, i + n) /\ conn[i + n] \in Cells
    BY <1>2, <2>1 DEF Framed
  <2>3. Leads(conn[i + n], conn', i)
    BY <1>1, <1>2, <2>1, <2>2, LeadsDrop
  <2> QED BY <2>1, <2>2, <2>3
<1>4. CellOK(last', written') /\ Leads(last', conn', 0)
  <2>1. CASE n = 0
    <3>1. last' = last /\ conn' = conn
      BY <1>1, <1>2, <2>1
    <3> QED BY <3>1 DEF Framed
  <2>2. CASE n > 0
    <3>1. last' = conn[n] /\ n \in 1 .. Len(conn)
      BY <2>2
    <3>2. CellOK(conn[n], written) /\ Leads(conn[n], conn, n) /\ conn[n] \in Cells
      BY <1>2, <3>1 DEF Framed
    <3>3. Leads(conn[n], conn, 0 + n) /\ 0 \in Nat
      <4>1. 0 + n = n
        OBVIOUS
      <4> QED BY <3>2, <4>1
    <3>4. Leads(conn[n], conn', 0)
      BY <1>1, <1>2, <3>1, <3>2, <3>3, LeadsDrop
    <3> QED BY <3>1, <3>2, <3>4
  <2> QED BY <2>1, <2>2
<1>5. End' = End
  <2>1. CASE n = Len(conn)
    <3>1. conn' = <<>>
      BY <1>1, <1>2, <2>1
    <3>2. conn = <<>> <=> n = 0
      BY <1>2, <2>1
    <3> QED BY <2>1, <3>1, <3>2 DEF End
  <2>2. CASE n < Len(conn)
    <3>1. Len(conn') \in 1 .. Len(conn') /\ Len(conn') + n = Len(conn)
      BY <1>1, <1>2, <2>2
    <3>2. conn'[Len(conn')] = conn[Len(conn)]
      BY <1>1, <3>1
    <3>3. conn' # <<>> /\ conn # <<>>
      <4>1. Len(conn) # 0 /\ Len(conn') # 0
        BY <1>2, <3>1
      <4>2. Len(<<>>) = 0
        OBVIOUS
      <4> QED BY <4>1, <4>2
    <3> QED BY <3>2, <3>3 DEF End
  <2> QED BY <2>1, <2>2
<1> QED BY <1>3, <1>4, <1>5 DEF Framed

(* The last cell, from which the next one continues.                       *)
LEMMA EndFacts ==
  ASSUME TypeInv, Framed
  PROVE  /\ End \in Cells /\ CellOK(End, written)
         /\ \A i \in 1 .. Len(conn) : (i = Len(conn) => End = conn[i]) /\ End = conn[Len(conn)]
         /\ 0 = Len(conn) => End = last
         /\ 0 < Len(conn) => End = conn[Len(conn)]
  BY DEF End, TypeInv, Framed

(* Writing adds cells of the message of the last cell.                     *)
LEMMA FillStep ==
  ASSUME TypeInv, TypeInv', Framed, UNCHANGED last, written' >= written,
         NEW n \in Nat, n <= Rest(End), Len(conn') = Len(conn) + n,
         \A j \in 1 .. Len(conn) : conn'[j] = conn[j],
         \A j \in 1 .. Len(conn') : j > Len(conn) =>
            conn'[j] = Cell(End.of, End.off + (j - Len(conn))),
         written' >= Upto(Cell(End.of, End.off + n))
  PROVE  Framed'
<1> DEFINE e == End
<1>1. conn \in Seq(Cells) /\ conn' \in Seq(Cells) /\ Len(conn) \in Nat /\ written' \in Nat
      /\ last \in Cells /\ written \in Nat
  BY DEF TypeInv
<1>2. e \in Cells /\ CellOK(e, written) /\ e.of \in Messages \cup {Hello} /\ e.off \in Int
      /\ Rest(e) \in Int
  BY EndFacts, CellTypes
<1>3. (0 = Len(conn) => e = last) /\ (0 < Len(conn) => e = conn[Len(conn)])
  BY EndFacts
<1> HIDE DEF e
<1>e. n <= Rest(e) /\ written' >= Upto(Cell(e.of, e.off + n))
      /\ \A j \in 1 .. Len(conn') : j > Len(conn) => conn'[j] = Cell(e.of, e.off + (j - Len(conn)))
  BY DEF e
<1>f. \A i : Cell(e.of, i).of = e.of /\ Cell(e.of, i).off = i
  BY <1>2, Fields
<1>4. ASSUME NEW c \in Cells, NEW i \in 0 .. Len(conn), Leads(c, conn, i), CellOK(c, written),
             i = Len(conn) => e = c
      PROVE  Leads(c, conn', i) /\ CellOK(c, written')
  <2>1. Rest(c) >= 0 /\ Len(conn') >= Len(conn) /\ Len(conn') - Len(conn) <= Rest(e)
    BY <1>1, <1>2, <1>4, <1>e DEF CellOK
  <2>2. i < Len(conn) => e = conn[Len(conn)]
    BY <1>1, <1>3
  <2>3. Leads(c, conn', i)
    BY <1>1, <1>2, <1>4, <1>e, <2>1, <2>2, LeadsFill
  <2>4. Upto(c) \in Int
    BY CellTypes
  <2> QED BY <1>1, <1>4, <2>3, <2>4 DEF CellOK
<1>5. ASSUME NEW j \in 1 .. Len(conn'), j > Len(conn)
      PROVE  CellOK(conn'[j], written') /\ Leads(conn'[j], conn', j)
  <2> DEFINE k == j - Len(conn)
             d == Cell(e.of, e.off + k)
  <2>1. k \in 1 .. n /\ conn'[j] = d /\ d \in Cells
    BY <1>1, <1>5, <1>e
  <2>2. d.of = e.of /\ d.off = e.off + k
    BY <1>2, Fields
  <2>3. Rest(d) = Rest(e) - k /\ Rest(d) >= n - k
    <3>1. e.of.size \in Int
      BY <1>2 DEF Messages, Hello
    <3>2. Rest(d) = Rest(e) - k
      <4>1. Rest(d) = e.of.size - (e.off + k) /\ Rest(e) = e.of.size - e.off
        BY <2>2 DEF Rest
      <4>2. e.off \in Int /\ k \in Int
        BY <1>2, <2>1
      <4> HIDE DEF Rest, k
      <4> QED BY <3>1, <4>1, <4>2
    <3>3. Rest(e) \in Int /\ n <= Rest(e) /\ k \in Int
      BY <1>2, <1>e, <2>1
    <3> QED BY <3>2, <3>3
  <2>4. Upto(d) <= written'
    <3>1. Cell(e.of, e.off + n).of = e.of /\ Cell(e.of, e.off + n).off = e.off + n
      BY <1>f
    <3>2. e.of.at \in Int
      BY <1>2 DEF Messages, Hello
    <3>3. e.of.at + (e.off + n) <= written' \/ e.of.tag # "data"
      BY <1>e, <3>1 DEF Upto
    <3>4. e.of.at <= written' \/ e.of.tag = "data"
      BY <1>e, <3>1, <3>2 DEF Upto
    <3>5. e.of.at \in Int /\ e.off \in Int /\ k \in Int /\ n \in Int /\ written' \in Int /\ k <= n
      BY <1>1, <1>2, <2>1, <3>2
    <3>6. e.of.tag = "data" => e.of.at + (e.off + k) <= written'
      <4>1. e.of.tag = "data" => e.of.at + (e.off + n) <= written'
        BY <3>3
      <4> HIDE DEF k
      <4> QED BY <3>5, <4>1, Between
    <3>7. Upto(d) = e.of.at + (IF e.of.tag = "data" THEN e.off + k ELSE 0)
      BY <2>2 DEF Upto
    <3> QED BY <3>2, <3>4, <3>6, <3>7
  <2>5. CellOK(d, written')
    <3>1. e.of.size < Span
      BY <1>2 DEF CellOK
    <3>2. d = Cell(d.of, d.off) /\ d.of.size < Span
      BY <2>2, <3>1
    <3>3. Rest(d) >= 0
      BY <1>2, <2>1, <2>3, <1>e
    <3> HIDE DEF d
    <3> QED BY <2>4, <3>2, <3>3 DEF CellOK
  <2>6. ASSUME NEW m \in 1 .. Len(conn'), m > j
        PROVE  conn'[m] = Cell(d.of, d.off + (m - j))
    <3>1. conn'[m] = Cell(e.of, e.off + (m - Len(conn)))
      BY <1>1, <1>e, <1>5, <2>6
    <3>2. e.off + (m - Len(conn)) = d.off + (m - j)
      BY <1>1, <1>2, <2>1, <2>2
    <3> QED BY <2>2, <3>1, <3>2
  <2>7. \A m \in 1 .. Len(conn') : m # j + Rest(d) + 1
    <3>1. Rest(d) \in Int
      <4>1. k \in Int /\ Rest(e) \in Int
        BY <1>2, <2>1
      <4> HIDE DEF k
      <4> QED BY <2>3, <4>1
    <3>2. Len(conn') < j + Rest(d) + 1
      BY <1>1, <2>1, <2>3, <3>1
    <3> HIDE DEF d
    <3> QED BY <1>1, <3>1, <3>2
  <2>8. Leads(d, conn', j)
    BY <2>6, <2>7 DEF Leads
  <2> QED BY <2>1, <2>5, <2>8
<1>6. \A i \in 1 .. Len(conn') : CellOK(conn'[i], written') /\ Leads(conn'[i], conn', i)
  <2> TAKE i \in 1 .. Len(conn')
  <2>1. CASE i <= Len(conn)
    <3>1. i \in 1 .. Len(conn) /\ conn'[i] = conn[i] /\ conn[i] \in Cells
      BY <1>1, <2>1
    <3>2. CellOK(conn[i], written) /\ Leads(conn[i], conn, i) /\ (i = Len(conn) => e = conn[i])
      BY <1>3, <3>1 DEF Framed
    <3> QED BY <1>4, <3>1, <3>2
  <2> QED BY <1>1, <1>5, <2>1
<1>7. CellOK(last', written') /\ Leads(last', conn', 0)
  BY <1>1, <1>3, <1>4 DEF Framed
<1> QED BY <1>6, <1>7 DEF Framed

(* Writing begins a message.                                               *)
LEMMA StartStep ==
  ASSUME TypeInv, TypeInv', Framed, UNCHANGED <<last, written>>,
         Rest(End) = 0, After(End) = written,
         NEW m \in Messages, m.size < Span, m.at = written, conn' = Append(conn, Header(m))
  PROVE  Framed'
<1> DEFINE e == End
           d == Header(m)
<1>1. conn \in Seq(Cells) /\ conn' \in Seq(Cells) /\ Len(conn) \in Nat /\ written \in Nat
      /\ last \in Cells
  BY DEF TypeInv
<1>2. Len(conn') = Len(conn) + 1 /\ conn'[Len(conn')] = d
      /\ \A j \in 1 .. Len(conn) : conn'[j] = conn[j]
  BY <1>1
<1>3. e \in Cells /\ Rest(e) = 0 /\ After(e) = written
      /\ (0 = Len(conn) => e = last) /\ (0 < Len(conn) => e = conn[Len(conn)])
  BY EndFacts
<1>4. d.k = "header" /\ d.off = 0 /\ d.of = m /\ d.of.at = After(e) /\ d \in Cells
  BY <1>3, HeaderType DEF Header, Cells
<1> HIDE DEF e, d
<1>5. ASSUME NEW c \in Cells, NEW i \in 0 .. Len(conn), Leads(c, conn, i), CellOK(c, written),
             i = Len(conn) => e = c
      PROVE  Leads(c, conn', i)
  <2>1. Rest(c) >= 0
    BY <1>5 DEF CellOK
  <2>2. i < Len(conn) => e = conn[Len(conn)]
    BY <1>1, <1>3
  <2> QED BY <1>1, <1>2, <1>3, <1>4, <1>5, <2>1, <2>2, LeadsStart
<1>6. CellOK(d, written) /\ Leads(d, conn', Len(conn'))
  <2>1. m # Hello /\ m.size \in Nat
    BY DEF Messages, Hello, Tag
  <2>2. d = Cell(d.of, d.off)
    BY <1>4, <2>1 DEF Cell, d
  <2>3. Rest(d) >= 0 /\ Upto(d) <= written
    BY <1>1, <1>4, <2>1 DEF Rest, Upto
  <2>4. Leads(d, conn', Len(conn'))
    BY <1>1, <1>4, <2>3, LeadsLast
  <2> QED BY <1>4, <2>2, <2>3, <2>4 DEF CellOK
<1>7. \A i \in 1 .. Len(conn') : CellOK(conn'[i], written') /\ Leads(conn'[i], conn', i)
  <2> TAKE i \in 1 .. Len(conn')
  <2>1. CASE i <= Len(conn)
    <3>1. i \in 1 .. Len(conn) /\ conn'[i] = conn[i] /\ conn[i] \in Cells
      BY <1>1, <1>2, <2>1
    <3>2. CellOK(conn[i], written) /\ Leads(conn[i], conn, i) /\ (i = Len(conn) => e = conn[i])
      BY <1>3, <3>1 DEF Framed
    <3> QED BY <1>5, <3>1, <3>2
  <2>2. CASE i = Len(conn')
    BY <1>2, <1>6, <2>2
  <2> QED BY <1>1, <1>2, <2>1, <2>2
<1>8. CellOK(last', written') /\ Leads(last', conn', 0)
  BY <1>1, <1>3, <1>5 DEF Framed
<1> QED BY <1>7, <1>8 DEF Framed

-----------------------------------------------------------------------------
(* One lemma for each action.                                              *)

LEMMA WritePlainStep ==
  ASSUME TypeInv, TypeInv', Ordered, WritePlain
  PROVE  Ordered'
<1>1. plainOut > 0 /\ ~closed /\ conn' = Append(conn, Plain(1 - plainOut))
      /\ plainOut' = plainOut - 1 /\ pending' = pending /\ written' = written /\ ~closed'
  BY DEF WritePlain, writerVars
<1>2. UNCHANGED <<last, got, reader, plainIn>>
  BY DEF WritePlain, readerVars
<1>3. End = Plain(-plainOut) /\ written = 0 /\ pending = NoMessage /\ plainOut \in Nat
      /\ conn \in Seq(Cells)
  BY <1>1 DEF Ordered, WriterInv, TypeInv
<1>4. End.of = Hello /\ End.off = -plainOut /\ Rest(End) = plainOut
  BY <1>3 DEF Plain, Hello, Rest
<1>5. \A i \in Int : Cell(Hello, i) = Plain(i)
  BY DEF Cell
<1>6. Upto(Plain(1 - plainOut)) = 0
  BY DEF Upto, Plain, Hello
<1>7. Framed'
  <2>1. 1 <= Rest(End) /\ Len(conn') = Len(conn) + 1
        /\ \A j \in 1 .. Len(conn) : conn'[j] = conn[j]
    BY <1>1, <1>3, <1>4
  <2>2. Cell(End.of, End.off + 1) = Plain(1 - plainOut)
    BY <1>3, <1>4, <1>5
  <2>3. ASSUME NEW j \in 1 .. Len(conn'), j > Len(conn)
        PROVE  conn'[j] = Cell(End.of, End.off + (j - Len(conn)))
    <3>1. j = Len(conn) + 1 /\ conn'[j] = Plain(1 - plainOut) /\ j - Len(conn) = 1
      BY <1>1, <1>3, <2>1, <2>3
    <3> QED BY <2>2, <3>1
  <2>4. written' >= Upto(Cell(End.of, End.off + 1))
    BY <1>1, <1>3, <1>6, <2>2
  <2>5. UNCHANGED last /\ written' >= written
    BY <1>1, <1>2, <1>3
  <2> QED BY <2>1, <2>3, <2>4, <2>5, FillStep DEF Ordered
<1>8. WriterInv'
  <2>1. End' = Plain(1 - plainOut) /\ 1 - plainOut = -(plainOut - 1)
    BY <1>1, <1>3 DEF End
  <2>2. plainOut - 1 = 0 => Rest(Plain(1 - plainOut)) = 0 /\ After(Plain(1 - plainOut)) = 0
    BY <1>3 DEF Rest, After, Size, Plain, Hello
  <2> QED BY <1>1, <1>3, <2>1, <2>2 DEF WriterInv
<1>9. ReaderInv' /\ InOrder' /\ reader' # "lost"
  BY <1>2 DEF Ordered, ReaderInv, InOrder
<1> QED BY <1>7, <1>8, <1>9 DEF Ordered

LEMMA WriteHeaderStep ==
  ASSUME TypeInv, TypeInv', Ordered, NEW t \in Tag, NEW n \in Sizes, WriteHeader(t, n), ~over'
  PROVE  Ordered'
<1>1. plainOut = 0 /\ pending = NoMessage /\ ~closed /\ n < Span
      /\ pending' = Message(t, n) /\ conn' = Append(conn, Header(Message(t, n)))
      /\ UNCHANGED <<closed, plainOut, written>> /\ n \in Nat
  <2>1. n \in Nat /\ Span \in Nat
    BY WireAssumption
  <2>2. over' = (over \/ n >= Span) /\ pending' = Message(t, n) /\ conn' = Append(conn, Header(pending'))
    BY DEF WriteHeader
  <2>3. ~(n >= Span)
    BY <2>2
  <2> QED BY <2>1, <2>2, <2>3 DEF WriteHeader
<1>2. UNCHANGED <<last, got, reader, plainIn>>
  BY DEF WriteHeader, readerVars
<1>3. Rest(End) = 0 /\ After(End) = written
  <2>1. NoMessage \notin Messages
    BY DEF NoMessage, Messages, Tag
  <2> QED BY <1>1, <2>1 DEF Ordered, WriterInv
<1>4. Message(t, n) \in Messages /\ Message(t, n).size < Span /\ Message(t, n).at = written
  BY <1>1 DEF Message, Messages, TypeInv
<1>5. Framed'
  BY <1>1, <1>2, <1>3, <1>4, StartStep DEF Ordered
<1>6. WriterInv'
  <2>1. End' = Header(Message(t, n))
    <3>1. conn \in Seq(Cells)
      BY DEF TypeInv
    <3>2. conn' # <<>> /\ conn'[Len(conn')] = Header(Message(t, n))
      BY <1>1, <3>1
    <3> QED BY <3>2 DEF End
  <2> QED BY <1>1, <1>4, <2>1 DEF WriterInv
<1>7. ReaderInv' /\ InOrder' /\ reader' # "lost"
  BY <1>2 DEF Ordered, ReaderInv, InOrder
<1> QED BY <1>5, <1>6, <1>7 DEF Ordered

LEMMA WritePayloadStep ==
  ASSUME TypeInv, TypeInv', Ordered, WritePayload
  PROVE  Ordered'
<1> DEFINE m == pending
           n == pending.size
<1>1. ~closed /\ m # NoMessage /\ conn' = conn \o [i \in 1 .. n |-> Byte(m, i)]
      /\ written' = (IF m.tag = "data" THEN written + n ELSE written)
      /\ pending' = NoMessage /\ ~closed' /\ plainOut' = plainOut
  BY DEF WritePayload
<1>2. UNCHANGED <<last, got, reader, plainIn>>
  BY DEF WritePayload, readerVars
<1>3. plainOut = 0 /\ m \in Messages /\ End = Header(m) /\ m.at = written
      /\ conn \in Seq(Cells) /\ written \in Nat /\ last \in Cells
  BY <1>1 DEF Ordered, WriterInv, TypeInv
<1>4. n \in Nat /\ m # Hello /\ End.of = m /\ End.off = 0 /\ Rest(End) = n
  BY <1>3 DEF Messages, Hello, Header, Rest, Tag
<1>5. Len(conn') = Len(conn) + n
      /\ (\A j \in 1 .. Len(conn) : conn'[j] = conn[j])
      /\ \A j \in 1 .. Len(conn') : j > Len(conn) => conn'[j] = Byte(m, j - Len(conn))
  BY <1>1, <1>3, <1>4
<1>6. \A i \in Int : i # 0 => Cell(m, i) = Byte(m, i)
  BY <1>4 DEF Cell
<1>7. Framed'
  <2>1. ASSUME NEW j \in 1 .. Len(conn'), j > Len(conn)
        PROVE  conn'[j] = Cell(End.of, End.off + (j - Len(conn)))
    <3>1. End.off + (j - Len(conn)) = j - Len(conn) /\ j - Len(conn) \in Int /\ j - Len(conn) # 0
      BY <1>3, <1>4, <2>1
    <3> QED BY <1>4, <1>5, <1>6, <2>1, <3>1
  <2>2. Upto(Cell(End.of, End.off + n)) = written'
    <3>1. Cell(End.of, End.off + n).of = m /\ Cell(End.of, End.off + n).off = n
      BY <1>3, <1>4, Fields
    <3> QED BY <1>1, <1>3, <1>4, <3>1 DEF Upto
  <2>3. written' >= written /\ written' >= Upto(Cell(End.of, End.off + n)) /\ n <= Rest(End)
    BY <1>1, <1>3, <1>4, <2>2
  <2> QED BY <1>2, <1>4, <1>5, <2>1, <2>3, FillStep DEF Ordered
<1>8. WriterInv'
  <2>1. CASE n = 0
    <3>1. conn' = conn /\ written' = written
      BY <1>1, <1>3, <1>4, <1>5, <2>1
    <3>2. End' = End
      BY <1>2, <3>1 DEF End
    <3>3. Rest(End) = 0 /\ After(End) = written
      BY <1>3, <1>4, <2>1 DEF After, Size
    <3> QED BY <1>1, <1>3, <3>1, <3>2, <3>3 DEF WriterInv
  <2>2. CASE n # 0
    <3>1. Len(conn') \in 1 .. Len(conn') /\ Len(conn') > Len(conn) /\ Len(conn') - Len(conn) = n
      BY <1>3, <1>4, <1>5, <2>2
    <3>2. conn'[Len(conn')] = Byte(m, n)
      BY <1>5, <3>1
    <3>3. conn' # <<>>
      <4>1. Len(<<>>) = 0
        OBVIOUS
      <4> QED BY <1>3, <3>1, <4>1
    <3>4. End' = Byte(m, n)
      BY <3>2, <3>3 DEF End
    <3>5. Rest(Byte(m, n)) = 0 /\ After(Byte(m, n)) = written'
      BY <1>1, <1>3, <1>4 DEF Rest, After, Size, Byte
    <3> QED BY <1>1, <1>3, <3>4, <3>5 DEF WriterInv
  <2> QED BY <2>1, <2>2
<1>9. ReaderInv' /\ InOrder' /\ reader' # "lost"
  BY <1>2 DEF Ordered, ReaderInv, InOrder
<1> QED BY <1>7, <1>8, <1>9 DEF Ordered

LEMMA CutStep ==
  ASSUME TypeInv, TypeInv', Ordered, Cut
  PROVE  Ordered'
<1>1. closed' /\ UNCHANGED <<last, got, reader, plainIn, written>>
  BY DEF Cut, readerVars, writerVars
<1>2. Len(conn') <= Len(conn) /\ (\A j \in 1 .. Len(conn') : conn'[j] = conn[j])
      /\ conn \in Seq(Cells) /\ conn' \in Seq(Cells) /\ Len(conn) \in Nat /\ Len(conn') \in Nat
  BY DEF Cut, TypeInv
<1>3. ASSUME NEW i \in 1 .. Len(conn')
      PROVE  CellOK(conn'[i], written') /\ Leads(conn'[i], conn', i)
  <2>1. i \in 1 .. Len(conn) /\ i \in Nat /\ conn'[i] = conn[i] /\ conn[i] \in Cells
    BY <1>2
  <2>2. CellOK(conn[i], written) /\ Leads(conn[i], conn, i)
    BY <2>1 DEF Ordered, Framed
  <2> QED BY <1>1, <1>2, <2>1, <2>2, LeadsCut
<1>4. CellOK(last', written') /\ Leads(last', conn', 0)
  BY <1>1, <1>2, LeadsCut DEF Ordered, Framed, TypeInv
<1>5. WriterInv' /\ ReaderInv' /\ InOrder' /\ reader' # "lost"
  BY <1>1 DEF Ordered, WriterInv, ReaderInv, InOrder
<1> QED BY <1>3, <1>4, <1>5 DEF Ordered, Framed

(* The first cell on its way continues from the one read last.             *)
LEMMA FirstCell ==
  ASSUME TypeInv, Framed, conn # <<>>
  PROVE  /\ conn[1] \in Cells /\ CellOK(conn[1], written)
         /\ Head(conn) = conn[1] /\ 1 \in 1 .. Len(conn)
         /\ Rest(last) > 0 => conn[1] = Cell(last.of, last.off + 1)
         /\ Rest(last) = 0 => conn[1].k = "header" /\ conn[1].off = 0
                               /\ conn[1].of.at = After(last)
<1>1. 1 \in 1 .. Len(conn) /\ conn \in Seq(Cells) /\ last \in Cells /\ Head(conn) = conn[1]
  BY DEF TypeInv
<1>2. Rest(last) \in Int /\ last.off \in Int
  BY <1>1, CellTypes
<1>3. CellOK(conn[1], written) /\ Leads(last, conn, 0)
  BY <1>1 DEF Framed
<1>4. Rest(last) > 0 => conn[1] = Cell(last.of, last.off + (1 - 0))
  BY <1>1, <1>2, <1>3 DEF Leads
<1>5. Rest(last) = 0 => conn[1].k = "header" /\ conn[1].off = 0 /\ conn[1].of.at = After(last)
  BY <1>1, <1>3 DEF Leads
<1> QED BY <1>1, <1>2, <1>3, <1>4, <1>5

LEMMA TailStep ==
  ASSUME TypeInv, TypeInv', Ordered, conn # <<>>, conn' = Tail(conn), last' = Head(conn),
         UNCHANGED <<closed, writerVars>>
  PROVE  Framed' /\ WriterInv'
<1>1. 1 \in 0 .. Len(conn) /\ conn' = SubSeq(conn, 1 + 1, Len(conn)) /\ last' = conn[1]
  BY FirstCell DEF TypeInv, Ordered
<1>2. UNCHANGED written
  BY DEF writerVars
<1>3. Framed' /\ End' = End
  BY <1>1, <1>2, DropStep DEF Ordered
<1> QED BY <1>3 DEF Ordered, WriterInv, writerVars

LEMMA ReadPlainStep ==
  ASSUME TypeInv, TypeInv', Ordered, ReadPlain
  PROVE  Ordered'
<1>1. reader = "plain" /\ conn # <<>> /\ conn' = Tail(conn) /\ last' = Head(conn)
      /\ plainIn' = plainIn - 1 /\ UNCHANGED <<closed, writerVars>> /\ got' = got
  BY DEF ReadPlain
<1>2. Framed' /\ WriterInv'
  BY <1>1, TailStep
<1>3. last = Plain(-plainIn) /\ plainIn > 0 /\ Len(got) = 0 /\ plainIn \in Int
  BY <1>1 DEF Ordered, ReaderInv, TypeInv
<1>4. Rest(last) = plainIn /\ last.of = Hello /\ last.off = -plainIn
  BY <1>3 DEF Plain, Hello, Rest
<1>5. last' = Plain(1 - plainIn) /\ last'.k = "plain"
  <2>1. last' = Cell(Hello, -plainIn + 1)
    BY <1>1, <1>3, <1>4, FirstCell DEF Ordered
  <2>2. -plainIn + 1 = 1 - plainIn
    BY <1>3
  <2> QED BY <2>1, <2>2 DEF Cell, Plain
<1>6. reader' = IF plainIn = 1 THEN "header" ELSE "plain"
  BY <1>1, <1>5 DEF ReadPlain
<1>7. ReaderInv'
  <2>1. CASE plainIn = 1
    <3>1. Rest(last') = 0 /\ After(last') = 0
      BY <1>5, <2>1 DEF Rest, After, Size, Plain, Hello
    <3> QED BY <1>1, <1>3, <1>6, <2>1, <3>1 DEF ReaderInv
  <2>2. CASE plainIn # 1
    <3>1. 1 - plainIn = -(plainIn - 1) /\ plainIn - 1 > 0
      BY <1>3, <2>2
    <3> QED BY <1>1, <1>3, <1>5, <1>6, <2>2, <3>1 DEF ReaderInv
  <2> QED BY <2>1, <2>2
<1>8. InOrder' /\ reader' # "lost"
  BY <1>1, <1>6 DEF Ordered, InOrder
<1> QED BY <1>2, <1>7, <1>8 DEF Ordered

LEMMA ReadHeaderStep ==
  ASSUME TypeInv, TypeInv', Ordered, ReadHeader
  PROVE  Ordered'
<1>1. reader = "header" /\ conn # <<>> /\ conn' = Tail(conn) /\ last' = Head(conn)
      /\ UNCHANGED <<closed, writerVars>> /\ got' = got
  BY DEF ReadHeader
<1>2. Framed' /\ WriterInv'
  BY <1>1, TailStep
<1>3. last'.k = "header" /\ last'.off = 0 /\ last'.of.at = Len(got)
  BY <1>1, FirstCell DEF Ordered, ReaderInv
<1>4. reader' = "refused" \/ (reader' = "payload" /\ last'.low <= MaxMessage)
  <2>1. last' \in HeaderCells
    BY <1>3 DEF TypeInv, Cells, PlainCells, ByteCells
  <2>2. last'.low \in Nat
    BY <2>1 DEF HeaderCells
  <2> QED BY <1>3, <2>2, WireAssumption DEF ReadHeader
<1>5. ReaderInv' /\ InOrder' /\ reader' # "lost"
  BY <1>1, <1>3, <1>4 DEF ReaderInv, Ordered, InOrder
<1> QED BY <1>2, <1>5 DEF Ordered

(* The header read last belongs to a message that was written.             *)
LEMMA LastHeader ==
  ASSUME TypeInv, Ordered, reader = "payload"
  PROVE  /\ last.of \in Messages /\ last.low = last.of.size /\ last.top = Bits(last.of.tag)
         /\ last.off = 0 /\ last.of.at = Len(got) /\ Rest(last) = last.low
<1>1. last \in HeaderCells /\ CellOK(last, written) /\ last.off = 0 /\ last.of.at = Len(got)
  BY DEF TypeInv, Ordered, Framed, ReaderInv
<1>2. last.of \in Messages /\ last.of # Hello /\ last.of.size \in Nat
  BY <1>1 DEF HeaderCells, Messages, Hello, Tag
<1>3. last = Header(last.of) /\ last.of.size < Span
  BY <1>1, <1>2 DEF CellOK, Cell
<1>4. last.top = Bits(last.of.tag) /\ last.low = last.of.size
  BY <1>2, <1>3, HeaderFacts
<1> QED BY <1>1, <1>2, <1>4 DEF Rest

(* All cells of a payload belong to its header's message.                  *)
LEMMA PayloadCells ==
  ASSUME TypeInv, Ordered, reader = "payload", Len(conn) >= last.low
  PROVE  \A i \in 1 .. last.low : conn[i] = Byte(last.of, i)
<1> TAKE i \in 1 .. last.low
<1>1. last.low \in Nat /\ last.off = 0 /\ Rest(last) = last.low /\ last.of # Hello
  BY LastHeader DEF Messages, Hello, Tag
<1>2. i \in 1 .. Len(conn) /\ i > 0 /\ i <= 0 + Rest(last) /\ Len(conn) \in Nat
  BY <1>1 DEF TypeInv
<1>3. conn[i] = Cell(last.of, last.off + (i - 0))
  BY <1>2 DEF Ordered, Framed, Leads
<1>4. last.off + (i - 0) = i /\ i # 0
  BY <1>1, <1>2
<1> QED BY <1>1, <1>3, <1>4 DEF Cell

LEMMA PayloadDelivers ==
  ASSUME TypeInv, Ordered, ReadPayload
  PROVE  \/ reader' \in {"told", "refused", "panic"} /\ got' = got
         \/ /\ reader' = "header" /\ last.of.tag = "data"
            /\ got' = [i \in 1 .. Len(got) + last.low |-> i]
            /\ last.low \in Nat /\ Len(got) + last.low <= written
<1>1. reader = "payload" /\ Len(conn) >= last.low
  BY DEF ReadPayload
<1>2. last.of \in Messages /\ last.low = last.of.size /\ last.top = Bits(last.of.tag)
      /\ last.of.at = Len(got) /\ last.off = 0 /\ last.low \in Nat
  BY <1>1, LastHeader DEF Messages
<1>3. \A i \in 1 .. last.low : conn[i] = Byte(last.of, i)
  BY <1>1, PayloadCells
<1>4. \A i \in 1 .. last.low : conn[i].k = "byte"
  BY <1>3, ByteFields
<1>5. CASE last.top # Bits("data")
  BY <1>5 DEF ReadPayload
<1>6. CASE last.top = Bits("data") /\ buffer < last.low
  <2>1. last.top # Bits("error") /\ buffer \in Nat
    BY <1>6, BitsDiffer DEF TypeInv
  <2> QED BY <1>2, <1>6, <2>1 DEF ReadPayload
<1>7. CASE last.top = Bits("data") /\ ~(buffer < last.low)
  <2>1. last.of.tag = "data"
    BY <1>2, <1>7, BitsDiffer DEF Messages, Tag
  <2>2. last.top # Bits("error")
    BY <1>7, BitsDiffer
  <2>3. reader' = "header" /\ got' = got \o [i \in 1 .. last.low |-> conn[i].v]
    <3>1. ~ \E i \in 1 .. last.low : conn[i].k # "byte"
      BY <1>4
    <3> QED BY <1>7, <2>2, <3>1 DEF ReadPayload
  <2>4. \A i \in 1 .. last.low : conn[i].v = Len(got) + i
    <3>1. \A i \in 1 .. last.low : Byte(last.of, i).v = last.of.at + i
      BY <2>1, ByteFields
    <3> QED BY <1>2, <1>3, <3>1
  <2>5. got' = got \o [i \in 1 .. last.low |-> Len(got) + i]
    BY <2>3, <2>4
  <2>6. got \in Seq(Nat) /\ got = [i \in 1 .. Len(got) |-> i] /\ Len(got) \in Nat
    BY DEF TypeInv, Ordered, InOrder
  <2>7. got' = [i \in 1 .. Len(got) + last.low |-> i]
    BY <1>2, <2>5, <2>6
  <2>8. Len(got) + last.low <= written
    <3>1. CASE last.low = 0
      <4>1. Upto(last) <= written /\ Upto(last) = Len(got)
        BY <1>2, <2>1, <2>6 DEF Ordered, Framed, CellOK, Upto
      <4> QED BY <2>6, <3>1, <4>1
    <3>2. CASE last.low # 0
      <4>1. last.low \in 1 .. last.low /\ last.low \in 1 .. Len(conn)
        BY <1>1, <1>2, <3>2 DEF TypeInv
      <4>2. Upto(conn[last.low]) <= written
        BY <4>1 DEF Ordered, Framed, CellOK
      <4>3. Upto(conn[last.low]) = Len(got) + last.low
        <5>1. conn[last.low].of = last.of /\ conn[last.low].off = last.low
          BY <1>3, <4>1, ByteFields
        <5> QED BY <1>2, <2>1, <5>1 DEF Upto
      <4> QED BY <4>2, <4>3
    <3> QED BY <3>1, <3>2
  <2> QED BY <1>2, <2>1, <2>3, <2>7, <2>8
<1> QED BY <1>5, <1>6, <1>7

LEMMA ReadPayloadStep ==
  ASSUME TypeInv, TypeInv', Ordered, ReadPayload
  PROVE  Ordered'
<1> DEFINE n == last.low
<1>1. reader = "payload" /\ Len(conn) >= n /\ conn' = SubSeq(conn, n + 1, Len(conn))
      /\ last' = (IF n = 0 THEN last ELSE conn[n]) /\ UNCHANGED <<closed, writerVars>>
  BY DEF ReadPayload, Drop
<1>2. last.of \in Messages /\ n = last.of.size /\ last.of.at = Len(got) /\ n \in Nat
      /\ Rest(last) = n
  BY <1>1, LastHeader DEF Messages
<1>3. Framed' /\ WriterInv'
  <2>1. n \in 0 .. Len(conn) /\ UNCHANGED written
    BY <1>1, <1>2 DEF writerVars, TypeInv
  <2>2. Framed' /\ End' = End
    BY <1>1, <2>1, DropStep DEF Ordered
  <2> QED BY <1>1, <2>2 DEF Ordered, WriterInv, writerVars
<1>4. Rest(last') = 0 /\ last'.of = last.of
  <2>1. CASE n = 0
    BY <1>1, <1>2, <2>1
  <2>2. CASE n # 0
    <3>1. n \in 1 .. n /\ last' = conn[n]
      BY <1>1, <1>2, <2>2
    <3>2. last' = Byte(last.of, n)
      BY <1>1, <3>1, PayloadCells
    <3> QED BY <1>2, <3>2 DEF Byte, Rest
  <2> QED BY <2>1, <2>2
<1>5. CASE reader' \in {"told", "refused", "panic"} /\ got' = got
  BY <1>3, <1>5 DEF Ordered, ReaderInv, InOrder
<1>6. CASE reader' = "header" /\ last.of.tag = "data" /\ got' = [i \in 1 .. Len(got) + n |-> i]
  <2>1. Len(got') = Len(got) + n
    BY <1>2, <1>6 DEF TypeInv
  <2>2. After(last') = Len(got')
    BY <1>2, <1>4, <1>6, <2>1 DEF After, Size
  <2> QED BY <1>3, <1>4, <1>6, <2>1, <2>2 DEF Ordered, ReaderInv, InOrder
<1> QED BY <1>5, <1>6, PayloadDelivers

LEMMA ReadFailsStep ==
  ASSUME TypeInv, Ordered, ReadFails
  PROVE  Ordered'
<1>1. reader' = "eof" /\ UNCHANGED <<conn, closed, writerVars, last, got>>
  BY DEF ReadFails
<1> QED BY <1>1 DEF Ordered, Framed, WriterInv, ReaderInv, InOrder, End, writerVars

LEMMA OrderedStep ==
  ASSUME TypeInv, TypeInv', Ordered, [WireNext]_wireVars, ~over'
  PROVE  Ordered'
<1>1. ASSUME NEW t \in Tag, NEW n \in Sizes, WriteHeader(t, n) PROVE Ordered'
  BY <1>1, WriteHeaderStep
<1>2. CASE UNCHANGED wireVars
  BY <1>2 DEF wireVars, writerVars, readerVars, Ordered, Framed, WriterInv, ReaderInv, InOrder, End
<1> QED
  BY <1>1, <1>2, WritePlainStep, WritePayloadStep, CutStep, ReadPlainStep, ReadHeaderStep,
     ReadPayloadStep, ReadFailsStep DEF WireNext, Reads

LEMMA BufferStep ==
  ASSUME TypeInv, TypeInv', LargeBufferIsEnough, [WireNext]_wireVars
  PROVE  LargeBufferIsEnough'
<1>1. buffer' = buffer /\ buffer \in Nat
  BY DEF WireNext, wireVars, readerVars, WritePlain, WriteHeader, WritePayload, Cut, Reads, ReadPlain,
         ReadHeader, ReadPayload, ReadFails, TypeInv
<1>2. CASE ReadPayload
  <2>1. last \in HeaderCells /\ last.low <= MaxMessage
    BY <1>2 DEF ReadPayload, TypeInv
  <2>2. last.low \in Nat
    BY <2>1 DEF HeaderCells
  <2>3. reader' = "panic" => buffer < last.low
    BY <1>2 DEF ReadPayload
  <2> QED BY <1>1, <2>1, <2>2, <2>3, WireAssumption DEF LargeBufferIsEnough
<1>3. CASE ReadPlain \/ ReadHeader \/ ReadFails
  <2>1. CASE ReadPlain
    BY <2>1 DEF ReadPlain, LargeBufferIsEnough
  <2>2. CASE ReadHeader
    <3>1. last' \in Cells
      BY DEF TypeInv
    <3>2. last'.k = "header" => last'.low \in Nat
      BY <3>1 DEF Cells, PlainCells, ByteCells, HeaderCells
    <3> QED BY <2>2, <3>2, WireAssumption DEF ReadHeader, LargeBufferIsEnough
  <2>3. CASE ReadFails
    BY <2>3 DEF ReadFails, LargeBufferIsEnough
  <2> QED BY <1>3, <2>1, <2>2, <2>3
<1>4. CASE reader' = reader
  BY <1>1, <1>4 DEF LargeBufferIsEnough
<1> QED
  BY <1>2, <1>3, <1>4 DEF WireNext, wireVars, readerVars, WritePlain, WriteHeader, WritePayload, Cut, Reads

LEMMA WireInvStep == WireInv /\ [WireNext]_wireVars => WireInv'
<1> SUFFICES ASSUME WireInv, [WireNext]_wireVars PROVE WireInv'
  OBVIOUS
<1>1. TypeInv /\ TypeInv' /\ LargeBufferIsEnough'
  BY TypeStep, BufferStep DEF WireInv
<1>2. over => over'
  BY DEF WireNext, wireVars, writerVars, WritePlain, WriteHeader, WritePayload, Cut, Reads, ReadPlain,
         ReadHeader, ReadPayload, ReadFails
<1>3. ASSUME ~over' PROVE Ordered'
  BY <1>1, <1>2, <1>3, OrderedStep DEF WireInv
<1> QED BY <1>1, <1>3 DEF WireInv

-----------------------------------------------------------------------------
(* Whatever is written and wherever the connection ends, the invariant     *)
(* holds of the wire (WriteMsg, ReadMsg and Read).                         *)
THEOREM WireCorrect == Wire => []WireInv
<1> QED BY InitInv, WireInvStep, PTL DEF Wire

(* The reader finds a header where one was written, unless a message was   *)
(* too long for its length field (wire.go:28 and 56).                      *)
THEOREM FramingKept == Wire => []StaysFramed
<1>1. WireInv => StaysFramed
  BY DEF WireInv, Ordered, StaysFramed
<1> QED BY <1>1, WireCorrect, PTL

(* Read does not panic in a slice of maxMessageSize bytes (wire.go:84).    *)
THEOREM NoPanic == Wire => []LargeBufferIsEnough
<1>1. WireInv => LargeBufferIsEnough
  BY DEF WireInv
<1> QED BY <1>1, WireCorrect, PTL

LEMMA StreamStep ==
  ASSUME WireInv, WireInv', [WireNext]_wireVars
  PROVE  [AsStream!Put \/ AsStream!Get \/ AsStream!End \/ AsStream!Void]_(AsStream!svars)
<1> DEFINE Same == UNCHANGED <<written, over, got, reader>>
<1> USE DEF AsStream!Put, AsStream!Get, AsStream!End, AsStream!Void, AsStream!svars
<1>1. TypeInv /\ TypeInv'
  BY DEF WireInv
<1>2. CASE Same
  BY <1>2
<1>3. CASE UNCHANGED <<got, reader>> /\ written' >= written /\ (over => over')
  BY <1>1, <1>3 DEF TypeInv
<1>4. CASE UNCHANGED <<written, over, got>> /\ reader \notin Ended
  BY <1>4
<1>5. ASSUME NEW t \in Tag, NEW n \in Sizes, WriteHeader(t, n)
      PROVE  UNCHANGED <<got, reader>> /\ written' >= written /\ (over => over')
  BY <1>1, <1>5 DEF WriteHeader, readerVars, TypeInv
<1>6. CASE WritePayload
  <2>1. pending.size \in Nat
    BY <1>1, <1>6 DEF WritePayload, TypeInv, Messages
  <2> QED BY <1>1, <1>3, <1>6, <2>1 DEF WritePayload, readerVars, TypeInv
<1>7. CASE WritePlain \/ Cut \/ UNCHANGED wireVars
  BY <1>2, <1>7 DEF WritePlain, Cut, wireVars, writerVars, readerVars
<1>8. CASE ReadPlain \/ ReadHeader
  BY <1>4, <1>8 DEF ReadPlain, ReadHeader, writerVars, Ended
<1>9. CASE ReadFails
  BY <1>4, <1>9 DEF ReadFails, writerVars, Ended
<1>10. CASE ReadPayload
  <2>1. UNCHANGED <<written, over>> /\ reader = "payload"
    BY <1>10 DEF ReadPayload, writerVars
  <2>2. CASE over
    BY <2>1, <2>2
  <2>3. CASE ~over
    <3>1. Ordered
      BY <2>3 DEF WireInv
    <3>2. CASE got' = got
      BY <1>4, <2>1, <3>2 DEF Ended
    <3>3. CASE /\ reader' = "header" /\ last.low \in Nat /\ Len(got) + last.low <= written
               /\ got' = [i \in 1 .. Len(got) + last.low |-> i]
      <4>1. last.low \in 0 .. written - Len(got)
        BY <1>1, <3>3 DEF TypeInv
      <4>2. reader \notin Ended /\ reader' \notin Ended
        BY <2>1, <3>3 DEF Ended
      <4> QED BY <2>1, <3>3, <4>1, <4>2
    <3> QED BY <1>1, <1>10, <3>1, <3>2, <3>3, PayloadDelivers
  <2> QED BY <2>2, <2>3
<1> QED
  BY <1>3, <1>5, <1>6, <1>7, <1>8, <1>9, <1>10 DEF WireNext, Reads

(* MultiplexWriter and MultiplexReader implement a stream of bytes.        *)
THEOREM StreamCarried == Wire => CarriesTheStream
<1>1. WireInit => AsStream!StreamInit
  <2> SUFFICES ASSUME WireInit PROVE AsStream!StreamInit
    OBVIOUS
  <2>1. reader \notin Ended
    BY DEF WireInit, Ended
  <2> QED BY <2>1 DEF WireInit, AsStream!StreamInit
<1>2. WireInv /\ WireInv' /\ [WireNext]_wireVars
      => [AsStream!Put \/ AsStream!Get \/ AsStream!End \/ AsStream!Void]_(AsStream!svars)
  BY StreamStep
<1> QED BY <1>1, <1>2, WireCorrect, PTL DEF Wire, CarriesTheStream, AsStream!Stream

=============================================================================
