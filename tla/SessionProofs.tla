--------------------------- MODULE SessionProofs ----------------------------
(***************************************************************************)
(* A session is a use of the wire, so what is proved of Wire holds of it,  *)
(* a failure of ClientRun is heard by a client that reads on, and files    *)
(* are removed only after a whole file list.                               *)
(***************************************************************************)
EXTENDS Session, WireProofs, SequenceTheorems

(* The deferred function stays silent for these failures.                  *)
Unheard == plainOut > 0 \/ (role = "receiver" /\ failedAt = "filter")

(* The type of an error comes from nowhere but the deferred function.      *)
Innocent(c, place) == c.k = "header" /\ c.top = Bits("error") => place = "failed"

PlaceInv == TypeOK /\ (reader = "plain" => plainIn > 0)

InnocentInv ==
  /\ \A i \in 1 .. Len(conn) : Innocent(conn[i], pc)
  /\ Innocent(last, pc)
  /\ reader = "told" => pc = "failed"

Ends(c) == c.of.tag = "error" /\ c.of.size = ErrorSize

(* What ends a failed session is the error message.                        *)
Told ==
  IF pending = NoMessage THEN Ends(End) ELSE pending.tag = "error" /\ pending.size = ErrorSize

ToldInv ==
  /\ reader = "eof" => closed
  /\ ~over /\ reader = "header" => last.of.tag # "error"
  /\ ~over /\ pc = "failed" /\ ~Unheard /\ ~closed => Told

SessionInv == WireInv /\ PlaceInv /\ InnocentInv /\ ToldInv

-----------------------------------------------------------------------------
LEMMA IsWireStep ==
  ASSUME [SessionNext]_sessionVars
  PROVE  [WireNext]_wireVars
<1>1. ASSUME NEW n \in Sizes, WriteHeader("data", n) PROVE WireNext
  BY <1>1 DEF WireNext, Tag
<1>2. ASSUME WriteHeader("data", 1) \/ WriteHeader("error", ErrorSize) PROVE WireNext
  BY <1>2, SessionAssumption DEF WireNext, Tag
<1>3. CASE ClientRun
  BY <1>1, <1>2, <1>3 DEF ClientRun, ReadVersion, WriteVersion, WriteSeed, ReadRule, WriteList, ReadList,
     DeleteFiles, Serve, WriteRest, Fails, Tell, Quiet, WireNext
<1>4. CASE Close \/ Break \/ ClientReads
  BY <1>4 DEF Close, Break, ClientReads, WireNext
<1>5. CASE UNCHANGED sessionVars
  BY <1>5 DEF sessionVars
<1> QED BY <1>3, <1>4, <1>5 DEF SessionNext

(* Whatever ClientRun and the client do is a behaviour of the connection.  *)
THEOREM SessionIsWire == Session => Wire
<1>1. SessionInit => WireInit
  BY DEF SessionInit
<1>2. [SessionNext]_sessionVars => [WireNext]_wireVars
  BY IsWireStep
<1> QED BY <1>1, <1>2, PTL DEF Session, Wire

(* In a session, too, the reader keeps its place.                          *)
THEOREM SessionFramed == Session => []StaysFramed
<1> QED BY SessionIsWire, FramingKept, PTL

(* In a session, too, the data arrive as a stream.                         *)
THEOREM SessionCarries == Session => CarriesTheStream
<1> QED BY SessionIsWire, StreamCarried, PTL

-----------------------------------------------------------------------------
LEMMA OneMore ==
  ASSUME NEW S, NEW x \in S
  PROVE  <<>> \in Seq(S) /\ <<x>> \in Seq(S) /\ \A s \in Seq(S) : Append(s, x) \in Seq(S)
  OBVIOUS

(* After the end of a client's file list come replies and the goodbye.     *)
Over(s) == \A i \in 1 .. Len(s) : s[i] \in {"item", "end"}

EndsOnce(s) ==
  \A i, j \in 1 .. Len(s) : i < j /\ s[i] = "end of list" => s[j] \in {"item", "end"}

LEMMA InPart ==
  ASSUME NEW a \in Nat, NEW b \in Nat, NEW i \in 1 .. a + b, NEW j \in 1 .. a + b, i < j
  PROVE  /\ j <= a => i \in 1 .. a /\ j \in 1 .. a /\ i <= a
         /\ i <= a /\ ~ (j <= a) => i \in 1 .. a /\ j - a \in 1 .. b
         /\ ~ (i <= a) => i - a \in 1 .. b /\ j - a \in 1 .. b /\ i - a < j - a /\ ~ (j <= a)
  OBVIOUS

LEMMA Joined ==
  ASSUME NEW s \in Seq(Items), NEW t \in Seq(Items),
         EndsOnce(s), EndsOnce(t),
         (\A i \in 1 .. Len(s) : s[i] # "end of list") \/ Over(t)
  PROVE  s \o t \in Seq(Items) /\ EndsOnce(s \o t)
<1> DEFINE st == s \o t
<1>1. st \in Seq(Items) /\ Len(st) = Len(s) + Len(t) /\ Len(s) \in Nat /\ Len(t) \in Nat
  BY ConcatProperties, LenProperties
<1>2. \A i \in 1 .. Len(st) : st[i] = IF i <= Len(s) THEN s[i] ELSE t[i - Len(s)]
  BY <1>1, ConcatProperties
<1> HIDE DEF st
<1>3. ASSUME NEW i \in 1 .. Len(st), NEW j \in 1 .. Len(st), i < j, st[i] = "end of list"
      PROVE  st[j] \in {"item", "end"}
  <2> DEFINE a == Len(s)
             b == Len(t)
  <2>1. Len(st) = a + b /\ a \in Nat /\ b \in Nat
    BY <1>1
  <2>2. st[i] = (IF i <= a THEN s[i] ELSE t[i - a]) /\ st[j] = IF j <= a THEN s[j] ELSE t[j - a]
    BY <1>2
  <2> HIDE DEF a, b
  <2>3. i \in 1 .. a + b /\ j \in 1 .. a + b /\ i < j
    BY <1>3, <2>1
  <2>4. CASE j <= a
    <3>1. i \in 1 .. a /\ j \in 1 .. a /\ i <= a
      BY <2>1, <2>3, <2>4, InPart
    <3>2. st[i] = s[i] /\ st[j] = s[j]
      BY <2>2, <2>4, <3>1
    <3> QED BY <1>3, <2>3, <3>1, <3>2 DEF EndsOnce, a
  <2>5. CASE i <= a /\ ~ (j <= a)
    <3>1. i \in 1 .. a /\ j - a \in 1 .. b
      BY <2>1, <2>3, <2>5, InPart
    <3>2. st[i] = s[i] /\ st[j] = t[j - a]
      BY <2>2, <2>5
    <3> QED BY <1>3, <3>1, <3>2 DEF Over, a, b
  <2>6. CASE ~ (i <= a)
    <3>1. i - a \in 1 .. b /\ j - a \in 1 .. b /\ i - a < j - a /\ ~ (j <= a)
      BY <2>1, <2>3, <2>6, InPart
    <3>2. st[i] = t[i - a] /\ st[j] = t[j - a]
      BY <2>2, <2>6, <3>1
    <3> QED BY <1>3, <3>1, <3>2 DEF EndsOnce, b
  <2> QED BY <2>4, <2>5, <2>6
<1>4. EndsOnce(st)
  BY <1>3 DEF EndsOnce
<1> QED BY <1>1, <1>4 DEF st

(* A sequence of items of one of these sets.                               *)
LEMMA SomeOf ==
  /\ \A s \in Seq({"item", "end"}) : s \in Seq(Items) /\ Over(s) /\ EndsOnce(s)
  /\ \A s \in Seq(Items \ {"end of list"}) :
       s \in Seq(Items) /\ EndsOnce(s) /\ \A i \in 1 .. Len(s) : s[i] # "end of list"
<1>1. ASSUME NEW s \in Seq({"item", "end"})
      PROVE  s \in Seq(Items) /\ Over(s) /\ EndsOnce(s)
  <2>1. s \in Seq(Items)
    BY SeqMonotonic DEF Items
  <2>2. \A i \in 1 .. Len(s) : s[i] \in {"item", "end"}
    BY ElementOfSeq
  <2> QED BY <2>1, <2>2 DEF Over, EndsOnce
<1>2. ASSUME NEW s \in Seq(Items \ {"end of list"})
      PROVE  s \in Seq(Items) /\ EndsOnce(s) /\ \A i \in 1 .. Len(s) : s[i] # "end of list"
  <2>1. s \in Seq(Items)
    BY SeqMonotonic
  <2>2. \A i \in 1 .. Len(s) : s[i] \in Items \ {"end of list"}
    BY ElementOfSeq
  <2> QED BY <2>1, <2>2 DEF EndsOnce
<1> QED BY <1>1, <1>2

LEMMA TimesType ==
  ASSUME NEW n \in Nat, NEW S, NEW item \in S
  PROVE  Times(n, item) \in Seq(S)
  BY DEF Times

LEMMA WholeScript ==
  ASSUME NEW s \in Scripts
  PROVE  Script(s) \in Seq(Items) /\ EndsOnce(Script(s))
<1> DEFINE Front == Items \ {"end of list"}
           v == IF negotiate THEN <<"version">> ELSE <<>>
           r == IF ReadsRules THEN Append(Times(s.rules, "rule"), "end of rules") ELSE <<>>
           e == Times(s.entries, "entry")
           l == IF role = "receiver" THEN Append(e, "end of list") ELSE <<>>
           g == Times(s.items, "item")
<1>1. s.rules \in Nat /\ s.entries \in Nat /\ s.items \in Nat
  BY SessionAssumption
<1>2. {"version", "rule", "end of rules", "entry"} \subseteq Front
  BY DEF Items
<1>3. v \in Seq(Front)
  BY <1>2, OneMore
<1>4. r \in Seq(Front)
  <2>1. Times(s.rules, "rule") \in Seq(Front)
    BY <1>1, <1>2, TimesType
  <2> HIDE DEF Front
  <2> QED BY <1>2, <2>1, OneMore
<1>5. e \in Seq(Front)
  BY <1>1, <1>2, TimesType
<1>6. g \in Seq({"item", "end"}) /\ <<"end">> \in Seq({"item", "end"})
  <2>1. g \in Seq({"item", "end"})
    BY <1>1, TimesType
  <2> HIDE DEF g
  <2> QED BY <2>1, OneMore
<1>7. l \in Seq(Items) /\ EndsOnce(l)
  <2> HIDE DEF e, Front
  <2>1. CASE role = "receiver"
    <3>1. e \in Seq(Items) /\ \A i \in 1 .. Len(e) : e[i] # "end of list"
      BY <1>5, SomeOf DEF Front
    <3>2. <<"end of list">> \in Seq(Items) /\ EndsOnce(<<"end of list">>)
      <4>1. "end of list" \in Items
        BY DEF Items
      <4>2. Len(<<"end of list">>) = 1 /\ ~ \E i, j \in 1 .. 1 : i < j
        OBVIOUS
      <4> QED BY <4>1, <4>2, OneMore DEF EndsOnce
    <3>3. EndsOnce(e)
      BY <3>1 DEF EndsOnce
    <3>4. l = e \o <<"end of list">>
      <4>1. "end of list" \in Items
        BY DEF Items
      <4> QED BY <2>1, <3>1, <4>1, AppendIsConcat
    <3> HIDE DEF l
    <3> QED BY <3>1, <3>2, <3>3, <3>4, Joined
  <2>2. CASE role # "receiver"
    BY <2>2, EmptySeq DEF EndsOnce
  <2> QED BY <2>1, <2>2
<1> HIDE DEF v, r, e, l, g, Front
<1>8. v \o r \in Seq(Front)
  BY <1>3, <1>4, ConcatProperties
<1>9. v \o r \o l \in Seq(Items) /\ EndsOnce(v \o r \o l)
  <2>1. v \o r \in Seq(Items) /\ EndsOnce(v \o r)
        /\ \A i \in 1 .. Len(v \o r) : (v \o r)[i] # "end of list"
    BY <1>8, SomeOf DEF Front
  <2> QED BY <1>7, <2>1, Joined
<1>10. v \o r \o l \o g \in Seq(Items) /\ EndsOnce(v \o r \o l \o g)
  BY <1>6, <1>9, SomeOf, Joined
<1>11. v \o r \o l \o g \o <<"end">> \in Seq(Items) /\ EndsOnce(v \o r \o l \o g \o <<"end">>)
  BY <1>6, <1>10, SomeOf, Joined
<1>12. Script(s) = v \o r \o l \o g \o <<"end">>
  BY DEF Script, v, r, l, g, e
<1> QED BY <1>11, <1>12
LEMMA PlaceInit == SessionInit => PlaceInv
<1> SUFFICES ASSUME SessionInit PROVE PlaceInv
  OBVIOUS
<1>1. up \in Seq(Items)
  <2>1. PICK s \in Scripts : \E n \in 0 .. Len(Script(s)) : up = SubSeq(Script(s), 1, n)
    BY DEF SessionInit
  <2>2. Script(s) \in Seq(Items)
    BY WholeScript
  <2> QED BY <2>1, <2>2
<1>2. plainOut \in {1, 2} /\ plainIn = plainOut /\ (reader = "plain" => plainIn > 0)
  BY DEF SessionInit, WireInit
<1>3. pc \in {"version", "seed"} /\ (pc = "version" => plainOut = 2) /\ (pc = "seed" => plainOut = 1)
  BY DEF SessionInit
<1>4. /\ role \in Roles /\ delete \in BOOLEAN /\ negotiate \in BOOLEAN /\ flag \in BOOLEAN
      /\ err \in BOOLEAN /\ ioErrors \in BOOLEAN /\ removed \in BOOLEAN
  BY DEF SessionInit
<1> QED BY <1>1, <1>2, <1>3, <1>4 DEF PlaceInv, TypeOK, Places

LEMMA PlaceStep ==
  ASSUME PlaceInv, [SessionNext]_sessionVars
  PROVE  PlaceInv'
<1> USE DEF PlaceInv, TypeOK, Places, Final, optVars, serverVars, At, readerVars, writerVars
<1>1. \A item : Take(item) => up' \in Seq(Items)
  BY DEF Take
<1>2. CASE ReadVersion
  BY <1>1, <1>2 DEF ReadVersion, Quiet, wireVars
<1>3. CASE WriteVersion
  BY <1>3 DEF WriteVersion, WritePlain
<1>4. CASE WriteSeed
  BY <1>4 DEF WriteSeed, WritePlain
<1>5. CASE ReadRule
  BY <1>1, <1>5 DEF ReadRule, Quiet, wireVars
<1>6. CASE WriteList
  BY <1>6 DEF WriteList, WriteHeader
<1>7. CASE ReadList
  BY <1>1, <1>7 DEF ReadList, Quiet, wireVars
<1>8. CASE DeleteFiles
  BY <1>8 DEF DeleteFiles, Quiet, wireVars, Failed
<1>9. CASE Serve
  BY <1>1, <1>9 DEF Serve, Quiet, wireVars, WriteHeader
<1>10. CASE WriteRest
  BY <1>10 DEF WriteRest, WritePayload
<1>11. CASE Fails
  BY <1>11 DEF Fails, Failed, Stops, wireVars
<1>12. CASE Tell
  BY <1>12 DEF Tell, WriteHeader, wireVars
<1>13. CASE Close
  BY <1>13 DEF Close, Cut
<1>14. CASE Break
  BY <1>14 DEF Break, Cut
<1>15. CASE ClientReads
  <2>1. CASE ReadPlain
    BY <1>15, <2>1 DEF ClientReads, ReadPlain
  <2>2. CASE ReadHeader
    <3>1. reader' # "plain" /\ UNCHANGED <<plainIn, plainOut, optVars, up, serverVars>>
      BY <1>15, <2>2 DEF ClientReads, ReadHeader
    <3> QED BY <3>1
  <2>3. CASE ReadPayload \/ ReadFails
    BY <1>15, <2>3 DEF ClientReads, ReadPayload, ReadFails
  <2> QED BY <1>15, <2>1, <2>2, <2>3 DEF ClientReads, Reads
<1>16. CASE UNCHANGED sessionVars
  BY <1>16 DEF sessionVars, wireVars
<1> QED
  BY <1>2, <1>3, <1>4, <1>5, <1>6, <1>7, <1>8, <1>9, <1>10, <1>11, <1>12, <1>13, <1>14, <1>15, <1>16
     DEF SessionNext, ClientRun

-----------------------------------------------------------------------------
LEMMA FailedStays ==
  ASSUME pc = "failed", [SessionNext]_sessionVars
  PROVE  /\ pc' = "failed" /\ UNCHANGED <<role, failedAt>>
         /\ WritePayload \/ Cut \/ Reads \/ UNCHANGED wireVars
  BY DEF SessionNext, ClientRun, ReadVersion, WriteVersion, WriteSeed, ReadRule, WriteList, ReadList,
     DeleteFiles, Serve, WriteRest, Fails, Tell, Close, Break, ClientReads, At, Final, sessionVars,
     optVars, serverVars

(* No header but that of an error has the type of one, however long the    *)
(* message is.                                                             *)
LEMMA OnlyErrorsLookIt ==
  ASSUME NEW t \in Tag, NEW m, m.tag = t, Header(m).top = Bits("error")
  PROVE  t = "error"
<1>1. Header(m).top = Bits(t) \cup Spilled(m.size)
  BY DEF Header
<1>2. 3 \in Bits("error") /\ 0 \notin Bits("error")
  BY DEF Bits
<1>3. 0 \notin Bits(t)
  BY <1>1, <1>2
<1>4. 0 \in Bits("data") /\ 0 \in Bits("info")
  BY DEF Bits
<1> QED BY <1>3, <1>4 DEF Tag

LEMMA InnocentDrop ==
  ASSUME TypeInv, InnocentInv, pc = "failed" => pc' = "failed",
         NEW n \in 0 .. Len(conn), conn' = SubSeq(conn, n + 1, Len(conn)),
         last' = IF n = 0 THEN last ELSE conn[n]
  PROVE  (\A i \in 1 .. Len(conn') : Innocent(conn'[i], pc')) /\ Innocent(last', pc')
<1>1. Len(conn') = Len(conn) - n /\ \A i \in 1 .. Len(conn') : conn'[i] = conn[i + n]
  BY DEF TypeInv
<1>2. ASSUME NEW i \in 1 .. Len(conn') PROVE Innocent(conn'[i], pc')
  <2>1. i + n \in 1 .. Len(conn) /\ conn'[i] = conn[i + n]
    BY <1>1 DEF TypeInv
  <2> QED BY <2>1 DEF InnocentInv, Innocent
<1>3. Innocent(last', pc')
  <2>1. CASE n = 0
    BY <2>1 DEF InnocentInv, Innocent
  <2>2. CASE n # 0
    <3>1. n \in 1 .. Len(conn) /\ last' = conn[n]
      BY <2>2
    <3> QED BY <3>1 DEF InnocentInv, Innocent
  <2> QED BY <2>1, <2>2
<1> QED BY <1>2, <1>3

LEMMA InnocentAppend ==
  ASSUME TypeInv, InnocentInv, pc = "failed" => pc' = "failed", last' = last,
         Len(conn') >= Len(conn), \A i \in 1 .. Len(conn) : conn'[i] = conn[i],
         \A i \in 1 .. Len(conn') : i > Len(conn) => Innocent(conn'[i], pc')
  PROVE  (\A i \in 1 .. Len(conn') : Innocent(conn'[i], pc')) /\ Innocent(last', pc')
<1>1. ASSUME NEW i \in 1 .. Len(conn') PROVE Innocent(conn'[i], pc')
  <2>1. CASE i \in 1 .. Len(conn)
    BY <2>1 DEF InnocentInv, Innocent
  <2>2. CASE i > Len(conn)
    BY <2>2
  <2> QED BY <2>1, <2>2 DEF TypeInv
<1> QED BY <1>1 DEF InnocentInv, Innocent

LEMMA InnocentHeader ==
  ASSUME TypeInv, InnocentInv, pc = "failed" => pc' = "failed",
         NEW t \in Tag, NEW n \in Nat, WriteHeader(t, n), t = "error" => pc' = "failed"
  PROVE  InnocentInv'
<1>1. conn' = Append(conn, Header(Message(t, n))) /\ last' = last /\ reader' = reader
  BY DEF WriteHeader, readerVars
<1>2. Header(Message(t, n)).top = Bits("error") => t = "error"
  BY OnlyErrorsLookIt DEF Message
<1>3. Innocent(Header(Message(t, n)), pc')
  BY <1>2 DEF Innocent
<1>4. Len(conn') >= Len(conn) /\ (\A i \in 1 .. Len(conn) : conn'[i] = conn[i])
      /\ \A i \in 1 .. Len(conn') : i > Len(conn) => conn'[i] = Header(Message(t, n))
  BY <1>1 DEF TypeInv
<1> QED BY <1>1, <1>3, <1>4, InnocentAppend DEF InnocentInv

LEMMA InnocentReads ==
  ASSUME TypeInv, TypeInv', InnocentInv, pc' = pc, Reads
  PROVE  InnocentInv'
<1>1. CASE ReadPlain \/ ReadHeader
  <2>1. conn # <<>> /\ conn' = Tail(conn) /\ last' = Head(conn) /\ reader' # "told"
    BY <1>1 DEF ReadPlain, ReadHeader
  <2>2. 1 \in 0 .. Len(conn) /\ conn' = SubSeq(conn, 1 + 1, Len(conn)) /\ last' = conn[1]
    BY <2>1 DEF TypeInv
  <2> QED BY <2>1, <2>2, InnocentDrop DEF InnocentInv
<1>2. CASE ReadPayload
  <2>1. last \in HeaderCells /\ last.low \in Nat /\ Len(conn) >= last.low
    BY <1>2 DEF ReadPayload, TypeInv, HeaderCells
  <2>2. last.low \in 0 .. Len(conn) /\ conn' = SubSeq(conn, last.low + 1, Len(conn))
        /\ last' = (IF last.low = 0 THEN last ELSE conn[last.low])
    BY <1>2, <2>1 DEF ReadPayload, Drop, TypeInv
  <2>3. reader' = "told" => last.top = Bits("error")
    BY <1>2 DEF ReadPayload
  <2>4. last.k = "header"
    BY <2>1 DEF HeaderCells
  <2>5. reader' = "told" => pc' = "failed"
    BY <2>3, <2>4 DEF InnocentInv, Innocent
  <2> QED BY <2>2, <2>5, InnocentDrop DEF InnocentInv
<1>3. CASE ReadFails
  BY <1>3 DEF ReadFails, InnocentInv, Innocent
<1> QED BY <1>1, <1>2, <1>3 DEF Reads

LEMMA InnocentStep ==
  ASSUME TypeInv, TypeInv', InnocentInv, [SessionNext]_sessionVars
  PROVE  InnocentInv'
<1>1. pc = "failed" => pc' = "failed"
  BY FailedStays
<1>2. CASE UNCHANGED wireVars
  BY <1>1, <1>2 DEF wireVars, readerVars, InnocentInv, Innocent
<1>3. ASSUME NEW t \in Tag, NEW n \in Nat, WriteHeader(t, n), t = "error" => pc' = "failed"
      PROVE  InnocentInv'
  BY <1>1, <1>3, InnocentHeader
<1>4. CASE WritePlain
  <2>1. conn' = Append(conn, Plain(1 - plainOut)) /\ last' = last /\ reader' = reader
    BY <1>4 DEF WritePlain, readerVars
  <2>2. Innocent(Plain(1 - plainOut), pc')
    BY DEF Innocent, Plain
  <2>3. Len(conn') >= Len(conn) /\ (\A i \in 1 .. Len(conn) : conn'[i] = conn[i])
        /\ \A i \in 1 .. Len(conn') : i > Len(conn) => conn'[i] = Plain(1 - plainOut)
    BY <2>1 DEF TypeInv
  <2> QED BY <1>1, <2>1, <2>2, <2>3, InnocentAppend DEF InnocentInv
<1>5. CASE WritePayload
  <2>1. conn' = conn \o [i \in 1 .. pending.size |-> Byte(pending, i)]
        /\ last' = last /\ reader' = reader /\ pending.size \in Nat
    BY <1>5 DEF WritePayload, readerVars, TypeInv, Messages
  <2>2. Len(conn') >= Len(conn) /\ (\A i \in 1 .. Len(conn) : conn'[i] = conn[i])
        /\ \A i \in 1 .. Len(conn') : i > Len(conn) => conn'[i] = Byte(pending, i - Len(conn))
    <3>1. conn \in Seq(Cells) /\ Len(conn) \in Nat
      BY DEF TypeInv
    <3> DEFINE all == {Byte(pending, i) : i \in 1 .. pending.size}
               new == [i \in 1 .. pending.size |-> Byte(pending, i)]
    <3>2. new \in [1 .. pending.size -> all] /\ \A i \in 1 .. pending.size : new[i] = Byte(pending, i)
      OBVIOUS
    <3> HIDE DEF new, all
    <3>3. new \in Seq(all) /\ Len(new) = pending.size
      BY <2>1, <3>2
    <3>4. conn' = conn \o new
      BY <2>1 DEF new
    <3> QED BY <2>1, <3>1, <3>2, <3>3, <3>4
  <2>3. \A i \in 1 .. Len(conn') : i > Len(conn) => Innocent(conn'[i], pc')
    BY <2>2, ByteFields DEF Innocent
  <2> QED BY <1>1, <2>1, <2>2, <2>3, InnocentAppend DEF InnocentInv
<1>6. CASE Cut
  <2>1. Len(conn') <= Len(conn) /\ (\A i \in 1 .. Len(conn') : conn'[i] = conn[i])
        /\ last' = last /\ reader' = reader /\ Len(conn) \in Nat /\ Len(conn') \in Nat
    BY <1>6 DEF Cut, TypeInv, readerVars
  <2> QED BY <1>1, <2>1 DEF InnocentInv, Innocent
<1>7. CASE Reads /\ pc' = pc
  BY <1>7, InnocentReads
<1>8. 1 \in Nat /\ ErrorSize \in Nat /\ Sizes \subseteq Nat /\ "data" \in Tag /\ "error" \in Tag
  BY SessionAssumption, WireAssumption DEF Tag
<1>9. CASE WriteList \/ Serve \/ Tell
  <2>1. ASSUME NEW n \in Sizes, WriteHeader("data", n) PROVE InnocentInv'
    BY <1>3, <1>8, <2>1
  <2>2. CASE WriteHeader("data", 1)
    BY <1>3, <1>8, <2>2
  <2>3. CASE Tell
    <3>1. pc' = "failed"
      BY <2>3 DEF Tell, At
    <3> QED BY <1>2, <1>3, <1>8, <2>3, <3>1 DEF Tell
  <2> QED BY <1>2, <1>9, <2>1, <2>2, <2>3 DEF WriteList, Serve, Quiet
<1> QED
  BY <1>2, <1>4, <1>5, <1>6, <1>7, <1>9 DEF SessionNext, ClientRun, ReadVersion, WriteVersion,
     WriteSeed, ReadRule, ReadList, DeleteFiles, WriteRest, Fails, Close, Break, ClientReads,
     Quiet, sessionVars, serverVars

-----------------------------------------------------------------------------
LEMMA EndKept ==
  ASSUME WireInv, WireInv', ~over, Reads
  PROVE  End' = End /\ UNCHANGED <<pending, closed, plainOut, over>>
<1>1. TypeInv /\ TypeInv' /\ Ordered
  BY DEF WireInv
<1>2. CASE ReadPlain \/ ReadHeader
  <2>1. conn # <<>> /\ conn' = Tail(conn) /\ last' = Head(conn) /\ UNCHANGED <<closed, writerVars>>
    BY <1>2 DEF ReadPlain, ReadHeader
  <2>2. 1 \in 0 .. Len(conn) /\ conn' = SubSeq(conn, 1 + 1, Len(conn)) /\ last' = conn[1]
    BY <1>1, <2>1 DEF TypeInv
  <2> QED BY <1>1, <2>1, <2>2, DropStep DEF Ordered, writerVars
<1>3. CASE ReadPayload
  <2>1. last.low \in 0 .. Len(conn)
    BY <1>1, <1>3 DEF ReadPayload, TypeInv, HeaderCells
  <2>2. conn' = SubSeq(conn, last.low + 1, Len(conn)) /\ UNCHANGED <<closed, writerVars>>
        /\ last' = (IF last.low = 0 THEN last ELSE conn[last.low])
    BY <1>3 DEF ReadPayload, Drop
  <2> QED BY <1>1, <2>1, <2>2, DropStep DEF Ordered, writerVars
<1>4. CASE ReadFails
  BY <1>4 DEF ReadFails, End, writerVars
<1> QED BY <1>2, <1>3, <1>4 DEF Reads

(* After an error message the reader does not go on.                       *)
LEMMA HeaderAfterData ==
  ASSUME WireInv, WireInv', ~over, Reads, reader' = "header"
  PROVE  last'.of.tag # "error"
<1>1. TypeInv /\ TypeInv' /\ Ordered
  BY DEF WireInv
<1>2. CASE ReadPlain
  <2>1. last' \in Cells /\ last'.k = "plain"
    BY <1>1, <1>2 DEF ReadPlain, TypeInv
  <2>2. last' \in PlainCells
    BY <2>1 DEF Cells, HeaderCells, ByteCells
  <2> QED BY <2>2 DEF PlainCells, Hello
<1>3. CASE ReadHeader \/ ReadFails
  BY <1>3 DEF ReadHeader, ReadFails
<1>4. CASE ReadPayload
  <2>1. last.of.tag = "data"
    BY <1>1, <1>4, PayloadDelivers
  <2>2. last'.of = last.of
    <3>1. last' = (IF last.low = 0 THEN last ELSE conn[last.low]) /\ reader = "payload"
          /\ Len(conn) >= last.low
      BY <1>4 DEF ReadPayload
    <3>2. last.low \in Nat
      BY <1>1, <3>1 DEF TypeInv, HeaderCells
    <3>3. last.low # 0 => conn[last.low] = Byte(last.of, last.low)
      BY <1>1, <3>1, <3>2, PayloadCells
    <3> QED BY <3>1, <3>3, ByteFields
  <2> QED BY <2>1, <2>2
<1> QED BY <1>2, <1>3, <1>4 DEF Reads

LEMMA ToldStep ==
  ASSUME WireInv, WireInv', PlaceInv, ToldInv, [SessionNext]_sessionVars
  PROVE  ToldInv'
<1>1. [WireNext]_wireVars
  BY IsWireStep
<1>2. (closed => closed') /\ (over => over')
  <2>1. over => over'
    BY <1>1 DEF WireNext, wireVars, writerVars, WritePlain, WriteHeader, WritePayload, Cut, Reads,
       ReadPlain, ReadHeader, ReadPayload, ReadFails
  <2>2. closed' = closed \/ Cut
    BY <1>1 DEF WireNext, wireVars, WritePlain, WriteHeader, WritePayload, Reads,
       ReadPlain, ReadHeader, ReadPayload, ReadFails
  <2>3. Cut => closed'
    BY DEF Cut
  <2> QED BY <2>1, <2>2, <2>3
<1>3. Reads \/ UNCHANGED <<reader, last>>
  BY <1>1 DEF WireNext, wireVars, readerVars, WritePlain, WriteHeader, WritePayload, Cut
<1>4. reader' = "eof" => closed'
  <2>1. CASE Reads
    BY <1>2, <2>1 DEF Reads, ReadPlain, ReadHeader, ReadPayload, ReadFails
  <2> QED BY <1>2, <1>3, <2>1 DEF ToldInv
<1>5. ~over' /\ reader' = "header" => last'.of.tag # "error"
  BY <1>2, <1>3, HeaderAfterData DEF ToldInv
<1>6. ASSUME ~over', pc' = "failed", ~Unheard', ~closed', pc = "failed"
      PROVE  Told'
  <2>1. WritePayload \/ Cut \/ Reads \/ UNCHANGED wireVars
    BY <1>6, FailedStays
  <2>2. ~over /\ ~closed
    BY <1>2, <1>6
  <2>3. UNCHANGED plainOut /\ UNCHANGED <<role, failedAt>>
    BY <1>6, <2>1, FailedStays DEF WritePayload, Cut, Reads, ReadPlain, ReadHeader, ReadPayload,
       ReadFails, wireVars, writerVars
  <2>4. Told
    BY <1>6, <2>2, <2>3 DEF ToldInv, Unheard
  <2>5. CASE WritePayload
    <3>1. pending.tag = "error" /\ pending.size = ErrorSize /\ pending' = NoMessage
          /\ conn' = conn \o [i \in 1 .. ErrorSize |-> Byte(pending, i)]
      BY <2>4, <2>5 DEF Told, WritePayload
    <3>2. ErrorSize \in Nat /\ ErrorSize > 0 /\ conn \in Seq(Cells)
      BY SessionAssumption DEF WireInv, TypeInv
    <3>3. Len(conn') = Len(conn) + ErrorSize /\ conn'[Len(conn')] = Byte(pending, ErrorSize)
      BY <3>1, <3>2
    <3>4. conn' # <<>>
      <4>1. Len(<<>>) = 0
        OBVIOUS
      <4>2. Len(conn') > 0
        BY <3>2, <3>3
      <4> QED BY <4>1, <4>2
    <3>5. End' = Byte(pending, ErrorSize)
      BY <3>3, <3>4 DEF End
    <3>6. Ends(End)'
      BY <3>1, <3>5, ByteFields DEF Ends
    <3> QED BY <3>1, <3>6 DEF Told
  <2>6. CASE Cut
    BY <1>6, <2>6 DEF Cut
  <2>7. CASE Reads
    BY <2>2, <2>4, <2>7, EndKept DEF Told, Ends
  <2>8. CASE UNCHANGED wireVars
    BY <2>4, <2>8 DEF Told, Ends, End, wireVars, writerVars, readerVars
  <2> QED BY <2>1, <2>5, <2>6, <2>7, <2>8
<1>7. ASSUME ~over', pc' = "failed", ~Unheard', ~closed', pc # "failed"
      PROVE  Told'
  <2>1. ~closed
    BY <1>2, <1>7
  <2>2. CASE Tell
    <3>1. WriteHeader("error", ErrorSize)
      BY <2>1, <2>2 DEF Tell
    <3>2. pending' = Message("error", ErrorSize)
      BY <3>1 DEF WriteHeader
    <3> QED BY <3>2 DEF Told, Message, NoMessage
  <2>3. CASE Fails
    <3>1. Failed /\ UNCHANGED <<plainOut, role>>
      BY <2>3 DEF Fails, wireVars, writerVars, optVars
    <3>2. err' = FALSE
      BY <1>7, <3>1 DEF Failed
    <3>3. pc \in {"version", "greet", "seed"} \/ (pc = "filter" /\ role = "receiver")
      BY <3>1, <3>2 DEF Failed
    <3>4. failedAt' = pc
      BY <3>1 DEF Failed
    <3> QED BY <1>7, <3>1, <3>3, <3>4 DEF Unheard, PlaceInv, TypeOK
  <2>4. CASE DeleteFiles
    BY <1>7, <2>4 DEF DeleteFiles, Failed
  <2>5. \/ Tell \/ Fails \/ DeleteFiles
    BY <1>7 DEF SessionNext, ClientRun, ReadVersion, WriteVersion, WriteSeed, ReadRule, WriteList,
       ReadList, Serve, WriteRest, Close, Break, ClientReads, At, Final, sessionVars, serverVars
  <2> QED BY <2>2, <2>3, <2>4, <2>5
<1> QED BY <1>4, <1>5, <1>6, <1>7 DEF ToldInv

LEMMA SessionInit_Inv == SessionInit => SessionInv
<1> SUFFICES ASSUME SessionInit PROVE SessionInv
  OBVIOUS
<1>1. WireInv /\ PlaceInv
  BY InitInv, PlaceInit DEF SessionInit
<1>2. last = Plain(-plainOut) /\ conn = <<>> /\ reader \in {"header", "plain"} /\ pc # "failed"
  BY DEF SessionInit, WireInit
<1>3. InnocentInv
  BY <1>2 DEF InnocentInv, Innocent, Plain
<1>4. ToldInv
  BY <1>2 DEF ToldInv, Plain, Hello
<1> QED BY <1>1, <1>3, <1>4 DEF SessionInv

LEMMA SessionInvStep == SessionInv /\ [SessionNext]_sessionVars => SessionInv'
<1> SUFFICES ASSUME SessionInv, [SessionNext]_sessionVars PROVE SessionInv'
  OBVIOUS
<1>1. WireInv'
  BY IsWireStep, WireInvStep DEF SessionInv
<1>2. PlaceInv'
  BY PlaceStep DEF SessionInv
<1>3. InnocentInv'
  BY <1>1, InnocentStep DEF SessionInv, WireInv
<1>4. ToldInv'
  BY <1>1, ToldStep DEF SessionInv
<1> QED BY <1>1, <1>2, <1>3, <1>4 DEF SessionInv

THEOREM SessionCorrect == Session => []SessionInv
<1> QED BY SessionInit_Inv, SessionInvStep, PTL DEF Session

(* At every place of ClientRun the variables have their types, and as much *)
(* of the greeting is written as should be (client.go:26-42).              *)
THEOREM SessionTypes == Session => []TypeOK
<1>1. SessionInv => TypeOK
  BY DEF SessionInv, PlaceInv
<1> QED BY <1>1, SessionCorrect, PTL

(* The deferred function of ClientRun tells a client that reads on of      *)
(* every failure but those it cannot see (client.go:46-50), and of nothing *)
(* else.                                                                   *)
THEOREM FailuresAreHeard == Session => []FailureIsHeard
<1>1. SessionInv => FailureIsHeard
  <2> SUFFICES ASSUME SessionInv, pc = "failed", ~(plainOut > 0), pending = NoMessage,
                      ~closed, conn = <<>>, ~over, ~(role = "receiver" /\ failedAt = "filter")
               PROVE  reader \in {"told", "refused", "panic"}
    BY DEF FailureIsHeard, SessionInv, InnocentInv
  <2>1. TypeInv /\ Ordered /\ ToldInv
    BY DEF SessionInv, WireInv
  <2>2. End = last /\ last.of.tag = "error" /\ last.of.size = ErrorSize
    BY <2>1 DEF ToldInv, Unheard, Told, Ends, End
  <2>3. ErrorSize # 0
    BY SessionAssumption
  <2>4. Rest(last) = 0
    <3>1. NoMessage \notin Messages
      BY DEF NoMessage, Messages, Tag
    <3> QED BY <2>1, <2>2, <3>1 DEF Ordered, WriterInv
  <2>5. reader # "plain"
    BY <2>1, <2>2 DEF Ordered, ReaderInv, Plain, Hello
  <2>6. reader # "header"
    BY <2>1, <2>2 DEF ToldInv
  <2>7. reader # "payload"
    BY <2>1, <2>2, <2>3, <2>4, LastHeader
  <2>8. reader # "eof" /\ reader # "lost"
    BY <2>1 DEF ToldInv, Ordered
  <2> QED BY <2>1, <2>5, <2>6, <2>7, <2>8 DEF TypeInv, Ended
<1> QED BY <1>1, SessionCorrect, PTL
-----------------------------------------------------------------------------
DeletionInv ==
  /\ EndsOnce(up)
  /\ pc = "delete" => ioErrors = flag /\ Over(up)
  /\ DeletionIsSafe

LEMMA AfterTake ==
  ASSUME up \in Seq(Items), EndsOnce(up), NEW item, Take(item)
  PROVE  EndsOnce(up') /\ (Over(up) \/ item = "end of list" => Over(up'))
<1> DEFINE t == Tail(up)
           n == Len(t)
<1>1. up # <<>> /\ up' = t /\ up[1] = item
  BY DEF Take
<1>2. Len(up) \in Nat /\ n = Len(up) - 1 /\ \A i \in 1 .. n : t[i] = up[i + 1]
  BY <1>1, HeadTailProperties, LenProperties
<1>3. n \in Nat /\ Len(up) = n + 1
  BY <1>1, <1>2, HeadTailProperties, LenProperties
<1> HIDE DEF t, n
<1>4. /\ \A i \in 1 .. n : i + 1 \in 1 .. n + 1 /\ 1 < i + 1
      /\ \A i, j \in 1 .. n : i < j => i + 1 < j + 1
      /\ \A i \in 1 .. n : 1 \in 1 .. n + 1
  <2>1. n \in Nat
    BY <1>3
  <2> QED BY <2>1
<1>5. EndsOnce(t)
  <2>1. ASSUME NEW i \in 1 .. n, NEW j \in 1 .. n, i < j, t[i] = "end of list"
        PROVE  t[j] \in {"item", "end"}
    <3>1. i + 1 \in 1 .. Len(up) /\ j + 1 \in 1 .. Len(up) /\ i + 1 < j + 1
      BY <1>3, <1>4, <2>1
    <3>2. t[i] = up[i + 1] /\ t[j] = up[j + 1]
      BY <1>2
    <3> QED BY <2>1, <3>1, <3>2 DEF EndsOnce
  <2> QED BY <2>1 DEF EndsOnce, n
<1>6. Over(up) => Over(t)
  BY <1>2, <1>3, <1>4 DEF Over, n
<1>7. item = "end of list" => Over(t)
  <2> SUFFICES ASSUME item = "end of list", NEW i \in 1 .. n PROVE t[i] \in {"item", "end"}
    BY DEF Over, n
  <2>1. 1 \in 1 .. n + 1 /\ i + 1 \in 1 .. n + 1 /\ 1 < i + 1
    BY <1>4
  <2> QED BY <1>1, <1>2, <1>3, <2>1 DEF EndsOnce
<1> QED BY <1>1, <1>5, <1>6, <1>7

LEMMA DeletionInit == SessionInit => DeletionInv
<1> SUFFICES ASSUME SessionInit PROVE DeletionInv
  OBVIOUS
<1>1. ASSUME NEW s \in Scripts, NEW n \in 0 .. Len(Script(s)), up = SubSeq(Script(s), 1, n)
      PROVE  EndsOnce(up)
  <2> DEFINE f == Script(s)
  <2>1. f \in Seq(Items) /\ EndsOnce(f)
    BY WholeScript
  <2>2. Len(f) \in Nat
    BY <2>1, LenProperties
  <2>3. n \in Nat /\ n <= Len(f)
    BY <2>2
  <2> HIDE DEF f
  <2>4. \A i \in 1 .. n : i \in 1 .. Len(f)
    BY <2>2, <2>3
  <2>5. Len(up) = n /\ \A i \in 1 .. n : up[i] = f[i]
    <3>1. \A i \in 1 .. n : f[i] \in Items
      BY <2>1, <2>4, ElementOfSeq
    <3>2. up = SubSeq(f, 1, n)
      BY <1>1 DEF f
    <3>3. Len(up) = (IF 1 <= n THEN n - 1 + 1 ELSE 0)
          /\ \A i \in 1 .. n - 1 + 1 : up[i] = f[1 + i - 1]
      BY <2>3, <3>1, <3>2, SubSeqProperties
    <3>4. n - 1 + 1 = n /\ (~ (1 <= n) => n = 0)
      BY <2>3
    <3>5. \A i \in 1 .. n : 1 + i - 1 = i
      BY <2>3
    <3> QED BY <3>3, <3>4, <3>5
  <2> QED BY <2>1, <2>4, <2>5 DEF EndsOnce
<1>2. EndsOnce(up)
  BY <1>1 DEF SessionInit
<1>3. pc # "delete" /\ removed = FALSE
  BY DEF SessionInit
<1> QED BY <1>2, <1>3 DEF DeletionInv, DeletionIsSafe

LEMMA DeletionStep ==
  ASSUME PlaceInv, DeletionInv, [SessionNext]_sessionVars
  PROVE  DeletionInv'
<1>1. up \in Seq(Items)
  BY DEF PlaceInv, TypeOK
<1>2. EndsOnce(<<>>) /\ Over(<<>>)
  BY EmptySeq DEF EndsOnce, Over
<1>3. UNCHANGED up \/ up' = <<>> \/ \E item : Take(item)
  BY DEF SessionNext, ClientRun, ReadVersion, WriteVersion, WriteSeed, ReadRule, WriteList, ReadList,
     DeleteFiles, Serve, WriteRest, Fails, Tell, Close, Break, ClientReads, Stops, sessionVars
<1>4. EndsOnce(up') /\ (Over(up) => Over(up'))
  BY <1>1, <1>2, <1>3, AfterTake DEF DeletionInv
<1>5. UNCHANGED <<delete, flag>>
  BY DEF SessionNext, ClientRun, ReadVersion, WriteVersion, WriteSeed, ReadRule, WriteList, ReadList,
     DeleteFiles, Serve, WriteRest, Fails, Tell, Close, Break, ClientReads, optVars, sessionVars
<1>6. pc' = "delete" => ioErrors' = flag' /\ Over(up')
  <2>1. CASE pc = "delete" /\ UNCHANGED ioErrors
    BY <1>4, <1>5, <2>1 DEF DeletionInv
  <2>2. CASE Take("end of list") /\ ioErrors' = flag
    BY <1>1, <1>5, <2>2, AfterTake DEF DeletionInv
  <2>3. pc' = "delete" => \/ pc = "delete" /\ UNCHANGED ioErrors
                          \/ Take("end of list") /\ ioErrors' = flag
    BY DEF SessionNext, ClientRun, ReadVersion, WriteVersion, WriteSeed, ReadRule, WriteList, ReadList,
       DeleteFiles, Serve, WriteRest, Fails, Tell, Close, Break, ClientReads, At, Failed,
       serverVars, sessionVars
  <2> QED BY <2>1, <2>2, <2>3
<1>7. DeletionIsSafe'
  <2>1. CASE DeleteFiles
    <3>1. pc = "delete" /\ removed' = (delete /\ ~ioErrors)
      BY <2>1 DEF DeleteFiles
    <3>2. Over(up') /\ ioErrors = flag
      BY <1>4, <3>1 DEF DeletionInv
    <3> QED BY <1>5, <3>1, <3>2 DEF DeletionIsSafe, Over
  <2>2. CASE UNCHANGED removed
    <3>1. removed => delete /\ ~flag /\ Over(up)
      BY DEF DeletionInv, DeletionIsSafe, Over
    <3> QED BY <1>4, <1>5, <2>2, <3>1 DEF DeletionIsSafe, Over
  <2>3. DeleteFiles \/ UNCHANGED removed
    BY DEF SessionNext, ClientRun, ReadVersion, WriteVersion, WriteSeed, ReadRule, WriteList, ReadList,
       Serve, WriteRest, Fails, Tell, Close, Break, ClientReads, serverVars, sessionVars
  <2> QED BY <2>1, <2>2, <2>3
<1> QED BY <1>4, <1>6, <1>7 DEF DeletionInv

(* Whatever stops, breaks or is cut off, Remove is only reached with a     *)
(* whole file list, on request and without I/O errors (do.go:23-29).       *)
THEOREM DeletionsAreSafe == Session => []DeletionIsSafe
<1>1. DeletionInv => DeletionIsSafe
  BY DEF DeletionInv
<1>2. SessionInit => SessionInv /\ DeletionInv
  BY SessionInit_Inv, DeletionInit
<1>3. (SessionInv /\ DeletionInv) /\ [SessionNext]_sessionVars => (SessionInv /\ DeletionInv)'
  <2>1. SessionInv => PlaceInv
    BY DEF SessionInv
  <2> QED BY <2>1, SessionInvStep, DeletionStep
<1> QED BY <1>1, <1>2, <1>3, PTL DEF Session
=============================================================================
