---------------------------- MODULE SenderProofs ----------------------------
(***************************************************************************)
(* Proofs about Sender, for every file list, file system, number and kind  *)
(* of requests, and combination of failures.                               *)
(*                                                                         *)
(* That the sender decodes what the client asks for is a matter of what is *)
(* on its way: each request is whole, but for the last, and the first is   *)
(* the one that is read next.                                              *)
(***************************************************************************)
EXTENDS Sender, Induction, SequenceTheorems, TLAPS

Request ==
  [t : {"idx"}, v : File \cup {Done}] \cup [t : {"head"}, v : Nat] \cup [t : {"sum"}, v : BOOLEAN]

(* What has to come behind the j-th message on its way.  The last one tells*)
(* whether the client has still to write a head and its sums.              *)
Follow(j, t) ==
  IF j < Len(in) THEN in[j + 1].t = t ELSE clientAsks.sums = -1

FollowsIndex(j) ==
  IF in[j].v = Done \/ dryRun THEN Follow(j, "idx")
  ELSE IF j < Len(in) THEN in[j + 1].t = "head" ELSE clientAsks.sums >= 0

FollowsHead(j) ==
  /\ \A i \in 1 .. in[j].v : j + i <= Len(in) /\ in[j + i].t = "sum"
  /\ Follow(j + in[j].v, "idx")

FollowsSum(j) ==
  IF j < Len(in) THEN in[j + 1].t \in {"idx", "sum"} ELSE clientAsks.sums = -1

Whole ==
  \A j \in 1 .. Len(in) :
    /\ in[j].t = "idx"  => FollowsIndex(j)
    /\ in[j].t = "head" => FollowsHead(j)
    /\ in[j].t = "sum"  => FollowsSum(j)

(* What the first one is, as long as the sender reads on.                  *)
Reading == pc \notin {"head", "sums", "senderr", "ok", "failed"}

Expected ==
  /\ pc = "head" => IF in # <<>> THEN in[1].t = "head" ELSE clientAsks.sums >= 0
  /\ pc = "sums" => /\ need > 0 /\ need <= Len(in) /\ \A i \in 1 .. need : in[i].t = "sum"
                    /\ Follow(need, "idx")
  /\ Reading => IF in # <<>> THEN in[1].t = "idx" ELSE clientAsks.sums = -1 \/ client = "gone"

QueueInv ==
  /\ in \in Seq(Request) /\ Whole /\ Expected
  /\ clientAsks \in [n : Nat, sums : Nat \cup {-1}]
  /\ dryRun => clientAsks.sums = -1 /\ pc \notin {"head", "sums"}

(* Where a file is in hand, and where a request was read.                  *)
Placed ==
  /\ pc \in {"echo", "head", "sums", "open", "reply", "rhead", "data", "filesum"}
       => fileIndex \in File
  /\ requests = <<>> => pc \in {"idx", "senderr", "failed"}
  /\ requests \in Seq(File \cup {Done})

SenderInv == TypeOK /\ QueueInv /\ Placed

-----------------------------------------------------------------------------
(* The connection from the client.                                         *)

LEMMA RequestMade ==
  /\ \A i \in File \cup {Done} : Idx(i) \in Request /\ Idx(i).t = "idx" /\ Idx(i).v = i
  /\ \A n \in Nat : SumHead(n) \in Request /\ SumHead(n).t = "head" /\ SumHead(n).v = n
  /\ \A z \in BOOLEAN : BlockSum(z) \in Request /\ BlockSum(z).t = "sum" /\ BlockSum(z).v = z
BY DEF Request, Idx, SumHead, BlockSum

LEMMA RequestRead ==
  ASSUME NEW m \in Request
  PROVE  /\ m.t \in {"idx", "head", "sum"}
         /\ m.t = "idx" => m.v \in File \cup {Done}
         /\ m.t = "head" => m.v \in Nat
         /\ m.t = "sum" => m.v \in BOOLEAN
BY DEF Request

(* A file's index is not Done.                                             *)
LEMMA FileNumbers == \A i \in File : i \in Nat /\ i # Done
BY SenderAssumption DEF File, Done

LEMMA TailIs ==
  ASSUME NEW s \in Seq(Request), s # <<>>
  PROVE  /\ Head(s) = s[1] /\ Head(s) \in Request /\ Tail(s) \in Seq(Request)
         /\ Len(s) \in Nat /\ Len(Tail(s)) = Len(s) - 1 /\ Len(s) >= 1
         /\ \A j \in 1 .. Len(s) - 1 : Tail(s)[j] = s[j + 1]
         /\ Tail(s) = <<>> <=> Len(s) = 1
<1>1. /\ Head(s) = s[1] /\ Head(s) \in Request /\ Tail(s) \in Seq(Request)
      /\ Len(Tail(s)) = Len(s) - 1 /\ \A j \in 1 .. Len(Tail(s)) : Tail(s)[j] = s[j + 1]
  BY HeadTailProperties
<1>2. Len(s) \in Nat /\ Len(s) >= 1
  BY EmptySeq, LenProperties
<1>3. Tail(s) = <<>> <=> Len(Tail(s)) = 0
  BY <1>1, EmptySeq
<1> QED BY <1>1, <1>2, <1>3

(* Reading a message leaves the others as they were.                       *)
LEMMA TailFollows ==
  ASSUME in \in Seq(Request), in # <<>>, in' = Tail(in), UNCHANGED clientAsks,
         NEW k \in Nat, Follow(k + 1, "idx")
  PROVE  IF k < Len(in') THEN in'[k + 1].t = "idx" ELSE clientAsks'.sums = -1
<1>1. Len(in) \in Nat /\ Len(in') = Len(in) - 1 /\ \A i \in 1 .. Len(in) - 1 : in'[i] = in[i + 1]
  BY TailIs
<1>2. k < Len(in') => k + 1 \in 1 .. Len(in) - 1 /\ k + 1 < Len(in)
  BY <1>1
<1>3. ~(k < Len(in')) => ~(k + 1 < Len(in))
  BY <1>1
<1> QED BY <1>1, <1>2, <1>3 DEF Follow

LEMMA TailKeeps ==
  ASSUME in \in Seq(Request), Whole, in # <<>>, in' = Tail(in), UNCHANGED <<clientAsks, dryRun>>
  PROVE  Whole'
<1> SUFFICES ASSUME NEW j \in 1 .. Len(in')
             PROVE  /\ in'[j].t = "idx"  => FollowsIndex(j)'
                    /\ in'[j].t = "head" => FollowsHead(j)'
                    /\ in'[j].t = "sum"  => FollowsSum(j)'
  BY DEF Whole
<1>1. /\ Len(in) \in Nat /\ Len(in') = Len(in) - 1 /\ \A i \in 1 .. Len(in') : in'[i] = in[i + 1]
  BY TailIs
<1>2. j + 1 \in 1 .. Len(in) /\ in'[j] = in[j + 1] /\ in[j + 1] \in Request
  BY <1>1
<1>3. ASSUME NEW i \in Nat, i >= 1, NEW t
      PROVE  Follow(i + 1, t) => Follow(i, t)'
  BY <1>1, <1>3 DEF Follow
<1>4. in'[j].t = "idx" => FollowsIndex(j)'
  BY <1>1, <1>2, <1>3 DEF Whole, FollowsIndex
<1>5. in'[j].t = "sum" => FollowsSum(j)'
  BY <1>1, <1>2 DEF Whole, FollowsSum
<1>6. ASSUME in'[j].t = "head" PROVE FollowsHead(j)'
  <2>1. in[j + 1].v \in Nat /\ FollowsHead(j + 1)
    BY <1>2, <1>6, RequestRead DEF Whole
  <2>2. ASSUME NEW i \in 1 .. in[j + 1].v PROVE j + i <= Len(in') /\ in'[j + i].t = "sum"
    <3>1. (j + 1) + i <= Len(in) /\ in[(j + 1) + i].t = "sum"
      BY <2>1 DEF FollowsHead
    <3>2. j + i \in 1 .. Len(in') /\ (j + 1) + i = (j + i) + 1
      BY <1>1, <2>1, <3>1
    <3> QED BY <1>1, <3>1, <3>2
  <2>3. Follow((j + 1) + in[j + 1].v, "idx")
    BY <2>1 DEF FollowsHead
  <2>4. j + in[j + 1].v \in Nat /\ (j + 1) + in[j + 1].v = (j + in[j + 1].v) + 1
    <3>1. j \in Nat /\ in[j + 1].v \in Nat
      BY <1>1, <2>1
    <3>2. \A a, b \in Nat : a + b \in Nat /\ (a + 1) + b = (a + b) + 1
      OBVIOUS
    <3> QED BY <3>1, <3>2, Zenon
  <2>5. Follow((j + in[j + 1].v) + 1, "idx")
    BY <2>3, <2>4
  <2>6. IF j + in[j + 1].v < Len(in') THEN in'[(j + in[j + 1].v) + 1].t = "idx" ELSE clientAsks'.sums = -1
    BY <2>4, <2>5, TailFollows
  <2>7. \A i \in 1 .. in'[j].v : j + i <= Len(in') /\ in'[j + i].t = "sum"
    BY <1>2, <2>2
  <2>8. in'[j].v = in[j + 1].v
    BY <1>2
  <2> QED BY <2>6, <2>7, <2>8 DEF FollowsHead, Follow
<1> QED BY <1>4, <1>5, <1>6

(* What the client writes is what has to come next.                        *)
Grows ==
  /\ in' \in Seq(Request) /\ Len(in') > Len(in)
  /\ \A i \in 1 .. Len(in) : in'[i] = in[i]
  /\ in'[Len(in) + 1].t = IF clientAsks.sums = -1 THEN "idx" ELSE "head"

LEMMA GrowthFollows ==
  ASSUME in \in Seq(Request), Grows, clientAsks.sums \in Nat \cup {-1},
         NEW i \in 1 .. Len(in), Follow(i, "idx")
  PROVE  Follow(i, "idx")'
<1>1. CASE i < Len(in)
  <2>1. i + 1 \in 1 .. Len(in) /\ i < Len(in')
    BY <1>1 DEF Grows
  <2> QED BY <1>1, <2>1 DEF Grows, Follow
<1>2. CASE i = Len(in)
  <2>1. clientAsks.sums = -1 /\ i < Len(in')
    BY <1>2 DEF Follow, Grows
  <2> QED BY <1>2, <2>1 DEF Grows, Follow
<1> QED BY <1>1, <1>2

LEMMA GrowthKeeps ==
  ASSUME in \in Seq(Request), Whole, Grows, clientAsks.sums \in Nat \cup {-1}, UNCHANGED dryRun,
         NEW j \in 1 .. Len(in)
  PROVE  /\ in'[j].t = "idx"  => FollowsIndex(j)'
         /\ in'[j].t = "head" => FollowsHead(j)'
         /\ in'[j].t = "sum"  => FollowsSum(j)'
<1>1. in'[j] = in[j] /\ in[j] \in Request /\ j < Len(in') /\ Len(in) \in Nat /\ Len(in') \in Nat
  BY DEF Grows
<1>2. in[j].t = "idx" => FollowsIndex(j)'
  <2>1. ASSUME in[j].t = "idx", in[j].v = Done \/ dryRun PROVE Follow(j, "idx")'
    <3>1. Follow(j, "idx")
      BY <2>1 DEF Whole, FollowsIndex
    <3> QED BY <3>1, GrowthFollows
  <2>2. ASSUME in[j].t = "idx", ~(in[j].v = Done \/ dryRun) PROVE in'[j + 1].t = "head"
    <3>1. IF j < Len(in) THEN in[j + 1].t = "head" ELSE clientAsks.sums >= 0
      BY <2>2 DEF Whole, FollowsIndex
    <3>2. CASE j < Len(in)
      BY <1>1, <3>1, <3>2 DEF Grows
    <3>3. CASE j = Len(in)
      BY <1>1, <3>1, <3>3 DEF Grows
    <3> QED BY <1>1, <3>2, <3>3
  <2> QED BY <1>1, <2>1, <2>2 DEF FollowsIndex
<1>3. in[j].t = "sum" => FollowsSum(j)'
  <2>1. ASSUME in[j].t = "sum" PROVE in'[j + 1].t \in {"idx", "sum"}
    <3>1. IF j < Len(in) THEN in[j + 1].t \in {"idx", "sum"} ELSE clientAsks.sums = -1
      BY <2>1 DEF Whole, FollowsSum
    <3>2. CASE j < Len(in)
      BY <1>1, <3>1, <3>2 DEF Grows
    <3>3. CASE j = Len(in)
      BY <1>1, <3>1, <3>3 DEF Grows
    <3> QED BY <1>1, <3>2, <3>3
  <2> QED BY <1>1, <2>1 DEF FollowsSum
<1>4. ASSUME in[j].t = "head" PROVE FollowsHead(j)'
  <2>1. in[j].v \in Nat /\ FollowsHead(j)
    BY <1>1, <1>4, RequestRead DEF Whole
  <2>2. \A i \in 1 .. in[j].v : j + i <= Len(in) /\ in[j + i].t = "sum"
    BY <2>1 DEF FollowsHead
  <2>3. j + in[j].v \in 1 .. Len(in)
    <3>1. CASE in[j].v = 0
      BY <3>1
    <3>2. CASE in[j].v > 0
      <4>1. in[j].v \in 1 .. in[j].v
        BY <2>1, <3>2
      <4> QED BY <1>1, <2>1, <2>2, <4>1
    <3> QED BY <2>1, <3>1, <3>2
  <2>4. Follow(j + in[j].v, "idx")
    BY <2>1 DEF FollowsHead
  <2> PICK m \in 1 .. Len(in) : m = j + in[j].v
    BY <2>3
  <2>5. IF m < Len(in') THEN in'[m + 1].t = "idx" ELSE clientAsks'.sums = -1
    <3>1. Follow(m, "idx")
      BY <2>4
    <3>2. Follow(m, "idx")'
      BY <3>1, GrowthFollows
    <3> QED BY <3>2 DEF Follow
  <2>6. ASSUME NEW i \in 1 .. in[j].v PROVE j + i <= Len(in') /\ in'[j + i].t = "sum"
    <3>1. j + i \in 1 .. Len(in) /\ in[j + i].t = "sum"
      BY <2>1, <2>2
    <3> QED BY <1>1, <3>1 DEF Grows
  <2> QED BY <1>1, <2>5, <2>6 DEF FollowsHead, Follow
<1> QED BY <1>1, <1>2, <1>3, <1>4

(* The client writes an index when nothing is left to be written before it.*)
LEMMA IndexKeeps ==
  ASSUME in \in Seq(Request), Whole, clientAsks.sums = -1, UNCHANGED dryRun,
         NEW x \in File \cup {Done}, in' = Append(in, Idx(x)),
         IF x = Done \/ dryRun THEN clientAsks'.sums = -1 ELSE clientAsks'.sums >= 0
  PROVE  Grows /\ Whole'
<1>1. /\ in' \in Seq(Request) /\ Len(in) \in Nat /\ Len(in') = Len(in) + 1
      /\ \A i \in 1 .. Len(in) : in'[i] = in[i]
      /\ in'[Len(in')] = Idx(x) /\ Idx(x).t = "idx" /\ Idx(x).v = x
  BY RequestMade
<1>2. Grows
  BY <1>1 DEF Grows
<1> SUFFICES ASSUME NEW j \in 1 .. Len(in')
             PROVE  /\ in'[j].t = "idx"  => FollowsIndex(j)'
                    /\ in'[j].t = "head" => FollowsHead(j)'
                    /\ in'[j].t = "sum"  => FollowsSum(j)'
  BY <1>2 DEF Whole
<1>3. CASE j = Len(in')
  <2>1. in'[j].t = "idx" /\ in'[j].v = x /\ ~(j < Len(in'))
    BY <1>1, <1>3
  <2> QED BY <2>1 DEF FollowsIndex, Follow
<1>4. CASE j \in 1 .. Len(in)
  BY <1>2, <1>4, GrowthKeeps
<1> QED BY <1>1, <1>3, <1>4

(* It writes a head with all its sums behind the index they belong to.     *)
LEMMA SumsKeep ==
  ASSUME in \in Seq(Request), Whole, UNCHANGED dryRun, NEW n \in Nat, clientAsks.sums = n,
         NEW zero \in [1 .. n -> BOOLEAN], clientAsks'.sums = -1,
         in' = in \o <<SumHead(n)>> \o [j \in 1 .. n |-> BlockSum(zero[j])]
  PROVE  Grows /\ Whole'
<1> DEFINE L == Len(in)
           blocks == [j \in 1 .. n |-> BlockSum(zero[j])]
           front == in \o <<SumHead(n)>>
<1>1. /\ SumHead(n) \in Request /\ SumHead(n).t = "head" /\ SumHead(n).v = n
      /\ \A j \in 1 .. n : BlockSum(zero[j]) \in Request /\ BlockSum(zero[j]).t = "sum"
  BY RequestMade
<1>2. blocks \in Seq(Request) /\ Len(blocks) = n /\ \A i \in 1 .. n : blocks[i].t = "sum"
  BY <1>1
<1>3. /\ front \in Seq(Request) /\ L \in Nat /\ Len(front) = L + 1
      /\ \A i \in 1 .. L : front[i] = in[i]
      /\ front[L + 1] = SumHead(n)
  BY <1>1
<1> HIDE DEF blocks, front
<1>4. /\ in' \in Seq(Request) /\ Len(in') = (L + 1) + n
      /\ \A i \in 1 .. (L + 1) + n : in'[i] = IF i <= L + 1 THEN front[i] ELSE blocks[i - (L + 1)]
  <2>1. in' = front \o blocks
    BY DEF front, blocks
  <2>2. /\ front \o blocks \in Seq(Request) /\ Len(front \o blocks) = Len(front) + Len(blocks)
        /\ \A i \in 1 .. Len(front) + Len(blocks) :
             (front \o blocks)[i] = IF i <= Len(front) THEN front[i] ELSE blocks[i - Len(front)]
    BY <1>2, <1>3, ConcatProperties
  <2> QED BY <1>2, <1>3, <2>1, <2>2
<1>5. /\ \A i \in 1 .. L : in'[i] = in[i]
      /\ in'[L + 1].t = "head" /\ in'[L + 1].v = n
      /\ \A i \in 1 .. n : in'[(L + 1) + i].t = "sum"
  <2>1. \A i \in 1 .. L : in'[i] = in[i]
    BY <1>3, <1>4
  <2>2. in'[L + 1] = SumHead(n)
    BY <1>3, <1>4
  <2>3. ASSUME NEW i \in 1 .. n PROVE in'[(L + 1) + i].t = "sum"
    <3>1. /\ (L + 1) + i \in 1 .. (L + 1) + n /\ ~((L + 1) + i <= L + 1)
          /\ ((L + 1) + i) - (L + 1) = i
      BY <1>3
    <3>2. in'[(L + 1) + i] = blocks[i]
      BY <1>4, <3>1
    <3> QED BY <1>2, <3>2
  <2> QED BY <1>1, <2>1, <2>2, <2>3
<1>6. Grows
  BY <1>3, <1>4, <1>5 DEF Grows
<1> SUFFICES ASSUME NEW j \in 1 .. Len(in')
             PROVE  /\ in'[j].t = "idx"  => FollowsIndex(j)'
                    /\ in'[j].t = "head" => FollowsHead(j)'
                    /\ in'[j].t = "sum"  => FollowsSum(j)'
  BY <1>6 DEF Whole
<1>7. CASE j \in 1 .. L
  BY <1>6, <1>7, GrowthKeeps
<1>8. CASE j = L + 1
  <2>1. \A i \in 1 .. n : j + i <= Len(in') /\ in'[j + i].t = "sum"
    <3>1. \A i \in 1 .. n : (L + 1) + i <= Len(in')
      BY <1>3, <1>4
    <3> QED BY <1>5, <1>8, <3>1
  <2>2. ~(j + n < Len(in'))
    BY <1>3, <1>4, <1>8
  <2> QED BY <1>5, <1>8, <2>1, <2>2 DEF FollowsHead, Follow
<1>9. ASSUME NEW i \in 1 .. n, j = (L + 1) + i
      PROVE  in'[j].t = "sum" /\ FollowsSum(j)'
  <2>1. in'[j].t = "sum"
    BY <1>5, <1>9
  <2>2. CASE i < n
    <3>1. i + 1 \in 1 .. n /\ j + 1 = (L + 1) + (i + 1)
      BY <1>3, <1>9, <2>2
    <3>2. in'[j + 1].t = "sum"
      BY <1>5, <3>1
    <3>3. j < Len(in')
      BY <1>3, <1>4, <1>9, <2>2
    <3> QED BY <2>1, <3>2, <3>3 DEF FollowsSum
  <2>3. CASE i = n
    BY <1>3, <1>4, <1>9, <2>1, <2>3 DEF FollowsSum
  <2> QED BY <2>2, <2>3
<1>10. j \in 1 .. L \/ j = L + 1 \/ \E i \in 1 .. n : j = (L + 1) + i
  <2>1. CASE j > L + 1
    <3>1. j - (L + 1) \in 1 .. n /\ j = (L + 1) + (j - (L + 1))
      BY <1>3, <1>4, <2>1
    <3> QED BY <3>1
  <2> QED BY <1>3, <1>4, <2>1
<1> QED BY <1>7, <1>8, <1>9, <1>10

-----------------------------------------------------------------------------
(* The steps, each for one part of the invariant.                          *)

LEMMA InitInv == Init => SenderInv
<1> SUFFICES ASSUME Init PROVE SenderInv
  OBVIOUS
<1>1. TypeOK
  BY SenderAssumption DEF Init, TypeOK, Content
<1>2. QueueInv
  BY DEF Init, QueueInv, Whole, Expected, Reading
<1>3. Placed
  BY DEF Init, Placed
<1> QED BY <1>1, <1>2, <1>3 DEF SenderInv

LEMMA PlacedStep == SenderInv /\ Next => Placed'
<1> SUFFICES ASSUME SenderInv, Next PROVE Placed'
  OBVIOUS
<1> USE DEF SenderInv, Placed
<1>1. CASE ReadIndex
  <2>1. Head(in) \in Request /\ Head(in).t = "idx"
    BY <1>1, TailIs DEF ReadIndex, ReadOK, QueueInv
  <2>2. Head(in).v \in File \cup {Done}
    BY <2>1, RequestRead
  <2>3. requests' = Append(requests, Head(in).v) /\ fileIndex' = Head(in).v
    BY <1>1 DEF ReadIndex
  <2>4. requests' \in Seq(File \cup {Done}) /\ requests' # <<>>
    BY <2>2, <2>3
  <2>5. pc' \in {"ack", "final"} \/ (pc' \in {"echo", "head"} /\ Head(in).v # Done)
    <3>1. CASE Head(in).v = Done
      <4>1. phase = 0 \/ phase = 1
        BY DEF TypeOK
      <4>2. CASE phase = 0
        BY <1>1, <3>1, <4>2 DEF ReadIndex
      <4>3. CASE phase = 1
        BY <1>1, <3>1, <4>3 DEF ReadIndex
      <4> QED BY <4>1, <4>2, <4>3
    <3>2. CASE Head(in).v # Done
      BY <1>1, <3>2 DEF ReadIndex
    <3> QED BY <3>1, <3>2
  <2> QED BY <2>2, <2>3, <2>4, <2>5
<1>2. CASE Acknowledge \/ EchoIndex \/ Reply \/ SendEnd \/ SendSum \/ Finish
  BY <1>2 DEF Acknowledge, EchoIndex, Reply, SendEnd, SendSum, Finish, Writes, sendVars,
              histVars
<1>3. CASE ReadHead \/ ReadSum \/ ReadFails \/ ReadBye \/ SendError
  BY <1>3 DEF ReadHead, ReadSum, ReadFails, ReadBye, SendError, sendVars, histVars
<1>4. CASE Open \/ OpenRoot \/ ReadBlockFails
  BY <1>4 DEF Open, OpenRoot, ReadBlockFails, Continue, sendVars
<1>5. CASE ReplyHead \/ SendBlock \/ SearchRoot \/ SearchPanics
  BY <1>5 DEF ReplyHead, SendBlock, SearchRoot, SearchPanics, Writes, sendVars, histVars
<1>6. CASE Client \/ ClientLeaves \/ Edit
  BY <1>6 DEF Client, ClientAsk, ClientSums, ClientDone, ClientLeaves, Edit, sendVars, histVars
<1> QED BY <1>1, <1>2, <1>3, <1>4, <1>5, <1>6 DEF Next, Do

LEMMA TypeStep == SenderInv /\ Next => TypeOK'
<1> SUFFICES ASSUME SenderInv, Next PROVE TypeOK'
  OBVIOUS
<1>0. TypeOK /\ Placed
  BY DEF SenderInv
<1>1. CASE ReadIndex
  <2>1. Head(in) \in Request /\ Head(in).t = "idx"
    BY <1>1, TailIs DEF ReadIndex, ReadOK, SenderInv, QueueInv
  <2>2. Head(in).v \in File \cup {Done}
    BY <2>1, RequestRead
  <2>3. Len(requests) \in Nat /\ Len(requests') = Len(requests) + 1
    BY <1>0, <1>1, <2>2 DEF ReadIndex, Placed
  <2>4. 1 .. Len(requests) \subseteq 1 .. Len(requests')
    BY <2>3
  <2>5. pc' \in {"ack", "final", "echo", "head"} /\ phase' \in {0, 1} /\ fileIndex' \in File \cup {Done}
    BY <1>0, <1>1, <2>2 DEF ReadIndex, TypeOK
  <2> QED BY <1>0, <1>1, <2>4, <2>5 DEF ReadIndex, TypeOK, clientVars, fileVars
<1>2. CASE Acknowledge \/ EchoIndex \/ Reply \/ SendEnd \/ SendSum \/ Finish
  BY <1>0, <1>2 DEF TypeOK, Acknowledge, EchoIndex, Reply, SendEnd, SendSum, Finish, Writes,
                    sendVars, clientVars, fileVars, histVars
<1>3. CASE ReadHead
  <2>1. Head(in) \in Request /\ Head(in).t = "head"
    BY <1>3, TailIs DEF ReadHead, ReadOK, SenderInv, QueueInv
  <2>2. Head(in).v \in Nat
    BY <2>1, RequestRead
  <2>3. pc' \in {"open", "sums"} /\ need' \in 0 .. sums' /\ sums' \in Nat /\ zeros' = {}
    BY <1>3, <2>2 DEF ReadHead
  <2> QED BY <1>0, <1>3, <2>3 DEF ReadHead, TypeOK, clientVars, fileVars, histVars
<1>4. CASE ReadSum
  <2>1. need > 0 /\ need \in 0 .. sums /\ sums \in Nat
    BY <1>0, <1>4 DEF ReadSum, SenderInv, QueueInv, Expected, TypeOK
  <2>2. pc' \in {"open", "sums"} /\ need' \in 0 .. sums' /\ sums' \in Nat
    BY <1>4, <2>1 DEF ReadSum
  <2>3. zeros' \subseteq 0 .. sums' - 1
    <3>1. sums - need \in 0 .. sums - 1 /\ zeros \subseteq 0 .. sums - 1
      BY <1>0, <2>1 DEF TypeOK
    <3> QED BY <1>4, <3>1 DEF ReadSum, Zeros
  <2> QED BY <1>0, <1>4, <2>2, <2>3 DEF ReadSum, TypeOK, clientVars, fileVars, histVars
<1>5. CASE ReadFails \/ ReadBye \/ SendError
  BY <1>0, <1>5 DEF TypeOK, ReadFails, ReadBye, SendError, sendVars, clientVars, fileVars, histVars
<1>6. CASE Open \/ OpenRoot \/ ReadBlockFails
  <2>r. ASSUME NEW n \in RootSizes, snap' = [i \in 1 .. n |-> Zero] PROVE snap' \in Content
    <3>1. n \in Nat /\ Zero \in Chunk
      BY SenderAssumption
    <3> QED BY <2>r, <3>1 DEF Content
  <2>1. CASE UNCHANGED <<skipped, torn>>
    <3>1. torn' \subseteq skipped' /\ skipped' \subseteq 1 .. Len(requests')
      BY <1>0, <1>6, <2>1 DEF Open, OpenRoot, ReadBlockFails, TypeOK
    <3>2. pc = "open" => fileIndex \in File /\ fileIndex # Done
      BY <1>0, FileNumbers DEF Placed
    <3>3. fileIndex \in File /\ files[fileIndex] # NoFile => files[fileIndex] \in Content
      BY <1>0 DEF TypeOK
    <3>4. CASE OpenRoot
      <4>1. snap' \in Content /\ pc' \in {"reply", "idx"}
        BY <1>0, <2>r, <3>4 DEF OpenRoot, Continue, TypeOK
      <4> QED BY <1>0, <3>1, <3>2, <3>4, <4>1 DEF OpenRoot, Continue, TypeOK, clientVars, fileVars
    <3> QED BY <1>0, <1>6, <2>1, <3>1, <3>2, <3>3, <3>4
            DEF Open, ReadBlockFails, Continue, TypeOK, sendVars, clientVars, fileVars
  <2>2. CASE Continue
    <3>1. requests # <<>>
      BY <1>0, <1>6 DEF Open, OpenRoot, ReadBlockFails, Placed
    <3>2. Len(requests) \in 1 .. Len(requests) /\ requests' = requests
      BY <1>0, <1>6, <3>1 DEF Open, OpenRoot, ReadBlockFails, Placed, histVars
    <3>3. torn' \subseteq skipped' /\ skipped' \subseteq 1 .. Len(requests') /\ pc' = "idx"
      BY <1>0, <2>2, <3>2 DEF Continue, TypeOK
    <3>4. pc = "open" => fileIndex \in File
      BY <1>0 DEF Placed
    <3>5. snap' \in Content
      BY <1>0, <1>6, <2>2, <3>3, <3>4 DEF Open, OpenRoot, ReadBlockFails, TypeOK, sendVars
    <3> QED BY <1>0, <1>6, <3>3, <3>5
            DEF Open, OpenRoot, ReadBlockFails, TypeOK, sendVars, clientVars, fileVars
  <2> QED BY <1>6, <2>1, <2>2 DEF Open, OpenRoot, ReadBlockFails
<1>7. CASE ReplyHead
  <2>1. h' \in Content /\ pos' \in 1 .. Len(h') + 2
    BY <1>7 DEF ReplyHead, Content
  <2> QED BY <1>0, <1>7, <2>1 DEF ReplyHead, Writes, TypeOK, clientVars, fileVars, histVars
<1>8. CASE SendBlock
  <2>1. \E c \in Content : pos <= Len(c) /\ h' = Append(h, c[pos])
    <3>1. fileIndex \in File
      BY <1>0, <1>8 DEF SendBlock, Placed
    <3>2. Readable \subseteq Content
      BY <1>0, <3>1 DEF Readable, TypeOK
    <3> QED BY <1>8, <3>2 DEF SendBlock
  <2>2. h' \in Content /\ pos' \in 1 .. Len(h') + 2
    BY <1>0, <1>8, <2>1 DEF SendBlock, TypeOK, Content
  <2>3. pc = "data" /\ pc' \in {"data", "senderr"}
    BY <1>8 DEF SendBlock, Writes
  <2> QED BY <1>0, <1>8, <2>2, <2>3 DEF SendBlock, TypeOK, clientVars, fileVars, histVars
<1>11. CASE SearchRoot
  <2>1. h' \in Content /\ pos' \in 1 .. Len(h') + 2
    BY <1>0, <1>11, SenderAssumption DEF SearchRoot, TypeOK, Content
  <2>2. pc = "data" /\ pc' \in {"data", "senderr"}
    BY <1>11 DEF SearchRoot, Writes
  <2> QED BY <1>0, <1>11, <2>1, <2>2 DEF SearchRoot, TypeOK, clientVars, fileVars, histVars
<1>12. CASE SearchPanics
  BY <1>0, <1>12 DEF SearchPanics, TypeOK, sendVars, clientVars, fileVars, histVars
<1>9. CASE Client \/ ClientLeaves
  BY <1>0, <1>9 DEF TypeOK, Client, ClientAsk, ClientSums, ClientDone, ClientLeaves, sendVars, fileVars,
                    histVars
<1>10. CASE Edit
  <2>1. files' \in [File -> Content \cup {NoFile}]
    BY <1>0, <1>10, SenderAssumption DEF Edit, TypeOK
  <2> QED BY <1>0, <1>10, <2>1 DEF Edit, TypeOK, sendVars, clientVars, histVars
<1> QED BY <1>1, <1>2, <1>3, <1>4, <1>5, <1>6, <1>7, <1>8, <1>9, <1>10, <1>11, <1>12 DEF Next, Do

-----------------------------------------------------------------------------
(* What is on its way from the client, step by step.                       *)

(* Where the sender decodes nothing, nothing about it changes.             *)
LEMMA QueueStays ==
  ASSUME QueueInv, UNCHANGED <<in, clientAsks, client, dryRun, need>>,
         pc \notin {"head", "sums"} /\ pc' \notin {"head", "sums"},
         Reading' => Reading
  PROVE  QueueInv'
BY DEF QueueInv, Whole, Expected, Follow, FollowsIndex, FollowsHead, FollowsSum

LEMMA QueueGrows ==
  ASSUME QueueInv, Grows, UNCHANGED <<pc, need>>, need \in Nat, client # "gone"
  PROVE  Expected'
<1>1. Len(in) \in Nat /\ Len(in') \in Nat /\ Len(in') > 0 /\ in' # <<>>
      /\ (in = <<>> <=> Len(in) = 0) /\ clientAsks.sums \in Nat \cup {-1}
  BY EmptySeq DEF Grows, QueueInv
<1>2. pc = "head" => in'[1].t = "head"
  <2>1. CASE in = <<>>
    BY <1>1, <2>1 DEF QueueInv, Expected, Grows
  <2>2. CASE in # <<>>
    BY <1>1, <2>2 DEF QueueInv, Expected, Grows
  <2> QED BY <2>1, <2>2
<1>3. Reading => in'[1].t = "idx"
  <2>1. CASE in = <<>>
    BY <1>1, <2>1 DEF QueueInv, Expected, Grows
  <2>2. CASE in # <<>>
    BY <1>1, <2>2 DEF QueueInv, Expected, Grows
  <2> QED BY <2>1, <2>2
<1>4. ASSUME pc = "sums"
      PROVE  /\ need > 0 /\ need <= Len(in') /\ \A i \in 1 .. need : in'[i].t = "sum"
             /\ Follow(need, "idx")'
  <2>1. need > 0 /\ need <= Len(in) /\ Follow(need, "idx") /\ \A i \in 1 .. need : in[i].t = "sum"
    BY <1>4 DEF QueueInv, Expected
  <2>2. \A i \in 1 .. need : in'[i].t = "sum"
    BY <1>1, <2>1 DEF Grows
  <2>3. need \in 1 .. Len(in)
    BY <1>1, <2>1
  <2>4. Follow(need, "idx")'
    <3>1. CASE need < Len(in)
      <4>1. need + 1 \in 1 .. Len(in) /\ in[need + 1].t = "idx"
        BY <1>1, <2>1, <3>1 DEF Follow
      <4> QED BY <1>1, <3>1, <4>1 DEF Grows, Follow
    <3>2. CASE need = Len(in)
      BY <1>1, <2>1, <3>2 DEF Grows, Follow
    <3> QED BY <1>1, <2>3, <3>1, <3>2
  <2> QED BY <1>1, <2>1, <2>2, <2>4 DEF Grows
<1> QED BY <1>1, <1>2, <1>3, <1>4 DEF Expected, Reading, Follow

LEMMA ClientKeeps == SenderInv /\ Client => QueueInv'
<1> SUFFICES ASSUME SenderInv, Client PROVE QueueInv'
  OBVIOUS
<1>1. QueueInv /\ need \in Nat /\ client # "gone" /\ UNCHANGED <<pc, need, dryRun>>
  BY DEF SenderInv, TypeOK, Client, ClientAsk, ClientSums, ClientDone, sendVars
<1>2. CASE ClientAsk
  <2>1. PICK i \in File, n \in {0, 2} :
          /\ in' = Append(in, Idx(i))
          /\ clientAsks' = [n |-> clientAsks.n + 1, sums |-> IF dryRun THEN -1 ELSE n]
    BY <1>2 DEF ClientAsk, ClientWrite
  <2>2. clientAsks.sums = -1 /\ (IF i = Done \/ dryRun THEN clientAsks'.sums = -1 ELSE clientAsks'.sums >= 0)
    BY <1>2, <2>1, FileNumbers DEF ClientAsk
  <2>3. Grows /\ Whole'
    BY <1>1, <2>1, <2>2, IndexKeeps DEF QueueInv
  <2>4. clientAsks' \in [n : Nat, sums : Nat \cup {-1}] /\ (dryRun => clientAsks'.sums = -1)
    BY <1>1, <2>1 DEF QueueInv
  <2> QED BY <1>1, <2>3, <2>4, QueueGrows DEF QueueInv, Grows
<1>3. CASE ClientSums
  <2>1. clientAsks.sums \in Nat /\ clientAsks' = [clientAsks EXCEPT !.sums = -1]
    BY <1>1, <1>3 DEF ClientSums, QueueInv
  <2>2. clientAsks' \in [n : Nat, sums : Nat \cup {-1}] /\ clientAsks'.sums = -1
    BY <1>1, <2>1 DEF QueueInv
  <2>3. Grows /\ Whole'
    <3> PICK zero \in [1 .. clientAsks.sums -> BOOLEAN] :
               in' = in \o <<SumHead(clientAsks.sums)>>
                        \o [j \in 1 .. clientAsks.sums |-> BlockSum(zero[j])]
      BY <1>3 DEF ClientSums
    <3> QED BY <1>1, <2>1, <2>2, SumsKeep DEF QueueInv
  <2> QED BY <1>1, <2>2, <2>3, QueueGrows DEF QueueInv, Grows
<1>4. CASE ClientDone
  <2>1. in' = Append(in, Idx(Done)) /\ clientAsks.sums = -1 /\ clientAsks' = clientAsks
    BY <1>4 DEF ClientDone, ClientWrite
  <2>2. Grows /\ Whole'
    BY <1>1, <2>1, IndexKeeps DEF QueueInv
  <2> QED BY <1>1, <2>1, <2>2, QueueGrows DEF QueueInv, Grows
<1> QED BY <1>2, <1>3, <1>4 DEF Client

LEMMA ReaderKeeps ==
  SenderInv /\ (ReadIndex \/ ReadHead \/ ReadSum \/ ReadBye) => QueueInv'
<1> SUFFICES ASSUME SenderInv, ReadIndex \/ ReadHead \/ ReadSum \/ ReadBye PROVE QueueInv'
  OBVIOUS
<1>1. QueueInv /\ TypeOK /\ in # <<>> /\ in' = Tail(in) /\ UNCHANGED <<clientAsks, client, dryRun>>
  BY DEF SenderInv, ReadIndex, ReadHead, ReadSum, ReadBye, ReadOK, clientVars
<1>2. Whole'
  BY <1>1, TailKeeps DEF QueueInv
<1>3. /\ Head(in) = in[1] /\ in[1] \in Request /\ in' \in Seq(Request)
      /\ Len(in) \in Nat /\ Len(in) >= 1 /\ Len(in') = Len(in) - 1
      /\ \A j \in 1 .. Len(in) - 1 : in'[j] = in[j + 1]
      /\ in' = <<>> <=> Len(in) = 1
  BY <1>1, TailIs DEF QueueInv
<1>4. 1 \in 1 .. Len(in) /\ (in' # <<>> => in'[1] = in[2] /\ 1 < Len(in))
  BY <1>3
<1>5. QueueInv' <=> Expected' /\ (dryRun => pc' \notin {"head", "sums"})
  BY <1>1, <1>2, <1>3 DEF QueueInv
<1>6. ASSUME Follow(1, "idx") PROVE IF in' # <<>> THEN in'[1].t = "idx" ELSE clientAsks'.sums = -1
  BY <1>1, <1>3, <1>4, <1>6 DEF Follow
<1>7. CASE ReadIndex
  <2>1. in[1].t = "idx" /\ FollowsIndex(1) /\ in[1].v \in File \cup {Done}
    BY <1>1, <1>3, <1>4, <1>7, RequestRead DEF ReadIndex, ReadOK, QueueInv, Whole
  <2>2. CASE in[1].v = Done \/ dryRun
    <3>1. pc' \in {"ack", "final", "echo"}
      <4>1. CASE in[1].v = Done
        BY <1>1, <1>3, <1>7, <4>1 DEF ReadIndex, TypeOK
      <4>2. CASE in[1].v # Done
        BY <1>3, <1>7, <2>2, <4>2 DEF ReadIndex
      <4> QED BY <4>1, <4>2
    <3>2. Follow(1, "idx")
      BY <2>1, <2>2 DEF FollowsIndex
    <3> QED BY <1>5, <1>6, <3>1, <3>2 DEF Expected, Reading
  <2>3. CASE ~(in[1].v = Done \/ dryRun)
    <3>1. pc' = "head"
      BY <1>3, <1>7, <2>3 DEF ReadIndex
    <3>2. IF in' # <<>> THEN in'[1].t = "head" ELSE clientAsks'.sums >= 0
      BY <1>1, <1>3, <1>4, <2>1, <2>3 DEF FollowsIndex
    <3> QED BY <1>1, <1>5, <2>3, <3>1, <3>2 DEF Expected, Reading
  <2> QED BY <2>2, <2>3
<1>8. CASE ReadHead
  <2>1. in[1].t = "head" /\ FollowsHead(1) /\ in[1].v \in Nat /\ need' = in[1].v /\ ~dryRun
    BY <1>1, <1>3, <1>4, <1>8, RequestRead DEF ReadHead, ReadOK, QueueInv, Whole
  <2>2. CASE in[1].v = 0
    <3>1. pc' = "open" /\ Follow(1, "idx")
      BY <1>3, <1>8, <2>1, <2>2 DEF ReadHead, FollowsHead
    <3> QED BY <1>5, <1>6, <3>1 DEF Expected, Reading
  <2>3. CASE in[1].v # 0
    <3>1. pc' = "sums" /\ need' > 0
      BY <1>3, <1>8, <2>1, <2>3 DEF ReadHead
    <3>2. ASSUME NEW i \in 1 .. need' PROVE i <= Len(in') /\ in'[i].t = "sum"
      <4>1. 1 + i <= Len(in) /\ in[1 + i].t = "sum"
        BY <2>1 DEF FollowsHead
      <4> QED BY <1>3, <2>1, <4>1
    <3>3. need' \in 1 .. need' /\ need' <= Len(in')
      BY <2>1, <3>1, <3>2
    <3>4. Follow(1 + in[1].v, "idx")
      BY <2>1 DEF FollowsHead
    <3>5. IF need' < Len(in') THEN in'[need' + 1].t = "idx" ELSE clientAsks'.sums = -1
      <4>1. in[1].v \in Nat /\ Follow(in[1].v + 1, "idx")
        BY <2>1, <3>4
      <4>2. IF in[1].v < Len(in') THEN in'[in[1].v + 1].t = "idx" ELSE clientAsks'.sums = -1
        BY <1>1, <4>1, TailFollows DEF QueueInv
      <4> QED BY <2>1, <4>2
    <3>6. Expected'
      BY <3>1, <3>2, <3>3, <3>5 DEF Expected, Reading, Follow
    <3> QED BY <1>5, <2>1, <1>1, <3>6
  <2> QED BY <2>2, <2>3
<1>9. CASE ReadSum
  <2>1. /\ need \in Nat /\ need > 0 /\ need <= Len(in) /\ need' = need - 1 /\ ~dryRun
        /\ Follow(need, "idx") /\ \A i \in 1 .. need : in[i].t = "sum"
    BY <1>1, <1>9 DEF ReadSum, QueueInv, Expected, TypeOK
  <2>2. CASE need = 1
    <3>1. pc' = "open"
      BY <1>9, <2>2 DEF ReadSum
    <3> QED BY <1>5, <1>6, <2>1, <2>2, <3>1 DEF Expected, Reading
  <2>3. CASE need # 1
    <3>1. pc' = "sums" /\ need' > 0 /\ need' <= Len(in')
      BY <1>3, <1>9, <2>1, <2>3 DEF ReadSum
    <3>2. ASSUME NEW i \in 1 .. need' PROVE in'[i].t = "sum"
      BY <1>3, <2>1
    <3>3. IF need' < Len(in') THEN in'[need' + 1].t = "idx" ELSE clientAsks'.sums = -1
      BY <1>1, <1>3, <2>1, <3>1 DEF Follow
    <3> QED BY <1>5, <2>1, <3>1, <3>2, <3>3 DEF Expected, Reading, Follow
  <2> QED BY <2>2, <2>3
<1>10. CASE ReadBye
  <2>1. pc' \in {"ok", "senderr"}
    BY <1>10 DEF ReadBye
  <2> QED BY <1>5, <2>1 DEF Expected, Reading
<1> QED BY <1>7, <1>8, <1>9, <1>10

LEMMA QueueStep == SenderInv /\ Next => QueueInv'
<1> SUFFICES ASSUME SenderInv, Next PROVE QueueInv'
  OBVIOUS
<1>1. CASE ReadIndex \/ ReadHead \/ ReadSum \/ ReadBye
  BY <1>1, ReaderKeeps
<1>2. CASE Client
  BY <1>2, ClientKeeps
<1>3. CASE Acknowledge \/ EchoIndex \/ Reply \/ SendEnd \/ SendSum \/ Finish \/ SendError
  <2>1. /\ UNCHANGED <<in, clientAsks, client, dryRun, need>>
        /\ pc \notin {"head", "sums"} /\ pc' \notin {"head", "sums"}
        /\ Reading' => Reading
    BY <1>3 DEF Acknowledge, EchoIndex, Reply, SendEnd, SendSum, Finish, SendError, Writes,
                Reading, sendVars, clientVars
  <2> QED BY <2>1, QueueStays DEF SenderInv
<1>4. CASE Open \/ OpenRoot \/ ReadBlockFails \/ ReplyHead \/ SendBlock \/ SearchRoot \/ SearchPanics \/ Edit
  <2>1. CASE Edit
    BY <2>1 DEF Edit, sendVars, clientVars, SenderInv, QueueInv, Whole, Expected, Reading, Follow,
                FollowsIndex, FollowsHead, FollowsSum
  <2>2. CASE ~Edit
    <3>1. /\ UNCHANGED <<in, clientAsks, client, dryRun, need>>
          /\ pc \notin {"head", "sums"} /\ pc' \notin {"head", "sums"}
          /\ Reading' => Reading
      BY <1>4, <2>2 DEF Open, OpenRoot, ReadBlockFails, ReplyHead, SendBlock, SearchRoot, SearchPanics,
                        Continue, Writes, Reading, sendVars, clientVars
    <3> QED BY <3>1, QueueStays DEF SenderInv
  <2> QED BY <2>1, <2>2
<1>5. CASE ReadFails
  <2>1. /\ in = <<>> /\ in' = in /\ pc' = "senderr" /\ UNCHANGED <<clientAsks, dryRun>>
    BY <1>5 DEF ReadFails, ReadErr, clientVars
  <2> QED BY <2>1 DEF SenderInv, QueueInv, Whole, Expected, Reading, Follow
<1>6. CASE ClientLeaves
  <2>1. UNCHANGED <<in, pc, need, clientAsks, dryRun>> /\ client' = "gone"
    BY <1>6 DEF ClientLeaves, sendVars
  <2> QED BY <2>1 DEF SenderInv, QueueInv, Whole, Expected, Reading, Follow, FollowsIndex, FollowsHead,
                      FollowsSum
<1> QED BY <1>1, <1>2, <1>3, <1>4, <1>5, <1>6 DEF Next, Do

LEMMA InvStep == SenderInv /\ [Next]_vars => SenderInv'
<1>1. CASE Next
  BY <1>1, TypeStep, QueueStep, PlacedStep DEF SenderInv
<1>2. CASE UNCHANGED vars
  BY <1>2 DEF vars, sendVars, clientVars, fileVars, histVars, SenderInv, TypeOK, QueueInv, Placed, Whole,
              Expected, Reading, Follow, FollowsIndex, FollowsHead, FollowsSum
<1> QED BY <1>1, <1>2

LEMMA SenderInvariant == Spec => []SenderInv
BY InitInv, InvStep, PTL DEF Spec

-----------------------------------------------------------------------------
(* Every variable stays in its range: receiveSums never counts below zero, *)
(* and sendFile never answers for the end of a phase.                      *)
THEOREM TypeCorrect == Spec => []TypeOK
BY SenderInvariant, PTL DEF SenderInv

(* SendFiles and receiveSums (sender.go:25, sender.go:125) find in the     *)
(* connection what they decode next, whatever was skipped or failed before.*)
THEOREM RequestsAreDecoded == Spec => []RequestsDecode
<1>1. SenderInv => RequestsDecode
  <2> SUFFICES ASSUME SenderInv, in # <<>>
               PROVE  /\ pc \in {"idx", "bye"} => Head(in).t = "idx"
                      /\ pc = "head" => Head(in).t = "head"
                      /\ pc = "sums" => Head(in).t = "sum"
    BY DEF RequestsDecode
  <2>1. Head(in) = in[1]
    BY TailIs DEF SenderInv, QueueInv
  <2>2. pc = "sums" => 1 \in 1 .. need
    BY DEF SenderInv, QueueInv, Expected, TypeOK
  <2> QED BY <2>1, <2>2 DEF SenderInv, QueueInv, Expected, Reading
<1> QED BY <1>1, SenderInvariant, PTL

-----------------------------------------------------------------------------
(* The answers.  What is written is followed as the other side decodes it: *)
(* the state it is in, the indices it has seen, the data since the last of *)
(* them.  Each of these is a recursion over all that is written, so it is  *)
(* proved first that a recursion has a solution and how it goes on with    *)
(* one message more.                                                       *)

(* What the sender writes.                                                 *)
Answer ==
  [t : {"idx"}, v : File \cup {Done}] \cup [t : {"head"}, v : Nat] \cup [t : {"data"}, v : Chunk]
    \cup [t : {"ref"}, v : Nat]
    \cup [t : {"end", "stats", "error"}, v : {0}] \cup [t : {"filesum"}, v : Content]

(* Its messages are answers.                                               *)
LEMMA AnswerMade ==
  /\ \A i \in File \cup {Done} : Idx(i) \in Answer /\ Idx(i).t = "idx" /\ Idx(i).v = i
  /\ \A n \in Nat : SumHead(n) \in Answer /\ SumHead(n).t = "head"
  /\ \A c \in Chunk : Data(c) \in Answer /\ Data(c).t = "data" /\ Data(c).v = c
  /\ \A i \in Nat : Ref(i) \in Answer /\ Ref(i).t = "ref"
  /\ \A c \in Content : FileSum(c) \in Answer /\ FileSum(c).t = "filesum" /\ FileSum(c).v = c
  /\ EndToken \in Answer /\ EndToken.t = "end"
  /\ Stats \in Answer /\ Stats.t = "stats"
  /\ ErrorMsg \in Answer /\ ErrorMsg.t = "error"
BY DEF Answer, Idx, SumHead, Data, Ref, FileSum, EndToken, Stats, ErrorMsg

(* A message more.                                                         *)
LEMMA Longer ==
  ASSUME NEW S, NEW w \in Seq(S), NEW m \in S
  PROVE  /\ Append(w, m) \in Seq(S) /\ Len(w) \in Nat /\ Len(Append(w, m)) = Len(w) + 1
         /\ Append(w, m)[Len(w) + 1] = m
         /\ \A i \in 1 .. Len(w) : Append(w, m)[i] = w[i]
BY AppendProperties, LenProperties

(* How Decoded goes on.                                                    *)
States ==
  {"idx", "idx1", "head", "head1", "token", "token1", "sum", "sum1", "stats", "bye", "error", "lost"}

LEMMA DecodedIs ==
  ASSUME NEW dry, NEW w, Len(w) \in Nat
  PROVE  \E d : /\ d[0] = "idx" /\ Decoded(dry, w) = d[Len(w)]
                /\ \A i \in 1 .. Len(w) : d[i] = Decode(dry, d[i - 1], w[i])
<1> DEFINE n == Len(w)
           Is(d) == d = [i \in 0 .. n |-> IF i = 0 THEN "idx" ELSE Decode(dry, d[i - 1], w[i])]
           T == [i \in 1 .. n |-> [s \in States |-> Decode(dry, s, w[i])]]
<1>1. \A s, m : Decode(dry, s, m) \in States
  BY DEF Decode, States
<1>2. T \in [1 .. n -> [States -> States]] /\ "idx" \in States /\ n \in Nat
  BY <1>1 DEF States
<1>3. PICK p \in [0 .. n -> States] : Follows(p, n, "idx", T)
  <2> HIDE DEF T, n, Is
  <2> QED BY <1>2, Solution
<1>4. ASSUME NEW i \in 1 .. n PROVE p[i] = Decode(dry, p[i - 1], w[i])
  <2>1. p[i - 1] \in States
    OBVIOUS
  <2> QED BY <1>3, <2>1 DEF Follows
<1>5. Is(p)
  <2>1. \A i \in 0 .. n : i # 0 => i \in 1 .. n
    OBVIOUS
  <2> QED BY <1>3, <1>4, <2>1 DEF Follows
<1> DEFINE c == CHOOSE d : Is(d)
<1>6. Is(c)
  <2> HIDE DEF Is
  <2> QED BY <1>5
<1>7. Decoded(dry, w) = c[n]
  BY Zenon DEF Decoded
<1> HIDE DEF c
<1>8. c[0] = "idx" /\ \A i \in 1 .. n : c[i] = Decode(dry, c[i - 1], w[i])
  BY <1>6
<1> QED BY <1>7, <1>8

LEMMA DecodedMore ==
  ASSUME NEW dry, NEW S, NEW w \in Seq(S), NEW m \in S
  PROVE  Decoded(dry, Append(w, m)) = Decode(dry, Decoded(dry, w), m)
<1> DEFINE n == Len(w)
           u == Append(w, m)
<1>1. n \in Nat /\ Len(u) = n + 1 /\ u[n + 1] = m /\ \A i \in 1 .. n : u[i] = w[i]
  BY Longer
<1> HIDE DEF u
<1>2. PICK c : /\ c[0] = "idx" /\ Decoded(dry, w) = c[n]
               /\ \A i \in 1 .. n : c[i] = Decode(dry, c[i - 1], w[i])
  BY <1>1, DecodedIs
<1>3. PICK d : /\ d[0] = "idx" /\ Decoded(dry, u) = d[n + 1]
               /\ \A i \in 1 .. n + 1 : d[i] = Decode(dry, d[i - 1], u[i])
  BY <1>1, DecodedIs
<1> HIDE DEF n
<1>4. \A i \in 1 .. n : d[i - 1] = c[i - 1] => d[i] = c[i]
  BY <1>1, <1>2, <1>3
<1>5. d[n] = c[n]
  <2>1. \A i \in 0 .. n : d[i] = c[i]
    <3>1. d[0] = c[0] /\ n \in Nat
      BY <1>1, <1>2, <1>3
    <3> QED BY <1>4, <3>1, Alike, ZenonT(60)
  <2> QED BY <1>1, <2>1
<1>6. n + 1 \in 1 .. n + 1 /\ (n + 1) - 1 = n
  BY <1>1
<1>7. d[n + 1] = Decode(dry, d[n], u[n + 1])
  BY <1>3, <1>6
<1> QED BY <1>1, <1>2, <1>3, <1>5, <1>7 DEF u

LEMMA DecodedStart == \A dry : Decoded(dry, <<>>) = "idx"
<1> SUFFICES ASSUME NEW dry PROVE Decoded(dry, <<>>) = "idx"
  OBVIOUS
<1>1. Len(<<>>) = 0
  OBVIOUS
<1> QED BY <1>1, DecodedIs

(* How Indices goes on.                                                    *)
LEMMA IndicesIs ==
  ASSUME NEW w \in Seq(Answer)
  PROVE  \E a : /\ a[0] = <<>> /\ Indices(w) = a[Len(w)]
                /\ \A i \in 1 .. Len(w) :
                     a[i] = IF w[i].t = "idx" THEN Append(a[i - 1], w[i].v) ELSE a[i - 1]
<1> DEFINE n == Len(w)
           S == Seq(File \cup {Done})
           Next1(i, s) == IF w[i].t = "idx" THEN Append(s, w[i].v) ELSE s
           Body(a, i) == IF i = 0 THEN <<>>
                         ELSE IF w[i].t = "idx" THEN Append(a[i - 1], w[i].v) ELSE a[i - 1]
           Is(a) == a = [i \in 0 .. n |-> Body(a, i)]
           T == [i \in 1 .. n |-> [s \in S |-> Next1(i, s)]]
<1>1. ASSUME NEW i \in 1 .. n, NEW s \in S PROVE Next1(i, s) \in S
  <2>1. w[i] \in Answer
    OBVIOUS
  <2>2. w[i].t = "idx" => w[i].v \in File \cup {Done}
    BY <2>1 DEF Answer
  <2> QED BY <2>2
<1> HIDE DEF Next1
<1>2. T \in [1 .. n -> [S -> S]] /\ <<>> \in S /\ n \in Nat
  BY <1>1
<1>3. PICK p \in [0 .. n -> S] : Follows(p, n, <<>>, T)
  <2> HIDE DEF T, n, Is, S
  <2> QED BY <1>2, Solution
<1>4. ASSUME NEW i \in 1 .. n PROVE p[i] = Next1(i, p[i - 1])
  <2>1. p[i - 1] \in S
    OBVIOUS
  <2> HIDE DEF S
  <2> QED BY <1>3, <2>1 DEF Follows
<1>5. Is(p)
  <2>1. \A i \in 0 .. n : i # 0 => i \in 1 .. n
    OBVIOUS
  <2> QED BY <1>3, <1>4, <2>1 DEF Follows, Next1
<1> DEFINE c == CHOOSE a : Is(a)
<1>6. Is(c)
  <2> HIDE DEF Is
  <2> QED BY <1>5
<1>7. Indices(w) = c[n]
  BY Zenon DEF Indices
<1> HIDE DEF c
<1>8. \A i \in 0 .. n : c[i] = Body(c, i)
  <2> HIDE DEF Body
  <2> QED BY <1>6
<1>9. /\ c[0] = <<>>
      /\ \A i \in 1 .. n : c[i] = IF w[i].t = "idx" THEN Append(c[i - 1], w[i].v) ELSE c[i - 1]
  <2>1. 0 \in 0 .. n /\ \A i \in 1 .. n : i \in 0 .. n /\ i # 0
    BY <1>2
  <2> QED BY <1>8, <2>1
<1> QED BY <1>7, <1>9

LEMMA IndicesMore ==
  ASSUME NEW w \in Seq(Answer), NEW m \in Answer
  PROVE  Indices(Append(w, m)) = IF m.t = "idx" THEN Append(Indices(w), m.v) ELSE Indices(w)
<1> DEFINE n == Len(w)
           u == Append(w, m)
<1>1. /\ u \in Seq(Answer) /\ n \in Nat /\ Len(u) = n + 1 /\ u[n + 1] = m
      /\ \A i \in 1 .. n : u[i] = w[i]
  BY Longer
<1> HIDE DEF u
<1>2. PICK c : /\ c[0] = <<>> /\ Indices(w) = c[n]
               /\ \A i \in 1 .. n : c[i] = IF w[i].t = "idx" THEN Append(c[i - 1], w[i].v) ELSE c[i - 1]
  BY <1>1, IndicesIs
<1>3. PICK d : /\ d[0] = <<>> /\ Indices(u) = d[n + 1]
               /\ \A i \in 1 .. n + 1 :
                    d[i] = IF u[i].t = "idx" THEN Append(d[i - 1], u[i].v) ELSE d[i - 1]
  BY <1>1, IndicesIs
<1> HIDE DEF n
<1>4. \A i \in 1 .. n : d[i - 1] = c[i - 1] => d[i] = c[i]
  BY <1>1, <1>2, <1>3
<1>5. d[n] = c[n]
  <2>1. d[0] = c[0] /\ n \in Nat
    BY <1>1, <1>2, <1>3
  <2>2. \A i \in 0 .. n : d[i] = c[i]
    BY <1>4, <2>1, Alike, ZenonT(60)
  <2> QED BY <2>1, <2>2
<1>6. n + 1 \in 1 .. n + 1 /\ (n + 1) - 1 = n
  BY <1>1
<1>7. d[n + 1] = IF u[n + 1].t = "idx" THEN Append(d[n], u[n + 1].v) ELSE d[n]
  BY <1>3, <1>6
<1> QED BY <1>1, <1>2, <1>3, <1>5, <1>7 DEF u

LEMMA IndicesStart == Indices(<<>>) = <<>>
<1>1. Len(<<>>) = 0 /\ <<>> \in Seq(Answer)
  OBVIOUS
<1> QED BY <1>1, IndicesIs

(* How Kept goes on.                                                       *)
LEMMA KeptIs ==
  ASSUME NEW S, NEW r \in Seq(S), NEW out, NEW n \in 0 .. Len(r)
  PROVE  \E a : /\ a[0] = <<>> /\ Kept(r, out, n) = a[n]
                /\ \A i \in 1 .. n : a[i] = IF i \in out THEN a[i - 1] ELSE Append(a[i - 1], r[i])
<1> DEFINE U == Seq(S)
           Next1(i, s) == IF i \in out THEN s ELSE Append(s, r[i])
           Body(a, i) == IF i = 0 THEN <<>>
                         ELSE IF i \in out THEN a[i - 1] ELSE Append(a[i - 1], r[i])
           Is(a) == a = [i \in 0 .. n |-> Body(a, i)]
           T == [i \in 1 .. n |-> [s \in U |-> Next1(i, s)]]
<1>1. ASSUME NEW i \in 1 .. n, NEW s \in U PROVE Next1(i, s) \in U
  <2>1. r[i] \in S
    BY LenProperties
  <2> QED BY <2>1
<1> HIDE DEF Next1
<1>2. T \in [1 .. n -> [U -> U]] /\ <<>> \in U /\ n \in Nat
  BY <1>1, LenProperties
<1>3. PICK p \in [0 .. n -> U] : Follows(p, n, <<>>, T)
  <2> HIDE DEF T, Is, U
  <2> QED BY <1>2, Solution
<1>4. ASSUME NEW i \in 1 .. n PROVE p[i] = Next1(i, p[i - 1])
  <2>1. p[i - 1] \in U
    BY <1>2
  <2> HIDE DEF U
  <2> QED BY <1>3, <2>1 DEF Follows
<1>5. Is(p)
  <2>1. \A i \in 0 .. n : i # 0 => i \in 1 .. n
    OBVIOUS
  <2> QED BY <1>3, <1>4, <2>1 DEF Follows, Next1
<1> DEFINE c == CHOOSE a : Is(a)
<1>6. Is(c)
  <2> HIDE DEF Is
  <2> QED BY <1>5
<1>7. Kept(r, out, n) = c[n]
  BY Zenon DEF Kept
<1> HIDE DEF c
<1>8. \A i \in 0 .. n : c[i] = Body(c, i)
  <2> HIDE DEF Body
  <2> QED BY <1>6
<1>9. /\ c[0] = <<>>
      /\ \A i \in 1 .. n : c[i] = IF i \in out THEN c[i - 1] ELSE Append(c[i - 1], r[i])
  <2>1. 0 \in 0 .. n /\ \A i \in 1 .. n : i \in 0 .. n /\ i # 0
    BY <1>2
  <2> QED BY <1>8, <2>1
<1> QED BY <1>7, <1>9

(* What comes behind the first n does not matter to them.                  *)
LEMMA KeptSame ==
  ASSUME NEW S, NEW r \in Seq(S), NEW out, NEW u \in Seq(S), NEW also,
         NEW n \in Nat, n <= Len(r), n <= Len(u),
         \A i \in 1 .. n : r[i] = u[i] /\ (i \in out <=> i \in also)
  PROVE  Kept(r, out, n) = Kept(u, also, n)
<1>1. n \in 0 .. Len(r) /\ n \in 0 .. Len(u)
  BY LenProperties
<1>2. PICK c : /\ c[0] = <<>> /\ Kept(r, out, n) = c[n]
               /\ \A i \in 1 .. n : c[i] = IF i \in out THEN c[i - 1] ELSE Append(c[i - 1], r[i])
  BY <1>1, KeptIs
<1>3. PICK d : /\ d[0] = <<>> /\ Kept(u, also, n) = d[n]
               /\ \A i \in 1 .. n : d[i] = IF i \in also THEN d[i - 1] ELSE Append(d[i - 1], u[i])
  BY <1>1, KeptIs
<1>4. \A i \in 1 .. n : d[i - 1] = c[i - 1] => d[i] = c[i]
  BY <1>2, <1>3
<1>5. d[0] = c[0]
  BY <1>2, <1>3
<1>6. \A i \in 0 .. n : d[i] = c[i]
  <2> DEFINE Same == {i \in 0 .. n : d[i] = c[i]}
  <2>1. 0 \in Same /\ \A i \in 1 .. n : i - 1 \in Same => i \in Same
    BY <1>4, <1>5
  <2> HIDE DEF Same
  <2>2. \A i \in 0 .. n : i \in Same
    BY <2>1, UpTo
  <2> QED BY <2>2 DEF Same
<1> QED BY <1>1, <1>2, <1>3, <1>6

LEMMA KeptMore ==
  ASSUME NEW S, NEW r \in Seq(S), NEW out, NEW n \in 1 .. Len(r)
  PROVE  Kept(r, out, n) = IF n \in out THEN Kept(r, out, n - 1) ELSE Append(Kept(r, out, n - 1), r[n])
<1>1. n \in Nat /\ n - 1 \in Nat /\ n \in 0 .. Len(r) /\ n - 1 \in 0 .. Len(r) /\ n \in 1 .. n
  BY LenProperties
<1>2. PICK c : /\ c[0] = <<>> /\ Kept(r, out, n) = c[n]
               /\ \A i \in 1 .. n : c[i] = IF i \in out THEN c[i - 1] ELSE Append(c[i - 1], r[i])
  BY <1>1, KeptIs
<1>3. PICK d : /\ d[0] = <<>> /\ Kept(r, out, n - 1) = d[n - 1]
               /\ \A i \in 1 .. n - 1 : d[i] = IF i \in out THEN d[i - 1] ELSE Append(d[i - 1], r[i])
  BY <1>1, KeptIs
<1>4. \A i \in 1 .. n - 1 : d[i - 1] = c[i - 1] => d[i] = c[i]
  BY <1>1, <1>2, <1>3
<1>5. d[0] = c[0]
  BY <1>2, <1>3
<1>6. \A i \in 0 .. n - 1 : d[i] = c[i]
  <2>1. n - 1 \in Nat
    BY <1>1
  <2> QED BY <1>4, <1>5, <2>1, Alike, ZenonT(60)
<1>7. d[n - 1] = c[n - 1]
  BY <1>1, <1>6
<1> QED BY <1>1, <1>2, <1>3, <1>7

LEMMA KeptStart ==
  ASSUME NEW S, NEW r \in Seq(S), NEW out
  PROVE  Kept(r, out, 0) = <<>>
<1>1. 0 \in 0 .. Len(r)
  BY LenProperties
<1> QED BY <1>1, KeptIs
-----------------------------------------------------------------------------
(* Where the sender is between a request and the end of its answer: the    *)
(* index is the one that was read last, and not passed over.               *)
Asked  == pc \in {"ack", "echo", "head", "sums", "open", "reply", "final"}
InFile == pc \in {"rhead", "data", "filesum"}

AskedInv ==
  /\ pc \in {"head", "sums", "open", "reply"} \/ InFile => ~dryRun
  /\ pc = "echo" => dryRun
  /\ pc \in {"ack", "final"} => phase = 1 /\ fileIndex = Done
  /\ Asked \/ InFile => /\ requests # <<>> /\ requests[Len(requests)] = fileIndex
                        /\ Len(requests) \notin skipped

(* What the other side makes of the answers.                               *)
Now(s, s1) == IF phase = 0 THEN s ELSE s1

DecodeInv ==
  torn = {} =>
    /\ Decoded(dryRun, written) # "lost"
    /\ pc \in {"idx", "echo", "head", "sums", "open", "reply"} =>
         Decoded(dryRun, written) = Now("idx", "idx1")
    /\ pc = "ack"                => Decoded(dryRun, written) = "idx"
    /\ pc = "final"              => Decoded(dryRun, written) = "idx1"
    /\ pc = "rhead"              => Decoded(dryRun, written) = Now("head", "head1")
    /\ pc = "data"               => Decoded(dryRun, written) = Now("token", "token1")
    /\ pc = "filesum"            => Decoded(dryRun, written) = Now("sum", "sum1")
    /\ pc = "stats"              => Decoded(dryRun, written) = "stats"
    /\ pc \in {"bye", "ok"}      => Decoded(dryRun, written) = "bye"

(* Which indices are among them.                                           *)
UpToRequest(n) == Indices(written) = Kept(requests, skipped \ torn, n)

OrderInv ==
  /\ Asked => UpToRequest(Len(requests) - 1)
  /\ pc \in {"senderr", "failed"} =>
       UpToRequest(Len(requests)) \/ (requests # <<>> /\ UpToRequest(Len(requests) - 1))
  /\ ~Asked /\ pc \notin {"senderr", "failed"} => UpToRequest(Len(requests))

(* What is in the answer that begins with message s and ends with sum j.   *)
Begins(s, j) == written[s].t = "idx" /\ \A k \in s + 1 .. j : written[k].t # "idx"

Summed(s, j) ==
  /\ Begins(s, j) /\ written[s].v \in File /\ s + 3 <= j
  /\ written[j].v = [i \in 1 .. j - s - 3 |-> Shows(written[s + 1 + i])]
  /\ s \in searched => \A i \in 1 .. j - s - 3 : written[j].v[i] = Zero
  /\ s \notin searched /\ ~edited => written[j].v = files[written[s].v]

(* What is in the answer that began with message s and is not ended: h is  *)
(* the data so far, and hashSearch gives it when there were block sums.    *)
Growing(s) ==
  /\ s \in 1 .. Len(written) /\ Begins(s, Len(written)) /\ written[s].v = fileIndex
  /\ s \in searched <=> sums > 0
  /\ \A i \in 1 .. Len(h) : Shows(written[s + 1 + i]) = h[i]

(* What is hashed so far is of the content opened, or all zero.            *)
AllZero == sums > 0 => \A i \in 1 .. Len(h) : h[i] = Zero

SumInv ==
  /\ \A j \in 1 .. Len(written) : written[j].t = "filesum" => \E s \in 1 .. j : Summed(s, j)
  /\ searched \subseteq 1 .. Len(written)
  /\ pc \in {"reply", "rhead", "data", "filesum"} /\ sums = 0 /\ ~edited => snap = files[fileIndex]
  /\ pc = "rhead" => /\ written # <<>> /\ written[Len(written)] = Idx(fileIndex)
                     /\ Len(written) \in searched <=> sums > 0
  /\ pc = "data" => /\ Growing(Len(written) - 1 - Len(h)) /\ pos = Len(h) + 1 /\ AllZero
                    /\ sums = 0 /\ ~edited => /\ Len(h) <= Len(snap)
                                              /\ \A i \in 1 .. Len(h) : h[i] = snap[i]
  /\ pc = "filesum" => /\ Growing(Len(written) - 2 - Len(h)) /\ AllZero
                       /\ sums = 0 /\ ~edited => h = snap

AnswerInv == written \in Seq(Answer) /\ AskedInv /\ DecodeInv /\ OrderInv /\ SumInv
-----------------------------------------------------------------------------
(* The steps, each for one part of the invariant.                          *)

(* Before anything is written.                                             *)
LEMMA AnswersStart == Init => AnswerInv
<1> SUFFICES ASSUME Init PROVE AnswerInv
  OBVIOUS
<1>1. /\ written = <<>> /\ requests = <<>> /\ pc = "idx" /\ phase = 0 /\ torn = {} /\ skipped = {}
      /\ Len(<<>>) = 0 /\ <<>> \in Seq(Answer) /\ <<>> \in Seq(File)
  BY DEF Init
<1>2. AskedInv
  BY <1>1 DEF AskedInv, Asked, InFile
<1>3. DecodeInv
  BY <1>1, DecodedStart DEF DecodeInv, Now
<1>4. OrderInv
  <2>1. Kept(requests, skipped \ torn, Len(requests)) = <<>>
    <3>1. Kept(<<>>, skipped \ torn, 0) = <<>>
      BY <1>1, KeptStart
    <3> QED BY <1>1, <3>1
  <2> QED BY <1>1, <2>1, IndicesStart DEF OrderInv, Asked, UpToRequest
<1>5. SumInv
  <2>1. searched = {}
    BY DEF Init
  <2> QED BY <1>1, <2>1 DEF SumInv
<1> QED BY <1>1, <1>2, <1>3, <1>4, <1>5 DEF AnswerInv

(* A request is in hand until its answer is written.                       *)
LEMMA AskedStep == SenderInv /\ AskedInv /\ Next => AskedInv'
<1> SUFFICES ASSUME SenderInv, AskedInv, Next PROVE AskedInv'
  OBVIOUS
<1>t. /\ requests \in Seq(File \cup {Done}) /\ Len(requests) \in Nat
      /\ skipped \subseteq 1 .. Len(requests) /\ phase \in {0, 1}
      /\ (dryRun => pc \notin {"head", "sums"})
  BY LenProperties DEF SenderInv, Placed, TypeOK, QueueInv
<1> USE DEF AskedInv, Asked, InFile
<1>1. CASE ReadIndex
  <2>1. Head(in) \in Request /\ Head(in).t = "idx"
    BY <1>1, TailIs DEF ReadIndex, ReadOK, SenderInv, QueueInv
  <2>2. Head(in).v \in File \cup {Done}
    BY <2>1, RequestRead
  <2>3. requests' = Append(requests, Head(in).v) /\ fileIndex' = Head(in).v /\ skipped' = skipped
    BY <1>1 DEF ReadIndex
  <2>4. /\ requests' # <<>> /\ requests'[Len(requests')] = fileIndex' /\ Len(requests') = Len(requests) + 1
    <3>1. /\ Len(requests') = Len(requests) + 1 /\ requests'[Len(requests) + 1] = Head(in).v
          /\ requests' \in Seq(File \cup {Done})
      BY <1>t, <2>2, <2>3, Longer
    <3>2. requests' # <<>>
      BY <1>t, <3>1, EmptySeq
    <3> QED BY <2>3, <3>1, <3>2
  <2>5. Len(requests') \notin skipped'
    BY <1>t, <2>3, <2>4
  <2>6. pc' \in {"ack", "final"} => phase' = 1 /\ fileIndex' = Done
    BY <1>1, <1>t DEF ReadIndex
  <2>7. pc' \in {"ack", "final", "echo", "head"} /\ (pc' = "head" => ~dryRun') /\ (pc' = "echo" => dryRun')
    BY <1>1, <1>t DEF ReadIndex
  <2> QED BY <2>4, <2>5, <2>6, <2>7
<1>2. CASE Acknowledge \/ EchoIndex \/ Reply \/ SendEnd \/ SendSum \/ Finish
  BY <1>2 DEF Acknowledge, EchoIndex, Reply, SendEnd, SendSum, Finish, Writes, sendVars, histVars
<1>3. CASE ReadHead \/ ReadSum \/ ReadFails \/ ReadBye \/ SendError
  BY <1>3, <1>t DEF ReadHead, ReadSum, ReadFails, ReadBye, SendError, sendVars, histVars
<1>4. CASE Open \/ OpenRoot \/ ReadBlockFails
  BY <1>4 DEF Open, OpenRoot, ReadBlockFails, Continue, sendVars, histVars
<1>5. CASE ReplyHead \/ SendBlock \/ SearchRoot \/ SearchPanics
  BY <1>5 DEF ReplyHead, SendBlock, SearchRoot, SearchPanics, Writes, sendVars, histVars
<1>6. CASE Client \/ ClientLeaves \/ Edit
  BY <1>6 DEF Client, ClientAsk, ClientSums, ClientDone, ClientLeaves, Edit, sendVars, histVars
<1> QED BY <1>1, <1>2, <1>3, <1>4, <1>5, <1>6 DEF Next, Do

(* What the search on "/" writes is zero bytes, as they are or as a        *)
(* reference to a block of the client's.                                   *)
LEMMA SearchWrites ==
  ASSUME SenderInv, SearchRoot
  PROVE  /\ pc = "data" /\ sums > 0
         /\ \/ WriteErr /\ pc' = "senderr"
            \/ \E m \in Answer : /\ m.t \in {"data", "ref"} /\ Shows(m) = Zero
                                 /\ WriteOK(m) /\ pc' = "data"
<1>1. Zero \in Chunk /\ zeros \subseteq Nat
  BY SenderAssumption DEF SenderInv, TypeOK
<1>2. Data(Zero) \in Answer /\ Data(Zero).t = "data" /\ Shows(Data(Zero)) = Zero
  BY <1>1, AnswerMade DEF Shows
<1>3. \A i \in zeros : Ref(i) \in Answer /\ Ref(i).t = "ref" /\ Shows(Ref(i)) = Zero
  BY <1>1, AnswerMade DEF Shows
<1>4. CASE Writes("data", Data(Zero), "data")
  BY <1>2, <1>4 DEF SearchRoot, Writes
<1>5. ASSUME NEW i \in zeros, Writes("data", Ref(i), "data")
      PROVE  \/ WriteErr /\ pc' = "senderr"
             \/ \E m \in Answer : /\ m.t \in {"data", "ref"} /\ Shows(m) = Zero
                                  /\ WriteOK(m) /\ pc' = "data"
  BY <1>3, <1>5 DEF Writes
<1> QED BY <1>4, <1>5 DEF SearchRoot, Writes

(* Whatever is written is an answer's.                                     *)
LEMMA WrittenStep ==
  ASSUME SenderInv, written \in Seq(Answer), Next
  PROVE  UNCHANGED written \/ \E m \in Answer : written' = Append(written, m)
<1>1. fileIndex \in File \cup {Done} /\ sums \in Nat /\ Len(snap) \in Nat /\ h \in Content
  BY LenProperties DEF SenderInv, TypeOK, Content
<1>2. CASE ReadIndex \/ ReadHead \/ ReadSum \/ ReadFails \/ Open \/ ReadBlockFails \/ OpenRoot \/ ReadBye
           \/ SearchPanics \/ Client \/ ClientLeaves \/ Edit
  BY <1>2 DEF SearchPanics, ReadIndex, ReadHead, ReadSum, ReadFails, Open, ReadBlockFails, OpenRoot, ReadBye,
              Client, ClientAsk, ClientSums, ClientDone, ClientLeaves, Edit
<1>3. CASE Acknowledge \/ EchoIndex \/ Reply \/ SendEnd \/ SendSum \/ Finish \/ SendError
  BY <1>1, <1>3, AnswerMade DEF Acknowledge, EchoIndex, Reply, SendEnd, SendSum, Finish, SendError,
         Writes, WriteOK, WriteErr
<1>4. CASE ReplyHead
  <2>1. (IF sums > 0 THEN sums ELSE Len(snap)) \in Nat
    BY <1>1
  <2> QED BY <1>4, <2>1, AnswerMade DEF ReplyHead, Writes, WriteOK, WriteErr
<1>6. CASE SearchRoot
  BY <1>6, SearchWrites DEF WriteOK, WriteErr
<1>5. CASE SendBlock
  <2>1. fileIndex \in File
    BY <1>5 DEF SendBlock, SenderInv, Placed
  <2>2. Readable \subseteq Content
    BY <2>1 DEF Readable, SenderInv, TypeOK
  <2>3. PICK c \in Content : pos <= Len(c) /\ Writes("data", Data(c[pos]), "data")
    BY <1>5, <2>2 DEF SendBlock
  <2>4. pos \in 1 .. Len(c)
    BY <2>3 DEF SenderInv, TypeOK, Content
  <2>5. c[pos] \in Chunk
    BY <2>4 DEF Content
  <2> QED BY <2>3, <2>5, AnswerMade DEF Writes, WriteOK, WriteErr
<1> QED BY <1>2, <1>3, <1>4, <1>5, <1>6 DEF Next, Do

(* The state of the other side follows that of the sender.                 *)
LEMMA DecodeStep ==
  ASSUME SenderInv, AskedInv, DecodeInv, written \in Seq(Answer), Next
  PROVE  DecodeInv'
<1>t. phase \in {0, 1} /\ dryRun' = dryRun /\ (torn' = {} => torn = {})
      /\ (Asked \/ InFile => fileIndex \in File \cup {Done})
  BY DEF SenderInv, TypeOK, Next, Do, ReadIndex, Acknowledge, EchoIndex, ReadHead, ReadSum, ReadFails,
     Open, Reply, ReplyHead, SendBlock, SendEnd, ReadBlockFails, SendSum, OpenRoot, SearchRoot, SearchPanics, Finish,
     ReadBye, SendError, Continue, Client, ClientAsk, ClientSums, ClientDone, ClientLeaves, Edit, sendVars, histVars
<1>m. ASSUME NEW m \in Answer, written' = Append(written, m)
      PROVE  Decoded(dryRun', written') = Decode(dryRun, Decoded(dryRun, written), m)
  BY <1>t, <1>m, DecodedMore
<1>s. \A i, j : /\ Idx(i) = [t |-> "idx", v |-> i] /\ SumHead(i).t = "head" /\ Data(i).t = "data"
             /\ EndToken.t = "end" /\ FileSum(i).t = "filesum" /\ Stats.t = "stats" /\ ErrorMsg.t = "error"
             /\ Idx(i).t = "idx" /\ Idx(i).v = i
  BY AnswerMade DEF Idx, SumHead, Data, EndToken, FileSum, Stats, ErrorMsg
<1> SUFFICES ASSUME torn' = {}
             PROVE  DecodeInv'
  BY DEF DecodeInv
<1>1. CASE UNCHANGED <<written, pc, phase>>
  BY <1>1, <1>t DEF DecodeInv, Now
<1>2. CASE pc' \in {"senderr", "failed", "panic"} /\ UNCHANGED written
  BY <1>2, <1>t DEF DecodeInv
<1>3. CASE ReadIndex
  BY <1>3, <1>t DEF ReadIndex, DecodeInv, Now
<1>4. CASE ReadHead \/ ReadSum \/ Open \/ OpenRoot \/ ReadBye \/ ReadFails
  BY <1>4, <1>t DEF ReadHead, ReadSum, Open, OpenRoot, ReadBye, ReadFails, Continue, DecodeInv, Now, sendVars
<1>5. CASE ReadBlockFails
  <2>1. pc' = "senderr" /\ UNCHANGED written
    BY <1>5 DEF ReadBlockFails, Continue
  <2> QED BY <1>2, <2>1
<1>6. ASSUME NEW m \in Answer, NEW at, NEW next, pc = at, pc' = next, written' = Append(written, m),
             UNCHANGED phase,
             \/ /\ at \in {"ack", "echo", "final"} /\ m = Idx(fileIndex)
                /\ next = (IF at = "final" THEN "stats" ELSE "idx")
             \/ at = "reply" /\ m = Idx(fileIndex) /\ next = "rhead"
             \/ at = "rhead" /\ m.t = "head" /\ next = "data"
             \/ at = "data" /\ m.t \in {"data", "ref"} /\ next = "data"
             \/ at = "data" /\ m.t = "end" /\ next = "filesum"
             \/ at = "filesum" /\ m.t = "filesum" /\ next = "idx"
             \/ at = "stats" /\ m.t = "stats" /\ next = "bye"
             \/ at = "senderr" /\ m.t = "error" /\ next = "failed"
      PROVE  DecodeInv'
  <2> DEFINE d == Decoded(dryRun, written)
             e == Decoded(dryRun', written')
  <2>1. e = Decode(dryRun, d, m)
    BY <1>6, <1>m
  <2>2. torn = {} /\ DecodeInv
    BY <1>t
  <2>3. DecodeInv' <=>
          /\ e # "lost"
          /\ next \in {"idx", "echo", "head", "sums", "open", "reply"} => e = Now("idx", "idx1")
          /\ next = "ack"                => e = "idx"
          /\ next = "final"              => e = "idx1"
          /\ next = "rhead"              => e = Now("head", "head1")
          /\ next = "data"               => e = Now("token", "token1")
          /\ next = "filesum"            => e = Now("sum", "sum1")
          /\ next = "stats"              => e = "stats"
          /\ next \in {"bye", "ok"}      => e = "bye"
    BY <1>6 DEF DecodeInv, Now
  <2> HIDE DEF e
  <2>4. CASE at = "ack" /\ m = Idx(fileIndex) /\ next = "idx"
    <3>1. d = "idx" /\ m.t = "idx" /\ m.v = Done /\ phase = 1
      BY <1>6, <1>s, <2>2, <2>4 DEF DecodeInv, AskedInv
    <3>2. e = "idx1"
      BY <2>1, <3>1 DEF Decode
    <3> QED BY <2>3, <2>4, <3>1, <3>2 DEF Now
  <2>5. CASE at = "echo" /\ m = Idx(fileIndex) /\ next = "idx"
    <3>1. d = Now("idx", "idx1") /\ m.t = "idx" /\ m.v = fileIndex /\ fileIndex # Done /\ dryRun
      <4>1. fileIndex # Done /\ dryRun
        BY <1>6, <2>5, FileNumbers DEF SenderInv, Placed, AskedInv
      <4> QED BY <1>6, <1>s, <2>2, <2>5, <4>1 DEF DecodeInv
    <3>2. e = Now("idx", "idx1")
      BY <2>1, <3>1 DEF Decode, Now
    <3> QED BY <2>3, <2>5, <3>2 DEF Now
  <2>6. CASE at = "final" /\ m = Idx(fileIndex) /\ next = "stats"
    <3>1. d = "idx1" /\ m.t = "idx" /\ m.v = Done
      BY <1>6, <1>s, <2>2, <2>6 DEF DecodeInv, AskedInv
    <3>2. e = "stats"
      BY <2>1, <3>1 DEF Decode
    <3> QED BY <2>3, <2>6, <3>2
  <2>7. CASE at = "reply" /\ m = Idx(fileIndex) /\ next = "rhead"
    <3>1. d = Now("idx", "idx1") /\ m.t = "idx" /\ m.v = fileIndex /\ fileIndex # Done /\ ~dryRun
      <4>1. fileIndex # Done /\ ~dryRun
        BY <1>6, <2>7, FileNumbers DEF SenderInv, Placed, AskedInv
      <4> QED BY <1>6, <1>s, <2>2, <2>7, <4>1 DEF DecodeInv
    <3>2. e = Now("head", "head1")
      BY <2>1, <3>1 DEF Decode, Now
    <3> QED BY <2>3, <2>7, <3>2 DEF Now
  <2>8. CASE at = "rhead" /\ m.t = "head" /\ next = "data"
    <3>1. e = Now("token", "token1")
      BY <1>6, <2>1, <2>2, <2>8 DEF DecodeInv, Decode, Now
    <3> QED BY <2>3, <2>8, <3>1 DEF Now
  <2>9. CASE at = "data" /\ m.t \in {"data", "ref"} /\ next = "data"
    <3>1. e = Now("token", "token1")
      BY <1>6, <2>1, <2>2, <2>9 DEF DecodeInv, Decode, Now
    <3> QED BY <2>3, <2>9, <3>1 DEF Now
  <2>10. CASE at = "data" /\ m.t = "end" /\ next = "filesum"
    <3>1. e = Now("sum", "sum1")
      BY <1>6, <2>1, <2>2, <2>10 DEF DecodeInv, Decode, Now
    <3> QED BY <2>3, <2>10, <3>1 DEF Now
  <2>11. CASE at = "filesum" /\ m.t = "filesum" /\ next = "idx"
    <3>1. e = Now("idx", "idx1")
      BY <1>6, <2>1, <2>2, <2>11 DEF DecodeInv, Decode, Now
    <3> QED BY <2>3, <2>11, <3>1 DEF Now
  <2>12. CASE at = "stats" /\ m.t = "stats" /\ next = "bye"
    <3>1. e = "bye"
      BY <1>6, <2>1, <2>2, <2>12 DEF DecodeInv, Decode
    <3> QED BY <2>3, <2>12, <3>1
  <2>13. CASE at = "senderr" /\ m.t = "error" /\ next = "failed"
    <3>1. e = "error"
      BY <2>1, <2>13 DEF Decode
    <3> QED BY <2>3, <2>13, <3>1
  <2> HIDE DEF d
  <2> QED BY <1>6, <2>4, <2>5, <2>6, <2>7, <2>8, <2>9, <2>10, <2>11, <2>12, <2>13
<1>7. fileIndex \in File \cup {Done} /\ sums \in Nat /\ Len(snap) \in Nat /\ h \in Content
  BY LenProperties DEF SenderInv, TypeOK, Content
<1>8. CASE Acknowledge \/ EchoIndex \/ Reply \/ SendEnd \/ SendSum \/ Finish \/ SendError
  <2>1. UNCHANGED phase
    BY <1>8 DEF Acknowledge, EchoIndex, Reply, SendEnd, SendSum, Finish, SendError, sendVars
  <2>2. CASE UNCHANGED written /\ pc' \in {"senderr", "failed"}
    BY <1>2, <2>2
  <2> DEFINE Wrote(at, m, next) == pc = at /\ pc' = next /\ written' = Append(written, m)
  <2>3. \/ UNCHANGED written /\ pc' \in {"senderr", "failed"}
        \/ Wrote("ack", Idx(Done), "idx") \/ Wrote("echo", Idx(fileIndex), "idx")
        \/ Wrote("reply", Idx(fileIndex), "rhead") \/ Wrote("data", EndToken, "filesum")
        \/ Wrote("filesum", FileSum(h), "idx") \/ Wrote("final", Idx(Done), "stats")
        \/ Wrote("stats", Stats, "bye") \/ Wrote("senderr", ErrorMsg, "failed")
    BY <1>8 DEF Acknowledge, EchoIndex, Reply, SendEnd, SendSum, Finish, SendError, Writes,
                WriteOK, WriteErr
  <2>4. pc \in {"ack", "final"} => fileIndex = Done
    BY DEF AskedInv
  <2>5. ASSUME NEW at, NEW next, Wrote(at, Idx(fileIndex), next),
               \/ at \in {"ack", "echo", "final"} /\ next = (IF at = "final" THEN "stats" ELSE "idx")
               \/ at = "reply" /\ next = "rhead"
        PROVE  DecodeInv'
    BY <1>6, <1>7, <2>1, <2>5, AnswerMade
  <2>6. ASSUME NEW at, NEW next, NEW m \in Answer, Wrote(at, m, next),
               \/ at = "data" /\ m.t = "end" /\ next = "filesum"
               \/ at = "filesum" /\ m.t = "filesum" /\ next = "idx"
               \/ at = "stats" /\ m.t = "stats" /\ next = "bye"
               \/ at = "senderr" /\ m.t = "error" /\ next = "failed"
        PROVE  DecodeInv'
    BY <1>6, <2>1, <2>6
  <2>7. Wrote("ack", Idx(Done), "idx") \/ Wrote("final", Idx(Done), "stats") => DecodeInv'
    BY <2>4, <2>5
  <2>8. Wrote("echo", Idx(fileIndex), "idx") \/ Wrote("reply", Idx(fileIndex), "rhead") => DecodeInv'
    BY <2>5
  <2>9. Wrote("data", EndToken, "filesum") \/ Wrote("filesum", FileSum(h), "idx")
        \/ Wrote("stats", Stats, "bye")
        \/ Wrote("senderr", ErrorMsg, "failed") => DecodeInv'
    <3> HIDE DEF Wrote
    <3> QED BY <1>7, <2>6, AnswerMade
  <2> HIDE DEF Wrote
  <2> QED BY <2>2, <2>3, <2>7, <2>8, <2>9
<1>9. CASE ReplyHead
  <2> DEFINE m == SumHead(IF sums > 0 THEN sums ELSE Len(snap))
  <2>0. m \in Answer /\ m.t = "head"
    BY <1>7, AnswerMade
  <2>1. UNCHANGED phase /\ Writes("rhead", m, "data")
    BY <1>9 DEF ReplyHead
  <2> HIDE DEF m
  <2>2. CASE WriteErr /\ pc' = "senderr"
    BY <1>2, <2>2 DEF WriteErr
  <2>3. CASE WriteOK(m) /\ pc' = "data"
    <3>2. pc = "rhead" /\ written' = Append(written, m)
      BY <2>1, <2>3 DEF Writes, WriteOK
    <3> QED BY <1>6, <2>0, <2>1, <2>3, <3>2
  <2> QED BY <2>1, <2>2, <2>3 DEF Writes
<1>10. CASE SendBlock
  <2>1. UNCHANGED phase /\ pc = "data" /\ fileIndex \in File
    BY <1>10 DEF SendBlock, SenderInv, Placed
  <2>2. Readable \subseteq Content
    BY <2>1 DEF Readable, SenderInv, TypeOK
  <2>3. PICK c \in Content : pos <= Len(c) /\ Writes("data", Data(c[pos]), "data")
    BY <1>10, <2>2 DEF SendBlock
  <2>4. Data(c[pos]) \in Answer /\ Data(c[pos]).t = "data"
    <3>1. pos \in 1 .. Len(c)
      BY <2>3 DEF SenderInv, TypeOK, Content
    <3> QED BY <3>1, AnswerMade DEF Content
  <2>5. CASE WriteErr /\ pc' = "senderr"
    BY <1>2, <2>5 DEF WriteErr
  <2>6. CASE WriteOK(Data(c[pos])) /\ pc' = "data"
    BY <1>6, <2>1, <2>4, <2>6 DEF WriteOK
  <2> QED BY <2>3, <2>5, <2>6 DEF Writes
<1>11. CASE Client \/ ClientLeaves \/ Edit
  BY <1>1, <1>11 DEF Client, ClientAsk, ClientSums, ClientDone, ClientLeaves, Edit, sendVars
<1>12. CASE SearchRoot
  <2>1. UNCHANGED phase
    BY <1>12 DEF SearchRoot
  <2>2. CASE WriteErr /\ pc' = "senderr"
    BY <1>2, <2>2 DEF WriteErr
  <2>3. ASSUME NEW m \in Answer, m.t \in {"data", "ref"}, WriteOK(m), pc = "data", pc' = "data"
        PROVE  DecodeInv'
    BY <1>6, <2>1, <2>3 DEF WriteOK
  <2> QED BY <1>12, <2>2, <2>3, SearchWrites
<1>13. CASE SearchPanics
  BY <1>2, <1>13 DEF SearchPanics
<1> QED BY <1>3, <1>4, <1>5, <1>8, <1>9, <1>10, <1>11, <1>12, <1>13 DEF Next, Do

(* The answers keep the order of the requests.                             *)
LEMMA OrderStep ==
  ASSUME SenderInv, AskedInv, OrderInv, written \in Seq(Answer), Next
  PROVE  OrderInv'
<1> DEFINE n   == Len(requests)
           out == skipped \ torn
           Lost == {"senderr", "failed"}
<1>t. /\ requests \in Seq(File \cup {Done}) /\ n \in Nat /\ fileIndex \in File \cup {Done}
      /\ skipped \subseteq 1 .. n /\ torn \subseteq skipped
      /\ sums \in Nat /\ Len(snap) \in Nat /\ h \in Content
  BY LenProperties DEF SenderInv, Placed, TypeOK, Content
<1>k. requests # <<>> => /\ n \in 1 .. n /\ n - 1 \in Nat
                         /\ Kept(requests, out, n) = IF n \in out THEN Kept(requests, out, n - 1)
                                                      ELSE Append(Kept(requests, out, n - 1), requests[n])
  <2>1. requests # <<>> => n \in 1 .. n /\ n - 1 \in Nat
    BY <1>t, EmptySeq
  <2>2. n \in 1 .. n => Kept(requests, out, n) = IF n \in out THEN Kept(requests, out, n - 1)
                                                 ELSE Append(Kept(requests, out, n - 1), requests[n])
    BY <1>t, KeptMore
  <2> QED BY <2>1, <2>2
<1>1. CASE /\ UNCHANGED <<written, requests, skipped, torn>>
           /\ \/ (Asked' <=> Asked) /\ (pc' \in Lost <=> pc \in Lost)
              \/ pc' = "senderr"
              \/ pc' = "failed"
              \/ pc' = "panic" /\ pc = "data"
  <2>1. \A i : UpToRequest(i)' <=> UpToRequest(i)
    BY <1>1 DEF UpToRequest
  <2>2. Asked => requests # <<>>
    BY DEF AskedInv
  <2>3. n' = n
    BY <1>1
  <2> HIDE DEF n
  <2>4. CASE pc' \in Lost
    <3>1. UpToRequest(n) \/ (requests # <<>> /\ UpToRequest(n - 1))
      BY <2>2 DEF OrderInv, n
    <3>2. UpToRequest(n)' \/ (requests' # <<>> /\ UpToRequest(n - 1)')
      BY <1>1, <2>3, <3>1 DEF UpToRequest
    <3>3. ~Asked'
      BY <2>4 DEF Asked
    <3> QED BY <2>4, <3>2, <3>3 DEF OrderInv, n
  <2>5. CASE pc' \notin Lost
    <3>1. (Asked' <=> Asked) /\ pc \notin Lost
      BY <1>1, <2>5 DEF Asked
    <3>2. CASE Asked
      <4>1. UpToRequest(n - 1)
        BY <3>2 DEF OrderInv, n
      <4>2. UpToRequest(n - 1)'
        BY <1>1, <2>3, <4>1 DEF UpToRequest
      <4> QED BY <2>5, <3>1, <3>2, <4>2 DEF OrderInv, n
    <3>3. CASE ~Asked
      <4>1. UpToRequest(n)
        BY <3>1, <3>3 DEF OrderInv, n
      <4>2. UpToRequest(n)'
        BY <1>1, <2>3, <4>1 DEF UpToRequest
      <4> QED BY <2>5, <3>1, <3>3, <4>2 DEF OrderInv, n
    <3> QED BY <3>2, <3>3
  <2> QED BY <2>4, <2>5
<1>2. CASE ReadIndex
  <2>1. pc = "idx" /\ UNCHANGED <<written, skipped, torn>> /\ requests' = Append(requests, Head(in).v)
    BY <1>2 DEF ReadIndex
  <2>2. Head(in).v \in File \cup {Done}
    <3>1. Head(in) \in Request /\ Head(in).t = "idx"
      BY <1>2, TailIs DEF ReadIndex, ReadOK, SenderInv, QueueInv
    <3> QED BY <3>1, RequestRead
  <2>3. /\ requests' \in Seq(File \cup {Done}) /\ Len(requests') = n + 1
        /\ \A i \in 1 .. n : requests'[i] = requests[i]
    BY <1>t, <2>1, <2>2, Longer
  <2>4. Asked' /\ pc' \notin Lost
    BY <1>2 DEF ReadIndex, Asked
  <2>5. Indices(written) = Kept(requests, out, n)
    BY <2>1 DEF OrderInv, Asked, UpToRequest
  <2>6. Kept(requests', out, n) = Kept(requests, out, n)
    <3>1. n <= Len(requests) /\ n <= Len(requests')
      BY <1>t, <2>3
    <3> HIDE DEF out
    <3> QED BY <1>t, <2>3, <3>1, KeptSame
  <2>7. Len(requests') - 1 = n
    BY <1>t, <2>3
  <2>8. UpToRequest(Len(requests) - 1)'
    BY <2>1, <2>5, <2>6, <2>7 DEF UpToRequest
  <2> QED BY <2>4, <2>8 DEF OrderInv
<1>3. CASE Continue /\ (pc = "open" \/ pc = "data") /\ UNCHANGED <<written, requests>>
  <2>1. /\ skipped' = skipped \cup {n} /\ torn' = (IF pc = "data" THEN torn \cup {n} ELSE torn)
        /\ pc' = "idx" /\ n \notin skipped /\ requests # <<>>
    BY <1>3 DEF Continue, AskedInv, Asked, InFile
  <2>2. \A i \in 1 .. n - 1 : i \in (skipped' \ torn') <=> i \in out
    BY <1>t, <2>1
  <2>3. CASE pc = "open"
    <3>1. Indices(written) = Kept(requests, out, n - 1)
      BY <2>3 DEF OrderInv, Asked, UpToRequest
    <3>2. Kept(requests, skipped' \ torn', n - 1) = Kept(requests, out, n - 1)
      <4>1. n - 1 \in Nat /\ n - 1 <= Len(requests)
        BY <1>k, <2>1
      <4> DEFINE also == skipped' \ torn'
      <4>2. \A i \in 1 .. n - 1 : i \in also <=> i \in out
        BY <2>2
      <4> HIDE DEF also, out, n
      <4>3. Kept(requests, also, n - 1) = Kept(requests, out, n - 1)
        BY <1>t, <4>1, <4>2, KeptSame
      <4> QED BY <4>3 DEF also
    <3>3. n \in skipped' \ torn'
      BY <1>t, <2>1, <2>3
    <3>4. Kept(requests, skipped' \ torn', n) = Kept(requests, skipped' \ torn', n - 1)
      <4>1. n \in 1 .. n
        BY <1>k, <2>1
      <4> QED BY <1>t, <3>3, <4>1, KeptMore
    <3>5. UpToRequest(Len(requests))'
      BY <1>3, <3>1, <3>2, <3>4 DEF UpToRequest
    <3> QED BY <2>1, <3>5 DEF OrderInv, Asked
  <2>4. CASE pc = "data"
    <3>1. Indices(written) = Kept(requests, out, n)
      BY <2>4 DEF OrderInv, Asked, UpToRequest
    <3>2. skipped' \ torn' = out
      BY <1>t, <2>1, <2>4
    <3>3. UpToRequest(Len(requests))'
      BY <1>3, <3>1, <3>2 DEF UpToRequest
    <3> QED BY <2>1, <3>3 DEF OrderInv, Asked
  <2> QED BY <1>3, <2>3, <2>4
<1>4. ASSUME NEW m \in Answer, written' = Append(written, m), UNCHANGED <<requests, skipped, torn>>,
             m.t # "idx", ~Asked', ~Asked, pc \in Lost <=> pc' \in Lost
      PROVE  OrderInv'
  <2>1. Indices(written') = Indices(written)
    BY <1>4, IndicesMore
  <2>2. \A i : UpToRequest(i)' <=> UpToRequest(i)
    BY <1>4, <2>1 DEF UpToRequest
  <2>3. UpToRequest(n) \/ (pc \in Lost /\ requests # <<>> /\ UpToRequest(n - 1))
    BY <1>4 DEF OrderInv
  <2>4. UpToRequest(n)' \/ (pc' \in Lost /\ requests' # <<>> /\ UpToRequest(n - 1)')
    BY <1>4, <2>1, <2>3 DEF UpToRequest
  <2> QED BY <1>4, <2>4 DEF OrderInv
<1>5. ASSUME written' = Append(written, Idx(fileIndex)), UNCHANGED <<requests, skipped, torn>>,
             Asked, ~Asked', pc' \notin Lost
      PROVE  OrderInv'
  <2>1. Idx(fileIndex) \in Answer /\ Idx(fileIndex).t = "idx" /\ Idx(fileIndex).v = fileIndex
    BY <1>t, AnswerMade
  <2>2. Indices(written') = Append(Indices(written), fileIndex)
    BY <1>5, <2>1, IndicesMore
  <2>3. requests # <<>> /\ requests[n] = fileIndex /\ n \notin out
    BY <1>5 DEF AskedInv
  <2>4. Kept(requests, out, n) = Append(Kept(requests, out, n - 1), fileIndex)
    BY <1>k, <2>3
  <2>5. Indices(written) = Kept(requests, out, n - 1)
    BY <1>5 DEF OrderInv, UpToRequest
  <2>6. UpToRequest(Len(requests))'
    BY <1>5, <2>2, <2>4, <2>5 DEF UpToRequest
  <2> QED BY <1>5, <2>6 DEF OrderInv
<1>6. CASE ReadHead \/ ReadSum \/ ReadBye \/ ReadFails \/ Client \/ ClientLeaves \/ Edit
  BY <1>1, <1>6 DEF ReadHead, ReadSum, ReadBye, ReadFails, Client, ClientAsk, ClientSums, ClientDone,
     ClientLeaves, Edit, Asked, sendVars, histVars
<1>7. CASE Open \/ OpenRoot \/ ReadBlockFails
  <2>1. UNCHANGED <<written, requests>> /\ (pc = "open" \/ pc = "data")
    BY <1>7 DEF Open, OpenRoot, ReadBlockFails
  <2>2. \/ Continue
        \/ UNCHANGED <<skipped, torn>> /\ pc = "open" /\ pc' \in {"reply", "senderr"}
        \/ UNCHANGED <<skipped, torn>> /\ pc' = "senderr"
    BY <1>7 DEF Open, OpenRoot, ReadBlockFails
  <2>3. CASE Continue
    BY <1>3, <2>1, <2>3
  <2>4. CASE UNCHANGED <<skipped, torn>> /\ pc = "open" /\ pc' \in {"reply", "senderr"}
    BY <1>1, <2>1, <2>4 DEF Asked
  <2>5. CASE UNCHANGED <<skipped, torn>> /\ pc' = "senderr"
    BY <1>1, <2>1, <2>5
  <2> QED BY <2>2, <2>3, <2>4, <2>5
<1>8. ASSUME NEW at, NEW next, NEW m \in Answer, UNCHANGED <<requests, skipped, torn>>, pc = at,
             written' = Append(written, m), pc' = next,
             \/ /\ at \in {"ack", "echo", "reply", "final"} /\ m = Idx(fileIndex)
                /\ next \in {"idx", "rhead", "stats"}
             \/ /\ at \in {"rhead", "data", "filesum", "stats"} /\ m.t # "idx"
                /\ next \in {"data", "filesum", "idx", "bye"}
             \/ at = "senderr" /\ m.t # "idx" /\ next = "failed"
      PROVE  OrderInv'
  <2>1. UNCHANGED <<requests, skipped, torn>>
    BY <1>8
  <2>2. CASE at \in {"ack", "echo", "reply", "final"}
    <3>1. /\ Asked /\ ~Asked' /\ pc' \notin Lost /\ m = Idx(fileIndex)
      BY <1>8, <2>2 DEF Asked
    <3> QED BY <1>5, <1>8, <2>1, <3>1
  <2>3. CASE at \notin {"ack", "echo", "reply", "final"}
    <3>1. m.t # "idx" /\ ~Asked /\ ~Asked' /\ (pc \in Lost <=> pc' \in Lost)
      BY <1>8, <2>3 DEF Asked
    <3> QED BY <1>4, <1>8, <2>1, <3>1
  <2> QED BY <2>2, <2>3
<1>9. CASE Acknowledge \/ EchoIndex \/ Reply \/ SendEnd \/ SendSum \/ Finish \/ SendError
  <2>1. UNCHANGED <<requests, skipped, torn>>
    BY <1>9 DEF Acknowledge, EchoIndex, Reply, SendEnd, SendSum, Finish, SendError, histVars
  <2>2. CASE UNCHANGED written /\ pc' \in {"senderr", "failed"}
    BY <1>1, <2>1, <2>2
  <2> DEFINE Wrote(at, m, next) == pc = at /\ pc' = next /\ written' = Append(written, m)
  <2>3. \/ UNCHANGED written /\ pc' \in {"senderr", "failed"}
        \/ Wrote("ack", Idx(Done), "idx") \/ Wrote("echo", Idx(fileIndex), "idx")
        \/ Wrote("reply", Idx(fileIndex), "rhead") \/ Wrote("data", EndToken, "filesum")
        \/ Wrote("filesum", FileSum(h), "idx") \/ Wrote("final", Idx(Done), "stats")
        \/ Wrote("stats", Stats, "bye") \/ Wrote("senderr", ErrorMsg, "failed")
    BY <1>9 DEF Acknowledge, EchoIndex, Reply, SendEnd, SendSum, Finish, SendError, Writes,
                WriteOK, WriteErr
  <2>4. pc \in {"ack", "final"} => fileIndex = Done
    BY DEF AskedInv
  <2>5. ASSUME NEW at, NEW next, Wrote(at, Idx(fileIndex), next),
               at \in {"ack", "echo", "reply", "final"},
               next \in {"idx", "rhead", "stats"}
        PROVE  OrderInv'
    BY <1>t, <1>8, <2>1, <2>5, AnswerMade
  <2>6. ASSUME NEW at, NEW next, NEW m \in Answer, Wrote(at, m, next), m.t # "idx",
               \/ /\ at \in {"rhead", "data", "filesum", "stats"}
                  /\ next \in {"data", "filesum", "idx", "bye"}
               \/ at = "senderr" /\ next = "failed"
        PROVE  OrderInv'
    BY <1>8, <2>1, <2>6
  <2>7. Wrote("ack", Idx(Done), "idx") \/ Wrote("final", Idx(Done), "stats") => OrderInv'
    BY <2>4, <2>5
  <2>8. Wrote("echo", Idx(fileIndex), "idx") \/ Wrote("reply", Idx(fileIndex), "rhead") => OrderInv'
    BY <2>5
  <2>9. Wrote("data", EndToken, "filesum") \/ Wrote("filesum", FileSum(h), "idx")
        \/ Wrote("stats", Stats, "bye")
        \/ Wrote("senderr", ErrorMsg, "failed") => OrderInv'
    <3> HIDE DEF Wrote
    <3> QED BY <1>t, <2>6, AnswerMade
  <2> HIDE DEF Wrote
  <2> QED BY <2>2, <2>3, <2>7, <2>8, <2>9
<1>10. CASE ReplyHead
  <2> DEFINE m == SumHead(IF sums > 0 THEN sums ELSE Len(snap))
  <2>0. m \in Answer /\ m.t = "head"
    BY <1>t, AnswerMade
  <2>1. UNCHANGED <<requests, skipped, torn>> /\ Writes("rhead", m, "data")
    BY <1>10 DEF ReplyHead, histVars
  <2> HIDE DEF m
  <2>2. CASE WriteErr /\ pc' = "senderr"
    BY <1>1, <2>1, <2>2 DEF WriteErr
  <2>3. CASE WriteOK(m) /\ pc' = "data"
    <3>2. pc = "rhead" /\ written' = Append(written, m)
      BY <2>1, <2>3 DEF Writes, WriteOK
    <3> QED BY <1>8, <2>0, <2>1, <2>3, <3>2
  <2> QED BY <2>1, <2>2, <2>3 DEF Writes
<1>11. CASE SendBlock
  <2>1. UNCHANGED <<requests, skipped, torn>> /\ pc = "data" /\ fileIndex \in File
    BY <1>11 DEF SendBlock, histVars, SenderInv, Placed
  <2>2. Readable \subseteq Content
    BY <2>1 DEF Readable, SenderInv, TypeOK
  <2>3. PICK c \in Content : pos <= Len(c) /\ Writes("data", Data(c[pos]), "data")
    BY <1>11, <2>2 DEF SendBlock
  <2>4. Data(c[pos]) \in Answer /\ Data(c[pos]).t = "data"
    <3>1. pos \in 1 .. Len(c)
      BY <2>3 DEF SenderInv, TypeOK, Content
    <3> QED BY <3>1, AnswerMade DEF Content
  <2>5. CASE WriteErr /\ pc' = "senderr"
    BY <1>1, <2>1, <2>5 DEF WriteErr
  <2>6. CASE WriteOK(Data(c[pos])) /\ pc' = "data"
    BY <1>8, <2>1, <2>4, <2>6 DEF WriteOK
  <2> QED BY <2>3, <2>5, <2>6 DEF Writes
<1>12. CASE SearchRoot
  <2>1. UNCHANGED <<requests, skipped, torn>> /\ pc = "data"
    BY <1>12 DEF SearchRoot, histVars
  <2>2. CASE WriteErr /\ pc' = "senderr"
    BY <1>1, <2>1, <2>2 DEF WriteErr
  <2>3. ASSUME NEW m \in Answer, m.t \in {"data", "ref"}, WriteOK(m), pc' = "data"
        PROVE  OrderInv'
    BY <1>8, <2>1, <2>3 DEF WriteOK
  <2> QED BY <1>12, <2>2, <2>3, SearchWrites
<1>13. CASE SearchPanics
  BY <1>1, <1>13 DEF SearchPanics, histVars
<1> QED BY <1>2, <1>6, <1>7, <1>9, <1>10, <1>11, <1>12, <1>13 DEF Next, Do

(* A message more leaves the answers before it as they were.               *)
LEMMA AnswersStay ==
  ASSUME written \in Seq(Answer), NEW m \in Answer, written' = Append(written, m),
         UNCHANGED <<files, edited>>, NEW j \in 1 .. Len(written), NEW s \in 1 .. j,
         searched' = searched \/ searched' = searched \cup {Len(written')}
  PROVE  (Begins(s, j) => Begins(s, j)') /\ (Summed(s, j) => Summed(s, j)')
<1>1. Len(written) \in Nat /\ \A i \in 1 .. Len(written) : written'[i] = written[i]
  BY Longer
<1>2. j \in Nat /\ s \in Nat /\ s <= j /\ j <= Len(written) /\ s >= 1 /\ j >= 1
  BY <1>1
<1>3. written'[s] = written[s] /\ written'[j] = written[j]
  BY <1>1, <1>2
<1>4. \A k \in s + 1 .. j : written'[k] = written[k]
  BY <1>1, <1>2
<1>5. \A i \in 1 .. j - s - 3 : written'[s + 1 + i] = written[s + 1 + i]
  <2> SUFFICES ASSUME NEW i \in 1 .. j - s - 3 PROVE written'[s + 1 + i] = written[s + 1 + i]
    OBVIOUS
  <2>1. s + 1 + i \in s + 1 .. j
    BY <1>2
  <2> QED BY <1>4, <2>1
<1>6. Begins(s, j) => Begins(s, j)'
  BY <1>3, <1>4 DEF Begins
<1>7. s \in searched' <=> s \in searched
  <2>1. Len(written') = Len(written) + 1
    BY Longer
  <2> QED BY <1>1, <1>2, <2>1
<1>8. Summed(s, j) => Summed(s, j)'
  <2> SUFFICES ASSUME Summed(s, j) PROVE Summed(s, j)'
    OBVIOUS
  <2>1. \A i \in 1 .. j - s - 3 : Shows(written'[s + 1 + i]) = Shows(written[s + 1 + i])
    BY <1>5
  <2>2. written'[j].v = [i \in 1 .. j - s - 3 |-> Shows(written'[s + 1 + i])]
    BY <1>3, <2>1 DEF Summed
  <2>3. Begins(s, j)' /\ written'[s].v \in File /\ s + 3 <= j
    BY <1>3, <1>6 DEF Summed
  <2>4. s \in searched' => \A i \in 1 .. j - s - 3 : written'[j].v[i] = Zero
    BY <1>3, <1>7 DEF Summed
  <2>5. s \notin searched' /\ ~edited' => written'[j].v = files'[written'[s].v]
    BY <1>3, <1>7 DEF Summed
  <2> QED BY <2>2, <2>3, <2>4, <2>5 DEF Summed, Shows
<1> QED BY <1>6, <1>8

(* Nor does it end the answer it belongs to.                               *)
LEMMA AnswersGrow ==
  ASSUME written \in Seq(Answer), NEW m \in Answer, written' = Append(written, m),
         NEW s \in 1 .. Len(written), Begins(s, Len(written)), written[s].v = fileIndex,
         m.t # "idx", UNCHANGED fileIndex, NEW n, n = Len(written')
  PROVE  /\ s \in 1 .. Len(written') /\ Begins(s, n)' /\ written'[s].v = fileIndex'
         /\ s \in 1 .. Len(written) /\ Len(written') = Len(written) + 1
         /\ written'[Len(written')] = m
         /\ \A i \in 1 .. Len(written) : written'[i] = written[i]
<1>1. /\ Len(written) \in Nat /\ \A i \in 1 .. Len(written) : written'[i] = written[i]
      /\ Len(written') = Len(written) + 1 /\ written'[Len(written')] = m
  BY Longer
<1>2. s \in 1 .. Len(written) /\ Begins(s, Len(written)) /\ written[s].v = fileIndex
  OBVIOUS
<1>3. s \in 1 .. Len(written') /\ written'[s] = written[s]
  BY <1>1, <1>2
<1>4. \A k \in s + 1 .. Len(written') : k \in s + 1 .. Len(written) \/ k = Len(written')
  BY <1>1, <1>2
<1>5. \A k \in s + 1 .. Len(written) : written'[k] = written[k]
  BY <1>1, <1>2
<1>6. \A k \in s + 1 .. Len(written') : written'[k].t # "idx"
  BY <1>1, <1>2, <1>4, <1>5 DEF Begins
<1>7. Begins(s, n)'
  BY <1>2, <1>3, <1>6 DEF Begins
<1> QED BY <1>1, <1>2, <1>3, <1>7

(* The data of an answer are counted and summed as they are written.       *)
LEMMA SumStep ==
  ASSUME SenderInv, SumInv, written \in Seq(Answer), Next
  PROVE  SumInv'
<1> DEFINE Busy == {"reply", "rhead", "data", "filesum"}
           n    == Len(written)
           Ended1 == \A j \in 1 .. n : written[j].t = "filesum" => \E s \in 1 .. j : Summed(s, j)
<1>t. /\ n \in Nat /\ fileIndex \in File \cup {Done} /\ sums \in Nat /\ Len(snap) \in Nat
      /\ h \in Content /\ snap \in Content /\ Len(h) \in Nat
      /\ (pc \in Busy => fileIndex \in File)
  BY LenProperties DEF SenderInv, Placed, TypeOK, Content
<1>e. Ended1
  BY DEF SumInv
<1>f. ASSUME UNCHANGED <<written, searched>>, edited' \/ UNCHANGED <<files, edited>>
      PROVE  Ended1' /\ searched' \subseteq 1 .. Len(written')
  <2>1. \A s, j : Summed(s, j) => Summed(s, j)'
    BY <1>f DEF Summed, Begins, Shows
  <2> QED BY <1>e, <1>f, <2>1 DEF SumInv
<1>m. ASSUME NEW m \in Answer, written' = Append(written, m), UNCHANGED <<files, edited>>,
             NEW k, k = n + 1, m.t = "filesum" => \E s \in 1 .. k : Summed(s, k)',
             searched' = searched \/ searched' = searched \cup {Len(written')}
      PROVE  Ended1' /\ searched' \subseteq 1 .. Len(written')
  <2>1. n' = k /\ written'[k] = m /\ \A j \in 1 .. n : written'[j] = written[j]
    BY <1>m, Longer
  <2>2. ASSUME NEW j \in 1 .. n, written'[j].t = "filesum" PROVE \E s \in 1 .. j : Summed(s, j)'
    <3>1. PICK s \in 1 .. j : Summed(s, j)
      BY <1>e, <2>1, <2>2
    <3> QED BY <1>m, <3>1, AnswersStay
  <2>3. \A j \in 1 .. n' : j \in 1 .. n \/ j = k
    BY <1>t, <1>m, <2>1
  <2>4. ASSUME NEW j \in 1 .. n', written'[j].t = "filesum" PROVE \E s \in 1 .. j : Summed(s, j)'
    <3>1. CASE j \in 1 .. n
      BY <2>2, <2>4, <3>1
    <3>2. CASE j = k
      BY <1>m, <2>1, <2>4, <3>2
    <3> QED BY <2>3, <3>1, <3>2
  <2>5. searched' \subseteq 1 .. Len(written')
    <3>1. searched \subseteq 1 .. n
      BY DEF SumInv
    <3>2. n \in Nat /\ Len(written') = n + 1 /\ searched' \subseteq searched \cup {Len(written')}
      BY <1>t, <1>m, <2>1
    <3> HIDE DEF n
    <3> QED BY <3>1, <3>2
  <2> QED BY <2>4, <2>5
<1>1. ASSUME UNCHANGED <<written, searched, files, edited>>, pc' \notin Busy
      PROVE  SumInv'
  BY <1>1, <1>f DEF SumInv
<1>2. CASE ClientAsk \/ ClientSums \/ ClientDone \/ ClientLeaves
  <2>1. UNCHANGED <<written, searched, pc, files, edited, fileIndex, sums, snap, pos, h>>
    BY <1>2 DEF ClientAsk, ClientSums, ClientDone, ClientLeaves, sendVars, fileVars, histVars
  <2>2. Ended1' /\ searched' \subseteq 1 .. Len(written')
    BY <1>f, <2>1
  <2>3. (\A s : Growing(s) => Growing(s)') /\ (AllZero => AllZero')
    BY <2>1 DEF Growing, Begins, Shows, AllZero
  <2>4. (pc = "rhead" => /\ written # <<>> /\ written[Len(written)] = Idx(fileIndex)
                         /\ Len(written) \in searched <=> sums > 0)'
    BY <2>1 DEF SumInv, Idx
  <2> HIDE DEF Ended1
  <2> QED BY <2>1, <2>2, <2>3, <2>4 DEF SumInv, Ended1
<1>3. CASE Edit
  <2>1. UNCHANGED <<written, searched, pc, fileIndex, sums, snap, pos, h>> /\ edited'
    BY <1>3 DEF Edit, sendVars, histVars
  <2>2. Ended1' /\ searched' \subseteq 1 .. Len(written')
    BY <1>f, <2>1
  <2>3. (\A s : Growing(s) => Growing(s)') /\ (AllZero => AllZero')
    BY <2>1 DEF Growing, Begins, Shows, AllZero
  <2>4. (pc = "rhead" => /\ written # <<>> /\ written[Len(written)] = Idx(fileIndex)
                         /\ Len(written) \in searched <=> sums > 0)'
    BY <2>1 DEF SumInv, Idx
  <2> HIDE DEF Ended1
  <2> QED BY <2>1, <2>2, <2>3, <2>4 DEF SumInv, Ended1
<1>4. CASE ReadIndex \/ ReadHead \/ ReadSum \/ ReadFails \/ ReadBye \/ ReadBlockFails \/ SearchPanics
  <2>1. UNCHANGED <<written, searched, files, edited>> /\ pc' \notin Busy
    BY <1>4 DEF ReadIndex, ReadHead, ReadSum, ReadFails, ReadBye, ReadBlockFails, SearchPanics, Continue,
                fileVars, histVars
  <2> QED BY <1>1, <2>1
<1>12. CASE OpenRoot
  <2>1. UNCHANGED <<written, searched, files, edited, fileIndex, sums>> /\ sums > 0
    BY <1>12 DEF OpenRoot, fileVars
  <2>2. pc' \in {"reply", "idx"}
    BY <1>12 DEF OpenRoot, Continue
  <2>3. CASE pc' = "reply"
    <3>1. Ended1' /\ searched' \subseteq 1 .. Len(written')
      BY <1>f, <2>1
    <3> QED BY <2>1, <2>3, <3>1 DEF SumInv
  <2> QED BY <1>1, <2>1, <2>2, <2>3
<1>5. CASE Open
  <2>1. UNCHANGED <<written, searched, files, edited, fileIndex>>
    BY <1>5 DEF Open, fileVars
  <2>2. (pc' = "reply" /\ snap' = files[fileIndex]) \/ pc' \notin Busy
    BY <1>5 DEF Open, Continue
  <2>3. CASE pc' = "reply" /\ snap' = files[fileIndex]
    <3>1. Ended1' /\ searched' \subseteq 1 .. Len(written')
      BY <1>f, <2>1
    <3> QED BY <2>1, <2>3, <3>1 DEF SumInv
  <2> QED BY <1>1, <2>1, <2>2, <2>3
<1>6. CASE Acknowledge \/ EchoIndex \/ Finish \/ SendError
  <2>1. UNCHANGED <<files, edited, searched>> /\ pc' \notin Busy
    BY <1>6 DEF Acknowledge, EchoIndex, Finish, SendError, Writes, fileVars, histVars
  <2>2. \/ UNCHANGED written
        \/ \E m \in {Idx(Done), Idx(fileIndex), Stats, ErrorMsg} : written' = Append(written, m)
    BY <1>6 DEF Acknowledge, EchoIndex, Finish, SendError, Writes, WriteOK, WriteErr
  <2>3. ASSUME NEW m \in {Idx(Done), Idx(fileIndex), Stats, ErrorMsg}, written' = Append(written, m)
        PROVE  SumInv'
    <3>1. m \in Answer /\ m.t # "filesum"
      BY <1>t, AnswerMade
    <3> DEFINE k == n + 1
    <3>2. k = n + 1
      OBVIOUS
    <3> HIDE DEF k
    <3>3. Ended1' /\ searched' \subseteq 1 .. Len(written')
      BY <1>m, <2>1, <2>3, <3>1, <3>2
    <3> QED BY <2>1, <3>3 DEF SumInv
  <2> QED BY <1>1, <2>1, <2>2, <2>3
<1>7. CASE Reply
  <2>1. /\ UNCHANGED <<files, edited, fileIndex, sums, snap>> /\ Idx(fileIndex) \in Answer
        /\ Idx(fileIndex).t = "idx" /\ pc = "reply"
    BY <1>7, <1>t, AnswerMade DEF Reply, Writes, fileVars, sendVars
  <2>2. CASE WriteErr /\ pc' = "senderr"
    <3>1. searched' = searched
      BY <1>7, <2>2 DEF Reply
    <3> QED BY <1>1, <2>1, <2>2, <3>1 DEF WriteErr
  <2>3. CASE written' = Append(written, Idx(fileIndex)) /\ pc' = "rhead"
    <3> DEFINE k == n + 1
    <3>1. k = n + 1
      OBVIOUS
    <3> HIDE DEF k
    <3>2. /\ written' \in Seq(Answer) /\ Len(written') = n + 1
          /\ written'[n + 1] = Idx(fileIndex)
      BY <2>1, <2>3, Longer
    <3>3. searched' = IF sums > 0 THEN searched \cup {Len(written')} ELSE searched
      BY <1>7, <2>3 DEF Reply
    <3>4. searched' = searched \/ searched' = searched \cup {Len(written')}
      BY <3>3
    <3>5. Ended1' /\ searched' \subseteq 1 .. Len(written')
      BY <1>m, <2>1, <2>3, <3>1, <3>4
    <3>6. Len(written') \notin searched
      BY <1>t, <3>2 DEF SumInv
    <3>7. written'[Len(written')] = Idx(fileIndex)' /\ written' # <<>>
      <4>1. Idx(fileIndex)' = Idx(fileIndex)
        BY <2>1 DEF Idx
      <4> QED BY <1>t, <3>2, <4>1, EmptySeq
    <3>8. sums = 0 /\ ~edited => snap = files[fileIndex]
      BY <2>1 DEF SumInv
    <3> HIDE DEF Ended1
    <3> QED BY <2>1, <2>3, <3>3, <3>5, <3>6, <3>7, <3>8 DEF SumInv, Ended1
  <2> QED BY <1>7, <2>2, <2>3 DEF Reply, Writes, WriteOK
<1>8. CASE ReplyHead
  <2> DEFINE m == SumHead(IF sums > 0 THEN sums ELSE Len(snap))
  <2>1. /\ UNCHANGED <<files, edited, fileIndex, sums, snap, searched>> /\ pc = "rhead" /\ pos' = 1
        /\ h' = <<>> /\ m \in Answer /\ m.t = "head"
    BY <1>8, <1>t, AnswerMade DEF ReplyHead, Writes, fileVars, histVars
  <2>4. Writes("rhead", m, "data")
    BY <1>8 DEF ReplyHead
  <2> HIDE DEF m
  <2>2. CASE WriteErr /\ pc' = "senderr"
    BY <1>1, <2>1, <2>2 DEF WriteErr
  <2>3. CASE written' = Append(written, m) /\ pc' = "data"
    <3>p. PICK b \in Nat, k \in Nat : b = n /\ k = n + 1
      BY <1>t
    <3>1. m \in Answer /\ m.t = "head" /\ written' = Append(written, m)
      BY <2>1, <2>3
    <3>2. Ended1' /\ searched' \subseteq 1 .. Len(written')
      BY <1>m, <2>1, <3>p, <3>1
    <3>3. written # <<>> /\ written[b] = Idx(fileIndex) /\ (b \in searched <=> sums > 0)
      BY <2>1, <3>p DEF SumInv
    <3>4. Idx(fileIndex).t = "idx" /\ Idx(fileIndex).v = fileIndex
      BY DEF Idx
    <3>5. b \in 1 .. n /\ \A j \in b + 1 .. n : FALSE
      BY <1>t, <3>p, <3>3, EmptySeq
    <3>6. Begins(b, n) /\ written[b].v = fileIndex
      BY <3>3, <3>4, <3>5 DEF Begins
    <3>7. Len(written') = k
      BY <3>p, <3>1, Longer
    <3>8. Begins(b, k)' /\ written'[b].v = fileIndex' /\ b \in 1 .. k
      BY <2>1, <3>1, <3>5, <3>6, <3>7, AnswersGrow
    <3>9. Len(h') = 0 /\ k - 1 - Len(h') = b /\ pos' = Len(h') + 1
      BY <2>1, <3>p
    <3>10. Growing(b)' /\ AllZero'
      <4>1. \A i \in 1 .. Len(h') : FALSE
        BY <3>9
      <4> QED BY <2>1, <3>3, <3>7, <3>8, <4>1 DEF Growing, AllZero
    <3>11. Growing(Len(written) - 1 - Len(h))'
      BY <3>7, <3>9, <3>10
    <3>12. (\A i \in 1 .. Len(h') : FALSE) /\ Len(h') <= Len(snap')
      BY <1>t, <2>1, <3>9
    <3> HIDE DEF Ended1
    <3> QED BY <2>1, <2>3, <3>2, <3>9, <3>10, <3>11, <3>12 DEF SumInv, Ended1
  <2> QED BY <2>2, <2>3, <2>4 DEF Writes, WriteOK
<1>d. ASSUME pc = "data", pc' = "data", UNCHANGED <<files, edited, fileIndex, sums, snap, searched>>,
             NEW m \in Answer, m.t \in {"data", "ref"}, NEW c \in Chunk, Shows(m) = c,
             written' = Append(written, m), h' = Append(h, c), pos' = pos + 1,
             sums > 0 => c = Zero,
             sums = 0 /\ ~edited => pos <= Len(snap) /\ c = snap[pos]
      PROVE  SumInv'
  <2>1. /\ Growing(n - 1 - Len(h)) /\ pos = Len(h) + 1 /\ AllZero
        /\ sums = 0 /\ ~edited => Len(h) <= Len(snap) /\ \A i \in 1 .. Len(h) : h[i] = snap[i]
    BY <1>d DEF SumInv
  <2>g. PICK g \in Nat : g = Len(h)
    BY <1>t
  <2>k. PICK k \in Nat : k = n + 1
    BY <1>t
  <2>p. PICK b \in Nat : b = n - 1 - g /\ k = n + 1 /\ g = Len(h)
    <3>1. n - 1 - Len(h) \in Nat
      BY <1>t, <2>1 DEF Growing
    <3> QED BY <2>g, <2>k, <3>1
  <2>2. Ended1' /\ searched' \subseteq 1 .. Len(written')
    BY <1>d, <1>m, <2>p
  <2>3. Growing(b)
    BY <2>1, <2>p
  <2>4. Len(written') = k
    BY <1>d, <2>p, Longer
  <2>5. b \in 1 .. n /\ Begins(b, n) /\ written[b].v = fileIndex /\ (b \in searched <=> sums > 0)
    BY <2>3 DEF Growing
  <2>6. /\ Begins(b, k)' /\ written'[b].v = fileIndex' /\ b \in 1 .. k /\ written'[k] = m
        /\ \A i \in 1 .. n : written'[i] = written[i]
    BY <1>d, <2>4, <2>5, AnswersGrow
  <2>7. Len(h') = g + 1 /\ h'[g + 1] = c /\ \A i \in 1 .. g : h'[i] = h[i]
    BY <1>d, <1>t, <2>p, Longer DEF Content
  <2>8. ASSUME NEW i \in 1 .. Len(h') PROVE Shows(written'[b + 1 + i]) = h'[i]
    <3>1. CASE i = g + 1
      <4>1. b + 1 + i = k
        BY <2>p, <3>1
      <4> QED BY <1>d, <2>6, <2>7, <3>1, <4>1
    <3>2. CASE i # g + 1
      <4>1. i \in 1 .. g /\ b + 1 + i \in 1 .. n
        BY <2>p, <2>7, <3>2
      <4>2. Shows(written[b + 1 + i]) = h[i]
        BY <2>3, <2>p, <4>1 DEF Growing
      <4> QED BY <2>6, <2>7, <4>1, <4>2
    <3> QED BY <3>1, <3>2
  <2>9. Growing(b)'
    BY <1>d, <2>4, <2>5, <2>6, <2>8 DEF Growing, Shows
  <2>10. Growing(Len(written) - 1 - Len(h))'
    <3>1. k - 1 - (g + 1) = b
      BY <2>p
    <3> QED BY <2>4, <2>7, <2>9, <3>1
  <2>11. pos' = Len(h') + 1
    BY <1>d, <2>1, <2>7, <2>p
  <2>12. ASSUME NEW i \in 1 .. Len(h') PROVE i = g + 1 \/ i \in 1 .. g
    BY <2>p, <2>7
  <2>13. sums = 0 /\ ~edited => Len(h') <= Len(snap) /\ \A i \in 1 .. Len(h') : h'[i] = snap[i]
    <3> SUFFICES ASSUME sums = 0 /\ ~edited
                 PROVE  Len(h') <= Len(snap) /\ \A i \in 1 .. Len(h') : h'[i] = snap[i]
      OBVIOUS
    <3>1. c = snap[pos] /\ g + 1 <= Len(snap) /\ pos = g + 1
      BY <1>d, <2>1, <2>p
    <3>2. ASSUME NEW i \in 1 .. Len(h') PROVE h'[i] = snap[i]
      <4>1. CASE i = g + 1
        BY <2>7, <3>1, <4>1
      <4>2. CASE i \in 1 .. g
        BY <2>1, <2>7, <2>p, <4>2
      <4> QED BY <2>12, <4>1, <4>2
    <3> QED BY <2>7, <3>1, <3>2
  <2>14. AllZero'
    <3> SUFFICES ASSUME sums > 0, NEW i \in 1 .. Len(h') PROVE h'[i] = Zero
      BY <1>d DEF AllZero
    <3>1. CASE i = g + 1
      BY <1>d, <2>7, <3>1
    <3>2. CASE i \in 1 .. g
      BY <2>1, <2>7, <2>p, <3>2 DEF AllZero
    <3> QED BY <2>12, <3>1, <3>2
  <2>15. sums = 0 /\ ~edited => snap = files[fileIndex]
    BY <1>d DEF SumInv
  <2> HIDE DEF Ended1
  <2> QED BY <1>d, <2>2, <2>10, <2>11, <2>13, <2>14, <2>15 DEF SumInv, Ended1
<1>9. CASE SendBlock
  <2>1. /\ UNCHANGED <<files, edited, fileIndex, sums, snap, searched>> /\ pc = "data" /\ sums = 0
        /\ pos' = pos + 1 /\ fileIndex \in File
    BY <1>9, <1>t DEF SendBlock, fileVars, histVars
  <2>2. PICK c \in Readable : /\ pos <= Len(c) /\ h' = Append(h, c[pos])
                              /\ Writes("data", Data(c[pos]), "data")
    BY <1>9 DEF SendBlock
  <2>3. c \in Content /\ (~edited => c = snap)
    BY <2>1, <2>2 DEF Readable, SenderInv, TypeOK, SumInv
  <2>4. pos = Len(h) + 1
    BY <2>1 DEF SumInv
  <2>5. pos \in 1 .. Len(c) /\ c[pos] \in Chunk
    <3>1. Len(c) \in Nat /\ pos \in Nat /\ pos >= 1
      BY <1>t, <2>3, <2>4, LenProperties DEF Content
    <3>2. pos \in 1 .. Len(c)
      BY <2>2, <3>1
    <3> QED BY <2>3, <3>2 DEF Content
  <2>6. CASE WriteErr /\ pc' = "senderr"
    BY <1>1, <2>1, <2>6 DEF WriteErr
  <2>7. CASE written' = Append(written, Data(c[pos])) /\ pc' = "data"
    <3>1. Data(c[pos]) \in Answer /\ Data(c[pos]).t = "data" /\ Shows(Data(c[pos])) = c[pos]
      BY <2>5, AnswerMade DEF Shows
    <3>2. ~(sums > 0) /\ (~edited => pos <= Len(snap) /\ c[pos] = snap[pos])
      BY <2>1, <2>2, <2>3
    <3> QED BY <1>d, <2>1, <2>2, <2>5, <2>7, <3>1, <3>2
  <2> QED BY <2>2, <2>6, <2>7 DEF Writes, WriteOK
<1>13. CASE SearchRoot
  <2>1. /\ UNCHANGED <<files, edited, fileIndex, sums, snap, searched>> /\ pc = "data" /\ sums > 0
        /\ pos' = pos + 1 /\ h' = Append(h, Zero) /\ Zero \in Chunk /\ ~(sums = 0)
    BY <1>13, <1>t, SenderAssumption DEF SearchRoot, fileVars, histVars
  <2>2. CASE WriteErr /\ pc' = "senderr"
    BY <1>1, <2>1, <2>2 DEF WriteErr
  <2>3. ASSUME NEW m \in Answer, m.t \in {"data", "ref"}, Shows(m) = Zero, WriteOK(m), pc' = "data"
        PROVE  SumInv'
    BY <1>d, <2>1, <2>3 DEF WriteOK
  <2> QED BY <1>13, <2>2, <2>3, SearchWrites
<1>10. CASE SendEnd
  <2>1. /\ UNCHANGED <<files, edited, fileIndex, sums, snap, pos, h, searched>>
        /\ pc = "data" /\ fileIndex \in File
    BY <1>10, <1>t DEF SendEnd, fileVars, sendVars, histVars
  <2>2. PICK c \in Readable : pos > Len(c)
    BY <1>10 DEF SendEnd
  <2>3. c \in Content /\ (sums = 0 /\ ~edited => c = snap)
    BY <2>1, <2>2 DEF Readable, SenderInv, TypeOK, SumInv
  <2>4. /\ Growing(n - 1 - Len(h)) /\ pos = Len(h) + 1 /\ AllZero
        /\ sums = 0 /\ ~edited => Len(h) <= Len(snap) /\ \A i \in 1 .. Len(h) : h[i] = snap[i]
    BY <2>1 DEF SumInv
  <2>5. CASE WriteErr /\ pc' = "senderr"
    BY <1>1, <2>1, <2>5 DEF WriteErr
  <2>6. CASE written' = Append(written, EndToken) /\ pc' = "filesum"
    <3> DEFINE m == EndToken
    <3>g. PICK g \in Nat : g = Len(h)
      BY <1>t
    <3>k. PICK k \in Nat : k = n + 1
      BY <1>t
    <3>p. PICK b \in Nat : b = n - 1 - g /\ k = n + 1 /\ g = Len(h)
      <4>1. n - 1 - Len(h) \in Nat
        BY <1>t, <2>4 DEF Growing
      <4> QED BY <3>g, <3>k, <4>1
    <3>1. m \in Answer /\ m.t = "end" /\ written' = Append(written, m)
      BY <2>6, AnswerMade
    <3> HIDE DEF m
    <3>2. Ended1' /\ searched' \subseteq 1 .. Len(written')
      BY <1>m, <2>1, <3>p, <3>1
    <3>3. Growing(b)
      BY <2>4, <3>p
    <3>4. Len(written') = k
      BY <3>p, <3>1, Longer
    <3>5. b \in 1 .. n /\ Begins(b, n) /\ written[b].v = fileIndex
      BY <3>3 DEF Growing
    <3>6. /\ Begins(b, k)' /\ written'[b].v = fileIndex' /\ b \in 1 .. k /\ written'[k] = m
          /\ \A i \in 1 .. n : written'[i] = written[i]
      BY <2>1, <3>1, <3>4, <3>5, AnswersGrow
    <3>7. Growing(b)' /\ AllZero'
      <4>1. \A i \in 1 .. g : b + 1 + i \in 1 .. n
        BY <3>p
      <4> QED BY <2>1, <2>4, <3>3, <3>4, <3>6, <3>p, <4>1 DEF Growing, Shows, AllZero
    <3>8. Growing(Len(written) - 2 - Len(h))'
      <4>1. k - 2 - g = b
        BY <3>p
      <4> QED BY <2>1, <3>4, <3>7, <3>p, <4>1
    <3>9. sums = 0 /\ ~edited => h = snap
      <4> SUFFICES ASSUME sums = 0 /\ ~edited PROVE h = snap
        OBVIOUS
      <4>1. Len(h) = Len(snap)
        BY <1>t, <2>2, <2>3, <2>4
      <4>2. h \in Seq(Chunk) /\ snap \in Seq(Chunk) /\ \A i \in 1 .. Len(h) : h[i] = snap[i]
        BY <1>t, <2>4 DEF Content
      <4> QED BY <4>1, <4>2, SeqEqual
    <3>10. sums = 0 /\ ~edited => snap = files[fileIndex]
      BY <2>1 DEF SumInv
    <3> HIDE DEF Ended1
    <3> QED BY <2>1, <2>6, <3>2, <3>7, <3>8, <3>9, <3>10 DEF SumInv, Ended1
  <2> QED BY <1>10, <2>5, <2>6 DEF SendEnd, Writes, WriteOK
<1>11. CASE SendSum
  <2>1. /\ UNCHANGED <<files, edited, fileIndex, sums, snap, h, searched>>
        /\ pc = "filesum" /\ fileIndex \in File
    BY <1>11, <1>t DEF SendSum, Writes, fileVars, sendVars, histVars
  <2>2. CASE WriteErr /\ pc' = "senderr"
    BY <1>1, <2>1, <2>2 DEF WriteErr
  <2>3. CASE written' = Append(written, FileSum(h)) /\ pc' = "idx"
    <3> DEFINE m == FileSum(h)
    <3>1. /\ Growing(n - 2 - Len(h)) /\ (sums = 0 /\ ~edited => h = snap /\ snap = files[fileIndex])
          /\ AllZero
      BY <2>1 DEF SumInv
    <3>g. PICK g \in Nat : g = Len(h)
      BY <1>t
    <3>k. PICK k \in Nat : k = n + 1
      BY <1>t
    <3>p. PICK b \in Nat : b = n - 2 - g /\ k = n + 1 /\ g = Len(h)
      <4>1. n - 2 - Len(h) \in Nat
        BY <1>t, <3>1 DEF Growing
      <4> QED BY <3>g, <3>k, <4>1
    <3>2. m \in Answer /\ m.t = "filesum" /\ m.v = h /\ written' = Append(written, m)
      BY <1>t, <2>3, AnswerMade
    <3> HIDE DEF m
    <3>3. Growing(b)
      BY <3>1, <3>p
    <3>4. Len(written') = k
      BY <3>p, <3>2, Longer
    <3>5. b \in 1 .. n /\ Begins(b, n) /\ written[b].v = fileIndex
      BY <3>3 DEF Growing
    <3>6. /\ Begins(b, k)' /\ written'[b].v = fileIndex' /\ b \in 1 .. k /\ written'[k] = m
          /\ \A i \in 1 .. n : written'[i] = written[i]
      BY <2>1, <3>2, <3>4, <3>5, AnswersGrow
    <3>7. k - b - 3 = g /\ b + 3 <= k
      BY <3>p
    <3>8. ASSUME NEW i \in 1 .. g PROVE Shows(written'[b + 1 + i]) = h[i]
      <4>1. b + 1 + i \in 1 .. n
        BY <3>p
      <4>2. Shows(written[b + 1 + i]) = h[i]
        BY <3>3, <3>p DEF Growing
      <4> QED BY <3>6, <4>1, <4>2
    <3>9. h = [i \in 1 .. g |-> Shows(written'[b + 1 + i])]
      <4>1. h = [i \in 1 .. g |-> h[i]]
        BY <1>t, <3>p DEF Content
      <4> QED BY <3>8, <4>1
    <3>10. Summed(b, k)'
      <4>1. b \in searched' <=> sums > 0
        BY <2>1, <3>3 DEF Growing
      <4>2. b \in searched' => \A i \in 1 .. k - b - 3 : h[i] = Zero
        BY <3>1, <3>7, <3>p, <4>1 DEF AllZero
      <4>3. b \notin searched' /\ ~edited' => h = files'[fileIndex']
        BY <1>t, <2>1, <3>1, <4>1
      <4>4. h = [i \in 1 .. k - b - 3 |-> Shows(written'[b + 1 + i])]
        BY <3>7, <3>9
      <4>5. Begins(b, k)' /\ written'[b].v \in File /\ b + 3 <= k /\ written'[k].v = h
            /\ written'[b].v = fileIndex'
        BY <2>1, <3>2, <3>6, <3>7
      <4> QED BY <4>2, <4>3, <4>4, <4>5 DEF Summed, Shows
    <3>11. Ended1' /\ searched' \subseteq 1 .. Len(written')
      BY <1>m, <2>1, <3>p, <3>2, <3>6, <3>10
    <3> HIDE DEF Ended1
    <3> QED BY <2>3, <3>11 DEF SumInv, Ended1
  <2> QED BY <1>11, <2>2, <2>3 DEF SendSum, Writes, WriteOK
<1> QED BY <1>2, <1>3, <1>4, <1>5, <1>6, <1>7, <1>8, <1>9, <1>10, <1>11, <1>12, <1>13 DEF Next, Do, Client

-----------------------------------------------------------------------------
(* All of it together.                                                     *)
LEMMA AnswerStep == SenderInv /\ AnswerInv /\ [Next]_vars => AnswerInv'
<1> SUFFICES ASSUME SenderInv, AnswerInv, [Next]_vars PROVE AnswerInv'
  OBVIOUS
<1>0. written \in Seq(Answer) /\ AskedInv /\ DecodeInv /\ OrderInv /\ SumInv
  BY DEF AnswerInv
<1>1. CASE Next
  <2>1. UNCHANGED written \/ \E m \in Answer : written' = Append(written, m)
    BY <1>0, <1>1, WrittenStep
  <2>2. written' \in Seq(Answer)
    BY <1>0, <2>1, Longer
  <2>3. AskedInv'
    BY <1>0, <1>1, AskedStep
  <2>4. DecodeInv'
    BY <1>0, <1>1, DecodeStep
  <2>5. OrderInv'
    BY <1>0, <1>1, OrderStep
  <2>6. SumInv'
    BY <1>0, <1>1, SumStep
  <2> QED BY <2>2, <2>3, <2>4, <2>5, <2>6 DEF AnswerInv
<1>2. CASE UNCHANGED vars
  <2>1. /\ UNCHANGED <<dryRun, pc, phase, fileIndex, sums, snap, pos, h, written, files, edited>>
        /\ UNCHANGED <<requests, skipped, torn, searched>>
    BY <1>2 DEF vars, sendVars, fileVars, histVars
  <2>2. AskedInv'
    BY <1>0, <2>1 DEF AskedInv, Asked, InFile
  <2>3. DecodeInv'
    BY <1>0, <2>1 DEF DecodeInv, Now
  <2>4. OrderInv'
    BY <1>0, <2>1 DEF OrderInv, UpToRequest, Asked
  <2>5. SumInv'
    <3>1. Idx(fileIndex)' = Idx(fileIndex)
      BY <2>1 DEF Idx
    <3>2. \A s, j : Summed(s, j)' <=> Summed(s, j)
      BY <2>1 DEF Summed, Begins, Shows
    <3>3. (\A s : Growing(s)' <=> Growing(s)) /\ (AllZero' <=> AllZero)
      BY <2>1 DEF Growing, Begins, Shows, AllZero
    <3> QED BY <1>0, <2>1, <3>1, <3>2, <3>3 DEF SumInv
  <2> QED BY <1>0, <2>1, <2>2, <2>3, <2>4, <2>5 DEF AnswerInv
<1> QED BY <1>1, <1>2

(* What the sender has written keeps to the answers.                       *)
LEMMA AnswerInvariant == Spec => [](SenderInv /\ AnswerInv)
<1>1. Init => SenderInv /\ AnswerInv
  BY InitInv, AnswersStart
<1>2. SenderInv /\ AnswerInv /\ [Next]_vars => (SenderInv /\ AnswerInv)'
  BY InvStep, AnswerStep
<1> QED BY <1>1, <1>2, PTL DEF Spec

(* Until an answer breaks off in the middle of a file, the receiving side  *)
(* can decode all that SendFiles and Do write, in both phases, whatever    *)
(* was passed over.                                                        *)
THEOREM RepliesAreDecoded == Spec => []RepliesDecode
<1>1. SenderInv /\ AnswerInv => RepliesDecode
  BY DEF SenderInv, TypeOK, AnswerInv, DecodeInv, RepliesDecode, Now
<1> QED BY <1>1, AnswerInvariant, PTL

(* The indices that SendFiles writes are those it has read, in this order, *)
(* but for the ones it could not open and at most the last one.            *)
THEOREM AnswersKeepOrder == Spec => []AnswersInOrder
<1>1. SenderInv /\ AnswerInv => AnswersInOrder
  <2> SUFFICES ASSUME SenderInv, AnswerInv PROVE AnswersInOrder
    OBVIOUS
  <2>1. requests # <<>> => Len(requests) > 0
    <3>1. requests \in Seq(File \cup {Done})
      BY DEF SenderInv, Placed
    <3> QED BY <3>1, EmptySeq, LenProperties
  <2>2. Asked => requests # <<>> /\ pc # "idx"
    BY DEF AnswerInv, AskedInv, Asked
  <2> QED BY <2>1, <2>2 DEF AnswerInv, OrderInv, UpToRequest, AnswersInOrder
<1> QED BY <1>1, AnswerInvariant, PTL

(* The md4 that ends an answer, of sendFile or of hashSearch on "/", is    *)
(* that of the data written or referred to since its index; without edits  *)
(* sendFile's data are the file's content, and hashSearch's all zero.      *)
THEOREM SumsAreOfTheAnswer == Spec => []SumsCoverTheAnswer
<1>1. SenderInv /\ AnswerInv => SumsCoverTheAnswer
  <2> SUFFICES ASSUME SenderInv, AnswerInv, NEW j \in FileSums
               PROVE  /\ written[j].v = Answered(j)
                      /\ IF Start(j) \in searched
                         THEN \A i \in DOMAIN Answered(j) : Answered(j)[i] = Zero
                         ELSE ~edited => Answered(j) = files[written[Start(j)].v]
    BY Zenon DEF SumsCoverTheAnswer
  <2> DEFINE Starts(i) == written[i].t = "idx" /\ \A k \in i + 1 .. j : written[k].t # "idx"
  <2>1. j \in 1 .. Len(written) /\ written[j].t = "filesum"
    BY DEF FileSums
  <2>2. PICK s \in 1 .. j : Summed(s, j)
    BY <2>1 DEF AnswerInv, SumInv
  <2>3. Starts(s)
    BY <2>2 DEF Summed, Begins
  <2>4. Start(j) = CHOOSE i \in 1 .. j : Starts(i)
    BY Zenon DEF Start
  <2> HIDE DEF Starts
  <2>5. Start(j) \in 1 .. j /\ Starts(Start(j))
    BY <2>3, <2>4
  <2>6. Start(j) = s
    <3>1. ~(Start(j) \in s + 1 .. j) /\ ~(s \in Start(j) + 1 .. j)
      BY <2>3, <2>5 DEF Starts
    <3> QED BY <2>1, <2>5, <3>1
  <2>7. Answered(j) = [i \in 1 .. j - s - 3 |-> Shows(written[s + 1 + i])]
    BY <2>6 DEF Answered
  <2>8. written[j].v = Answered(j) /\ DOMAIN Answered(j) = 1 .. j - s - 3
    BY <2>2, <2>7 DEF Summed
  <2> QED BY <2>2, <2>6, <2>8 DEF Summed
<1> QED BY <1>1, AnswerInvariant, PTL
=============================================================================
