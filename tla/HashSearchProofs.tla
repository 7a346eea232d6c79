-------------------------- MODULE HashSearchProofs --------------------------
(***************************************************************************)
(* Proofs about the sizes of blocks, for every shortest and longest block  *)
(* and every width of the integers that the assumption allows, and about   *)
(* the block search and the read window under it, for every file, copy,    *)
(* block length, window alignment and chunk size, truncated meanwhile or   *)
(* not.                                                                    *)
(***************************************************************************)
EXTENDS HashSearch, Induction, SequenceTheorems, TLAPS

-----------------------------------------------------------------------------
(* The sizes of blocks.                                                    *)

(* A number in range is its own 32-bit value.                              *)
LEMMA InRange ==
  ASSUME NEW n \in Nat, n < Half
  PROVE  Int32(n) = n
<1>1. Half \in Nat /\ n + Half \in 0 .. 2 * Half - 1
  BY SumAssumption
<1>2. (n + Half) % (2 * Half) = n + Half
  BY <1>1
<1> QED BY <1>1, <1>2 DEF Int32

(* The root of a file that is short enough is at most the longest block.   *)
LEMMA RootIsShort ==
  ASSUME NEW len \in Nat, NEW root \in Nat, IsRoot(root, len), len < MaxBlockLen * MaxBlockLen
  PROVE  root <= MaxBlockLen
<1> SUFFICES ASSUME root > MaxBlockLen PROVE FALSE
  BY SumAssumption
<1>1. MaxBlockLen \in Nat /\ root - 1 \in Nat /\ root - 1 >= MaxBlockLen /\ (root - 1) * (root - 1) <= len
  BY SumAssumption DEF IsRoot
<1>2. \A a, b \in Nat : a >= b => a * a >= b * b
  OBVIOUS
<1>3. (root - 1) * (root - 1) >= MaxBlockLen * MaxBlockLen
  BY <1>1, <1>2
<1> QED BY <1>1, <1>3

LEMMA Division ==
  ASSUME NEW len \in Nat, NEW b \in Nat \ {0}
  PROVE  /\ len \div b \in Nat /\ len % b \in 0 .. b - 1
         /\ len % b = len - b * (len \div b)
<1>1. len \div b \in Nat /\ len % b \in 0 .. b - 1
  OBVIOUS
<1>2. len % b = len - b * (len \div b)
  BY Z3
<1> QED BY <1>1, <1>2

(* The quotient is the only number of its kind.                            *)
LEMMA Quotient ==
  ASSUME NEW n \in Nat, NEW b \in Nat \ {0}, NEW q \in Nat, NEW r \in 0 .. b - 1, n = b * q + r
  PROVE  n \div b = q
OBVIOUS

(* As many blocks as begin in the file.                                    *)
LEMMA Counting ==
  ASSUME NEW len \in Nat, NEW b \in Nat \ {0}
  PROVE  BlockCount(len, b) = IF len % b = 0 THEN len \div b ELSE len \div b + 1
<1> DEFINE q == len \div b
           r == len % b
<1>1. q \in Nat /\ r \in 0 .. b - 1 /\ r = len - b * q
  BY Division
<1> HIDE DEF q, r
<1>2. CASE r = 0
  <2>1. len + (b - 1) = b * q + (b - 1) /\ b - 1 \in 0 .. b - 1 /\ len + (b - 1) \in Nat
    BY <1>1, <1>2
  <2>2. (len + (b - 1)) \div b = q
    BY <1>1, <2>1, Quotient
  <2> QED BY <1>2, <2>2 DEF BlockCount, q, r
<1>3. CASE r # 0
  <2>1. len + (b - 1) = b * (q + 1) + (r - 1) /\ r - 1 \in 0 .. b - 1 /\ len + (b - 1) \in Nat
    BY <1>1, <1>3
  <2>2. (len + (b - 1)) \div b = q + 1
    BY <1>1, <2>1, Quotient
  <2> QED BY <1>3, <2>2 DEF BlockCount, q, r
<1> QED BY <1>2, <1>3

-----------------------------------------------------------------------------
(* A head with the true numbers for its block length.                      *)
TrueHead(h, len) ==
  /\ h.BlockLength \in Nat \ {0}
  /\ h.ChecksumCount = BlockCount(len, h.BlockLength)
  /\ h.RemainderLength = len % h.BlockLength

LEMMA TrueHeadNumbers ==
  ASSUME NEW len \in Nat, NEW h, TrueHead(h, len)
  PROVE  /\ h.ChecksumCount \in Nat /\ h.BlockLength \in Nat \ {0}
         /\ h.RemainderLength \in 0 .. h.BlockLength - 1
         /\ len = (IF h.RemainderLength = 0 THEN h.ChecksumCount ELSE h.ChecksumCount - 1) * h.BlockLength
                     + h.RemainderLength
         /\ h.RemainderLength # 0 => h.ChecksumCount >= 1
<1> DEFINE b == h.BlockLength
           q == len \div b
           r == len % b
<1>1. b \in Nat \ {0} /\ q \in Nat /\ r \in 0 .. b - 1 /\ r = len - b * q
  BY Division DEF TrueHead
<1>2. h.RemainderLength = r /\ h.ChecksumCount = IF r = 0 THEN q ELSE q + 1
  BY <1>1, Counting DEF TrueHead
<1> HIDE DEF q, r
<1>3. b * q = q * b /\ len = q * b + r
  BY <1>1
<1>4. CASE r = 0
  BY <1>1, <1>2, <1>3, <1>4
<1>5. CASE r # 0
  <2>1. h.ChecksumCount - 1 = q
    BY <1>1, <1>2, <1>5
  <2> QED BY <1>1, <1>2, <1>3, <1>5, <2>1
<1> QED BY <1>4, <1>5

LEMMA TrueHeadCovers ==
  ASSUME NEW len \in Nat, NEW h, TrueHead(h, len)
  PROVE  Covers(h, len)
<1> DEFINE b == h.BlockLength
           n == h.ChecksumCount
           r == h.RemainderLength
<1>1. /\ n \in Nat /\ b \in Nat \ {0} /\ r \in 0 .. b - 1
      /\ len = (IF r = 0 THEN n ELSE n - 1) * b + r
      /\ r # 0 => n >= 1
  BY TrueHeadNumbers
<1>2. \A i : /\ SumLen(h, i) = IF i = n - 1 /\ r # 0 THEN r ELSE b
            /\ CopyOffset(h, i) = i * b
  BY DEF SumLen, CopyOffset
<1> HIDE DEF b, n, r
<1>3. n = 0 <=> len = 0
  <2>1. CASE n = 0
    BY <1>1, <2>1
  <2>2. CASE n # 0 /\ r = 0
    <3>1. \A a, c \in Nat \ {0} : a * c > 0
      OBVIOUS
    <3> QED BY <1>1, <2>2, <3>1
  <2>3. CASE n # 0 /\ r # 0
    <3>1. \A a, c \in Nat : a * c >= 0
      OBVIOUS
    <3>2. (n - 1) * b >= 0
      BY <1>1, <2>3, <3>1
    <3> QED BY <1>1, <2>3, <3>2
  <2> QED BY <2>1, <2>2, <2>3
<1>4. ASSUME NEW i \in 0 .. n - 1
      PROVE  /\ SumLen(h, i) \in 1 .. b
             /\ CopyOffset(h, i) + SumLen(h, i) = IF i = n - 1 THEN len ELSE CopyOffset(h, i + 1)
  <2>1. (i + 1) * b = i * b + b
    BY <1>1
  <2>2. CASE i = n - 1 /\ r # 0
    BY <1>1, <1>2, <2>2
  <2>3. CASE i = n - 1 /\ r = 0
    <3>1. i + 1 = n /\ len = n * b
      BY <1>1, <2>3
    <3> QED BY <1>1, <1>2, <2>1, <2>3, <3>1
  <2>4. CASE i # n - 1
    BY <1>1, <1>2, <2>1, <2>4
  <2> QED BY <2>2, <2>3, <2>4
<1> QED BY <1>3, <1>4 DEF Covers, b, n

-----------------------------------------------------------------------------
(* SumSizesSqroot (rsynccommon.go:14), ReadFrom (types.go:38): the head of *)
(* a file that is short enough is not cut to 32 bits, is taken by the other*)
(* side, and its blocks are the file, whichever way the root was rounded.  *)
THEOREM HeadIsSound ==
  ASSUME NEW len \in Nat, NEW root \in Nat, IsRoot(root, len), len < MaxBlockLen * MaxBlockLen
  PROVE  /\ ReadFrom(SumSizesSqroot(len, root))
         /\ TrueHead(SumSizesSqroot(len, root), len)
         /\ Covers(SumSizesSqroot(len, root), len)
<1> DEFINE b == IF root > BlockSize THEN root ELSE BlockSize
           n == BlockCount(len, b)
           h == SumSizesSqroot(len, root)
<1>0. /\ BlockSize \in Nat \ {0} /\ MaxBlockLen \in Nat /\ Half \in Nat
      /\ BlockSize <= MaxBlockLen /\ MaxBlockLen + 3 < Half
  BY SumAssumption
<1>1. root <= MaxBlockLen
  BY RootIsShort
<1>2. b \in Nat \ {0} /\ b <= MaxBlockLen /\ root <= b
  BY <1>0, <1>1
<1>3. Int32(root) = root
  BY <1>0, <1>1, InRange
<1> HIDE DEF b
<1>4. len % b \in 0 .. b - 1 /\ Int32(len % b) = len % b
  <2>1. len % b \in 0 .. b - 1
    BY <1>2, Division
  <2>2. len % b \in Nat /\ len % b < Half
    BY <1>0, <1>2, <2>1
  <2> QED BY <2>1, <2>2, InRange
<1>5. n \in Nat /\ n <= b + 3
  <2> DEFINE q == len \div b
  <2>1. q \in Nat /\ len % b \in 0 .. b - 1 /\ len % b = len - b * q
    BY <1>2, Division
  <2>2. n = IF len % b = 0 THEN q ELSE q + 1
    BY <1>2, Counting
  <2> HIDE DEF q, n
  <2>3. b * q <= len
    BY <1>2, <2>1
  <2>4. len < (b + 1) * (b + 1)
    <3>1. \A x, y \in Nat : x <= y => x * x <= y * y
      OBVIOUS
    <3>2. (root + 1) * (root + 1) <= (b + 1) * (b + 1)
      BY <1>2, <3>1
    <3>3. len < (root + 1) * (root + 1)
      BY DEF IsRoot
    <3> QED BY <1>2, <3>2, <3>3
  <2>5. q <= b + 2
    <3> SUFFICES ASSUME q >= b + 3 PROVE FALSE
      BY <1>2, <2>1
    <3>1. \A x, y \in Nat : y >= x + 3 => x * y >= x * (x + 3)
      OBVIOUS
    <3>2. b * q >= b * (b + 3)
      BY <1>2, <2>1, <3>1
    <3>3. b * (b + 3) >= (b + 1) * (b + 1)
      BY <1>2
    <3> QED BY <1>2, <2>1, <2>3, <2>4, <3>2, <3>3
  <2> QED BY <1>2, <2>1, <2>2, <2>5
<1>6. Int32(n) = n
  <2>1. n < Half
    BY <1>0, <1>2, <1>5
  <2> QED BY <1>5, <2>1, InRange
<1>7. /\ h.BlockLength = b /\ h.ChecksumCount = n /\ h.RemainderLength = len % b
  <2>1. h = [ChecksumCount |-> Int32(n), RemainderLength |-> Int32(len % b), BlockLength |-> b]
    BY <1>3 DEF SumSizesSqroot, b
  <2> HIDE DEF h, n
  <2> QED BY <1>4, <1>6, <2>1
<1>8. TrueHead(h, len)
  BY <1>2, <1>7 DEF TrueHead
<1> HIDE DEF h, n
<1>9. ReadFrom(h)
  BY <1>0, <1>2, <1>4, <1>5, <1>7 DEF ReadFrom
<1> QED BY <1>8, <1>9, TrueHeadCovers DEF h

(* generateAndSendSums (generator.go:136), receiveSums (sender.go:130) and *)
(* receiveData (receiver.go:131) mean the same bytes by a block, if they do*)
(* so where it begins; and they begin the next at the same place.          *)
THEOREM NextBlockIsTheSame ==
  ASSUME NEW len \in Nat, NEW h, TrueHead(h, len), NEW i \in 0 .. h.ChecksumCount - 1,
         NEW remaining, remaining = len - CopyOffset(h, i)
  PROVE  /\ GeneratorReads(h, remaining) = SumLen(h, i)
         /\ i < h.ChecksumCount - 1 =>
              /\ remaining - GeneratorReads(h, remaining) = len - CopyOffset(h, i + 1)
              /\ CopyOffset(h, i) + SumLen(h, i) = CopyOffset(h, i + 1)
         /\ i = h.ChecksumCount - 1 => remaining = GeneratorReads(h, remaining)
<1> DEFINE b == h.BlockLength
           n == h.ChecksumCount
           r == h.RemainderLength
<1>1. /\ n \in Nat /\ b \in Nat \ {0} /\ r \in 0 .. b - 1
      /\ len = (IF r = 0 THEN n ELSE n - 1) * b + r
  BY TrueHeadNumbers
<1>2. /\ SumLen(h, i) = IF i = n - 1 /\ r # 0 THEN r ELSE b
      /\ \A j : CopyOffset(h, j) = j * b
      /\ GeneratorReads(h, remaining) = IF b < remaining THEN b ELSE remaining
  BY DEF SumLen, CopyOffset, GeneratorReads
<1> HIDE DEF b, n, r
<1>3. (i + 1) * b = i * b + b /\ i \in Nat
  BY <1>1
<1>4. CASE i = n - 1
  <2>1. remaining = IF r = 0 THEN b ELSE r
    <3>1. CASE r = 0
      <4>1. len = (i + 1) * b
        BY <1>1, <1>4, <3>1
      <4> QED BY <1>1, <1>2, <1>3, <3>1, <4>1
    <3>2. CASE r # 0
      BY <1>1, <1>2, <1>4, <3>2
    <3> QED BY <3>1, <3>2
  <2> QED BY <1>1, <1>2, <1>4, <2>1 DEF n
<1>5. CASE i < n - 1
  <2>1. remaining >= b /\ remaining \in Nat
    <3>1. \A x, y, z \in Nat : x <= y => x * z <= y * z
      OBVIOUS
    <3>2. (i + 1) * b <= len
      <4>1. (i + 1) * b <= (n - 1) * b
        BY <1>1, <1>5, <3>1
      <4>2. n * b = (n - 1) * b + b
        BY <1>1
      <4> QED BY <1>1, <1>3, <4>1, <4>2
    <3> QED BY <1>1, <1>2, <1>3, <3>2
  <2>2. GeneratorReads(h, remaining) = b
    BY <1>1, <1>2, <2>1
  <2> QED BY <1>1, <1>2, <1>3, <1>5, <2>1, <2>2 DEF n
<1> QED BY <1>1, <1>4, <1>5 DEF n

(* By induction over the blocks, the sums of the lengths before a block    *)
(* (sender) and what is left of the file (generator) are its offset in the *)
(* receiver's multiplication, so the three mean the same bytes throughout. *)
THEOREM SidesMeanTheSame ==
  ASSUME NEW len \in Nat, NEW h, TrueHead(h, len)
  PROVE  SidesAgree(h, len)
<1> DEFINE n == h.ChecksumCount
           f == [i \in 0 .. n |-> IF i = n THEN len ELSE CopyOffset(h, i)]
           rest == [i \in 0 .. n |-> len - f[i]]
           IsSum(g) == g = [i \in 0 .. n |-> IF i = 0 THEN 0 ELSE g[i - 1] + SumLen(h, i - 1)]
           IsRest(g) == g = [i \in 0 .. n |->
                               IF i = 0 THEN len ELSE g[i - 1] - GeneratorReads(h, g[i - 1])]
<1>1. n \in Nat /\ h.BlockLength \in Nat \ {0}
  BY TrueHeadNumbers
<1>2. Covers(h, len)
  BY TrueHeadCovers
<1>3. f[0] = 0 /\ rest[0] = len
  <2>1. CopyOffset(h, 0) = 0
    BY <1>1 DEF CopyOffset
  <2>2. n = 0 => len = 0
    BY <1>2 DEF Covers
  <2> HIDE DEF n
  <2> QED BY <1>1, <2>1, <2>2
<1>4. ASSUME NEW i \in 0 .. n - 1
      PROVE  /\ f[i] = CopyOffset(h, i) /\ f[i] \in Nat /\ SumLen(h, i) \in Nat
             /\ f[i + 1] = f[i] + SumLen(h, i)
             /\ GeneratorReads(h, rest[i]) = SumLen(h, i)
  <2>1. f[i] = CopyOffset(h, i) /\ f[i] \in Nat
    <3>1. i # n /\ i \in 0 .. n /\ i \in Nat
      BY <1>1
    <3>2. f[i] = CopyOffset(h, i)
      BY <3>1
    <3>3. i * h.BlockLength \in Nat
      BY <1>1, <3>1
    <3> QED BY <3>2, <3>3 DEF CopyOffset
  <2>2. /\ SumLen(h, i) \in 1 .. h.BlockLength
        /\ CopyOffset(h, i) + SumLen(h, i) = IF i = n - 1 THEN len ELSE CopyOffset(h, i + 1)
    BY <1>2 DEF Covers
  <2>3. f[i + 1] = IF i = n - 1 THEN len ELSE CopyOffset(h, i + 1)
    <3>1. i + 1 \in 0 .. n /\ (i + 1 = n <=> i = n - 1)
      BY <1>1
    <3> QED BY <3>1
  <2>4. GeneratorReads(h, len - CopyOffset(h, i)) = SumLen(h, i)
    BY NextBlockIsTheSame
  <2>5. rest[i] = len - CopyOffset(h, i)
    <3>1. i \in 0 .. n
      BY <1>1
    <3> HIDE DEF f
    <3> QED BY <2>1, <3>1
  <2>6. SumLen(h, i) \in Nat
    BY <1>1, <2>2
  <2> HIDE DEF f, rest, n
  <2> QED BY <2>1, <2>2, <2>3, <2>4, <2>5, <2>6
<1>5. ASSUME NEW i \in 1 .. n
      PROVE  /\ f[i] = f[i - 1] + SumLen(h, i - 1)
             /\ rest[i] = rest[i - 1] - GeneratorReads(h, rest[i - 1])
  <2>1. i - 1 \in 0 .. n - 1 /\ (i - 1) + 1 = i /\ i \in 0 .. n /\ i - 1 \in 0 .. n
    BY <1>1
  <2> HIDE DEF n
  <2>2. f[i] = f[i - 1] + SumLen(h, i - 1)
    <3> HIDE DEF f
    <3> QED BY <1>4, <2>1
  <2>3. rest[i] = len - f[i] /\ rest[i - 1] = len - f[i - 1]
    <3> HIDE DEF f
    <3> QED BY <2>1
  <2>4. /\ f[i - 1] \in Nat /\ SumLen(h, i - 1) \in Nat
        /\ GeneratorReads(h, rest[i - 1]) = SumLen(h, i - 1)
    <3> HIDE DEF f, rest
    <3> QED BY <1>4, <2>1
  <2> HIDE DEF f, rest
  <2> QED BY <2>2, <2>3, <2>4
<1>6. IsSum(f) /\ IsRest(rest)
  <2>1. \A i \in 0 .. n : i # 0 => i \in 1 .. n
    BY <1>1
  <2>2. f = [i \in 0 .. n |-> f[i]] /\ rest = [i \in 0 .. n |-> rest[i]]
    OBVIOUS
  <2> HIDE DEF f, rest, n
  <2> QED BY <1>3, <1>5, <2>1, <2>2
<1>7. IsSum(SumOffset(h)) /\ IsRest(Remaining(h, len))
  <2> DEFINE c == CHOOSE g : IsSum(g)
             d == CHOOSE g : IsRest(g)
  <2>1. SumOffset(h) = c /\ Remaining(h, len) = d
    BY Zenon DEF SumOffset, Remaining
  <2>2. IsSum(c) /\ IsRest(d)
    <3> HIDE DEF IsSum, IsRest
    <3> QED BY <1>6
  <2> HIDE DEF c, d
  <2> QED BY <2>1, <2>2
<1>8. PICK g : g = SumOffset(h)
  OBVIOUS
<1>9. PICK q : q = Remaining(h, len)
  OBVIOUS
<1>10. /\ g[0] = 0 /\ \A i \in 1 .. n : g[i] = g[i - 1] + SumLen(h, i - 1)
       /\ q[0] = len /\ \A i \in 1 .. n : q[i] = q[i - 1] - GeneratorReads(h, q[i - 1])
  <2>1. IsSum(g) /\ IsRest(q)
    BY <1>7, <1>8, <1>9
  <2>2. 0 \in 0 .. n /\ \A i \in 1 .. n : i \in 0 .. n /\ i # 0
    BY <1>1
  <2> HIDE DEF n
  <2> QED BY <2>1, <2>2
<1> HIDE DEF IsSum, IsRest
<1>11. \A i \in 0 .. n : g[i] = f[i]
  <2>1. \A i \in 1 .. n : g[i - 1] = f[i - 1] => g[i] = f[i]
    <3> HIDE DEF f, rest, n
    <3> QED BY <1>5, <1>10
  <2>2. n \in Nat /\ g[0] = f[0]
    <3> HIDE DEF f, rest, n
    <3> QED BY <1>1, <1>3, <1>10
  <2> HIDE DEF f, rest, n
  <2> QED BY <2>1, <2>2, Alike, ZenonT(60)
<1>12. \A i \in 0 .. n : q[i] = rest[i]
  <2>1. \A i \in 1 .. n : q[i - 1] = rest[i - 1] => q[i] = rest[i]
    <3> HIDE DEF f, rest, n
    <3> QED BY <1>5, <1>10
  <2>2. n \in Nat /\ q[0] = rest[0]
    <3> HIDE DEF f, rest, n
    <3> QED BY <1>1, <1>3, <1>10
  <2> HIDE DEF f, rest, n
  <2> QED BY <2>1, <2>2, Alike, ZenonT(60)
<1>13. ASSUME NEW i \in 0 .. n - 1
       PROVE  /\ g[i] = CopyOffset(h, i) /\ len - q[i] = CopyOffset(h, i)
              /\ GeneratorReads(h, q[i]) = SumLen(h, i)
  <2>1. i \in 0 .. n
    BY <1>1
  <2>2. g[i] = f[i] /\ q[i] = rest[i]
    BY <1>11, <1>12, <2>1
  <2>3. rest[i] = len - f[i]
    <3> HIDE DEF f
    <3> QED BY <2>1
  <2>4. f[i] = CopyOffset(h, i) /\ f[i] \in Nat /\ GeneratorReads(h, rest[i]) = SumLen(h, i)
    BY <1>4
  <2>5. len - rest[i] = f[i]
    <3> HIDE DEF f, rest
    <3> QED BY <2>3, <2>4
  <2> HIDE DEF f, rest
  <2> QED BY <2>2, <2>4, <2>5
<1> QED BY <1>8, <1>9, <1>13 DEF SidesAgree, n

-----------------------------------------------------------------------------
(* The window, of whatever file, for every sequence of requests.           *)

(* Aligning an offset never moves it below zero.                           *)
LEMMA Overshoot ==
  ASSUME NEW o \in Nat
  PROVE  /\ alignedOvershoot(o) \in Nat /\ alignedOvershoot(o) <= o
         /\ WindowStart(o) \in Nat /\ WindowStart(o) <= o
  BY MapAssumption, SMT DEF alignedOvershoot, WindowStart

(* Aligning a length gives no shorter length.                              *)
LEMMA Aligned ==
  ASSUME NEW n \in Int
  PROVE  alignedLength(n) \in Int /\ alignedLength(n) >= n
  BY MapAssumption, SMT DEF alignedLength

(* The sizes of a new window.                                              *)
LEMMA Sizes ==
  ASSUME NEW mp, MapTypes(mp), NEW o \in Nat, NEW l \in Int
  PROVE  LET start == WindowStart(o)
             size  == WindowSize(mp, o, l)
         IN  /\ start \in Nat
             /\ size \in Int /\ size >= l + alignedOvershoot(o)
             /\ Kept(mp, start, size) \in Nat
             /\ Kept(mp, start, size) > 0 =>
                  /\ start >= mp.pOffset
                  /\ Kept(mp, start, size) = mp.pOffset + mp.pLen - start
                  /\ Kept(mp, start, size) <= size
<1> DEFINE start  == WindowStart(o)
           size   == WindowSize(mp, o, l)
           wanted == l + alignedOvershoot(o)
<1>1. start \in Nat /\ alignedOvershoot(o) \in Nat
  BY Overshoot
<1>2. wanted \in Int /\ alignedLength(wanted) \in Int /\ alignedLength(wanted) >= wanted
  BY <1>1, Aligned
<1>3. size \in Int /\ size >= wanted
  BY <1>1, <1>2 DEF WindowSize, LesserOf, MapTypes
<1>4. QED
  BY <1>1, <1>3 DEF Kept, MapTypes

(* Moving the window keeps the fields of a mapStruct in their ranges.      *)
LEMMA LoadedTypes ==
  ASSUME NEW mp, MapTypes(mp), NEW o \in Nat, NEW l \in Int,
         NEW disk, disk.size \in Nat, \A i \in 0 .. disk.size - 1 : disk.at[i] \in Byte
  PROVE  MapTypes(Loaded(disk, mp, o, l))
<1> DEFINE start == WindowStart(o)
           size  == WindowSize(mp, o, l)
           kept  == Kept(mp, start, size)
           got   == GreaterOf(0, LesserOf(size - kept, disk.size - (start + kept)))
           large == GreaterOf(size, mp.pSize)
           new(i) == IF kept <= i /\ i < kept + got THEN disk.at[start + i]
                     ELSE Moved(mp, start, size, i)
           window == [i \in 0 .. large - 1 |-> new(i)]
<1>1. /\ start \in Nat /\ size \in Int /\ kept \in Nat
      /\ kept > 0 => start >= mp.pOffset /\ kept = mp.pOffset + mp.pLen - start /\ kept <= size
  BY Sizes
<1> HIDE DEF start, size, kept
<1>m. mp.pOffset \in Nat /\ mp.pSize \in Nat /\ mp.pLen \in Int /\ mp.pLen <= mp.pSize
  BY DEF MapTypes
<1>2. got \in Nat /\ large \in Nat /\ size <= large /\ got <= GreaterOf(0, disk.size - (start + kept))
  <2>1. size - kept \in Int /\ disk.size - (start + kept) \in Int
    BY <1>1
  <2>2. LesserOf(size - kept, disk.size - (start + kept)) \in Int
    BY <2>1 DEF LesserOf
  <2>3. LesserOf(size - kept, disk.size - (start + kept)) <= disk.size - (start + kept)
    BY <2>1 DEF LesserOf
  <2>4. got \in Nat /\ got <= GreaterOf(0, disk.size - (start + kept))
    BY <2>1, <2>2, <2>3 DEF GreaterOf
  <2>5. large \in Nat /\ size <= large
    BY <1>1, <1>m DEF GreaterOf
  <2>6. QED
    BY <2>4, <2>5
<1>3. ASSUME NEW i \in 0 .. large - 1
      PROVE  new(i) \in Byte
  <2>1. CASE kept <= i /\ i < kept + got
    <3>1. start + i \in 0 .. disk.size - 1
      BY <1>1, <1>2, <2>1 DEF GreaterOf
    <3>2. QED
      BY <2>1, <3>1
  <2>2. CASE ~(kept <= i /\ i < kept + got)
    <3>1. Moved(mp, start, size, i) \in Byte
      <4>1. CASE i < kept
        <5>1. start - mp.pOffset + i \in 0 .. mp.pSize - 1
          BY <1>1, <1>m, <4>1
        <5>2. QED
          BY <4>1, <5>1 DEF Moved, MapTypes, kept
      <4>2. CASE ~(i < kept)
        BY <4>2, <1>1, <1>2, MapAssumption DEF Moved, MapTypes, kept
      <4>3. QED
        BY <4>1, <4>2
    <3>2. QED
      BY <2>2, <3>1
  <2>3. QED
    BY <2>1, <2>2
<1>4. window \in [0 .. large - 1 -> Byte]
  BY <1>3
<1>5. Loaded(disk, mp, o, l) =
        [mp EXCEPT !.window = window, !.pSize = large, !.pOffset = start, !.pLen = size,
                   !.err = mp.err \/ got < size - kept]
  BY DEF Loaded, start, size, kept
<1> HIDE DEF window, large, got
<1>6. mp.err \in BOOLEAN /\ (got < size - kept) \in BOOLEAN
  BY DEF MapTypes
<1>7. window \in UNION {[0 .. n - 1 -> Byte] : n \in Nat}
  BY <1>2, <1>4
<1>8. QED
  BY <1>1, <1>2, <1>4, <1>5, <1>6, <1>7 DEF MapTypes

(* A window that was read without an error shows the file, whatever the    *)
(* old window kept and wherever the new one starts.                        *)
LEMMA LoadedFaithful ==
  ASSUME NEW mp, MapTypes(mp), NEW o \in Nat, NEW l \in Int,
         NEW disk, NEW f, disk.size \in Nat,
         \A i \in 0 .. disk.size - 1 : disk.at[i] = f[i],
         ~mp.err => Faithful(mp, f),
         ~Loaded(disk, mp, o, l).err
  PROVE  Faithful(Loaded(disk, mp, o, l), f)
<1> DEFINE start == WindowStart(o)
           size  == WindowSize(mp, o, l)
           kept  == Kept(mp, start, size)
           got   == GreaterOf(0, LesserOf(size - kept, disk.size - (start + kept)))
           large == GreaterOf(size, mp.pSize)
           new(i) == IF kept <= i /\ i < kept + got THEN disk.at[start + i]
                     ELSE Moved(mp, start, size, i)
           window == [i \in 0 .. large - 1 |-> new(i)]
<1>1. /\ start \in Nat /\ size \in Int /\ kept \in Nat
      /\ kept > 0 => start >= mp.pOffset /\ kept = mp.pOffset + mp.pLen - start /\ kept <= size
  BY Sizes
<1> HIDE DEF start, size, kept
<1>m. mp.pOffset \in Nat /\ mp.pSize \in Nat /\ mp.pLen \in Int /\ mp.pLen <= mp.pSize
  BY DEF MapTypes
<1>2. /\ Loaded(disk, mp, o, l).window = window
      /\ Loaded(disk, mp, o, l).pOffset = start
      /\ Loaded(disk, mp, o, l).pLen = size
      /\ Loaded(disk, mp, o, l).err = (mp.err \/ got < size - kept)
  <2>1. Loaded(disk, mp, o, l) =
          [mp EXCEPT !.window = window, !.pSize = large, !.pOffset = start, !.pLen = size,
                     !.err = mp.err \/ got < size - kept]
    BY DEF Loaded, start, size, kept
  <2> HIDE DEF window, large, got
  <2>2. QED
    BY <2>1 DEF MapTypes
<1>3. ~mp.err /\ ~(got < size - kept)
  BY <1>2
<1>4. large \in Nat /\ size <= large
  BY <1>1 DEF GreaterOf, MapTypes
<1>5. ASSUME NEW i \in 0 .. size - 1
      PROVE  new(i) = f[start + i]
  <2>1. CASE i < kept
    <3>1. start - mp.pOffset + i \in 0 .. mp.pLen - 1
      BY <1>1, <1>m, <2>1
    <3>2. mp.window[start - mp.pOffset + i] = f[mp.pOffset + (start - mp.pOffset + i)]
      BY <1>3, <3>1 DEF Faithful
    <3>3. mp.pOffset + (start - mp.pOffset + i) = start + i
      BY <1>1, <1>m
    <3>4. QED
      BY <1>1, <2>1, <3>2, <3>3 DEF Moved, kept
  <2>2. CASE ~(i < kept)
    <3>1. i < kept + got /\ start + i \in 0 .. disk.size - 1
      BY <1>1, <1>3, <2>2 DEF GreaterOf, LesserOf
    <3>2. QED
      BY <1>1, <2>2, <3>1
  <2>3. QED
    BY <2>1, <2>2
<1>6. \A i \in 0 .. size - 1 : window[i] = f[start + i]
  BY <1>1, <1>4, <1>5
<1> HIDE DEF window, large, got
<1>7. QED
  BY <1>2, <1>3, <1>6 DEF Faithful

(* A call of ptr keeps the fields in their ranges, and a window that shows *)
(* the file goes on showing it as long as no read fails.                   *)
LEMMA PtrKeeps ==
  ASSUME NEW mp, MapTypes(mp), NEW o \in Nat, NEW l \in Int,
         NEW disk, NEW f, disk.size \in Nat,
         \A i \in 0 .. disk.size - 1 : disk.at[i] = f[i] /\ f[i] \in Byte,
         ~mp.err => Faithful(mp, f)
  PROVE  LET next == PtrState(disk, mp, o, l)
         IN  MapTypes(next) /\ (~next.err => Faithful(next, f))
<1>1. MapTypes(Loaded(disk, mp, o, l))
  BY LoadedTypes
<1>2. ~Loaded(disk, mp, o, l).err => Faithful(Loaded(disk, mp, o, l), f)
  BY LoadedFaithful
<1>3. QED
  BY <1>1, <1>2 DEF PtrState

(* ptr returns the bytes it is asked for, out of the old window or the new *)
(* one, as long as no read has failed.                                     *)
THEOREM PtrExact ==
  ASSUME NEW mp, MapTypes(mp), NEW o \in Nat, NEW l \in Nat,
         NEW disk, NEW f, disk.size \in Nat,
         \A i \in 0 .. disk.size - 1 : disk.at[i] = f[i] /\ f[i] \in Byte,
         ~mp.err => Faithful(mp, f),
         ~PtrState(disk, mp, o, l).err
  PROVE  ptr(disk, mp, o, l) = Slice(f, o, l)
<1>m. mp.pOffset \in Nat /\ mp.pSize \in Nat /\ mp.pLen \in Int /\ mp.pLen <= mp.pSize
  BY DEF MapTypes
<1>1. CASE l = 0
  BY <1>1 DEF ptr, Nil, Slice
<1>2. CASE l > 0 /\ Available(mp, o, l)
  <2>1. ptr(disk, mp, o, l) = Slice(mp.window, o - mp.pOffset, l) /\ ~mp.err
    BY <1>2 DEF ptr, PtrState
  <2>2. ASSUME NEW i \in 0 .. l - 1
        PROVE  mp.window[o - mp.pOffset + i] = f[o + i]
    <3>1. o - mp.pOffset + i \in 0 .. mp.pLen - 1
      BY <1>m, <1>2 DEF Available
    <3>2. mp.pOffset + (o - mp.pOffset + i) = o + i
      BY <1>m
    <3>3. QED
      BY <2>1, <3>1, <3>2 DEF Faithful
  <2>3. QED
    BY <2>1, <2>2 DEF Slice
<1>3. CASE l > 0 /\ ~Available(mp, o, l)
  <2> DEFINE start == WindowStart(o)
             size  == WindowSize(mp, o, l)
             kept  == Kept(mp, start, size)
             got   == GreaterOf(0, LesserOf(size - kept, disk.size - (start + kept)))
             next  == Loaded(disk, mp, o, l)
  <2>1. PtrState(disk, mp, o, l) = next /\ ~next.err
    BY <1>3 DEF PtrState
  <2>2. Faithful(next, f)
    BY <2>1, LoadedFaithful
  <2>3. /\ start \in Nat /\ size \in Int /\ size >= l + alignedOvershoot(o)
        /\ kept \in Nat /\ alignedOvershoot(o) \in Nat
        /\ start + alignedOvershoot(o) = o
    BY Sizes, Overshoot DEF WindowStart
  <2>4. next.pOffset = start /\ next.pLen = size /\ next.err = (mp.err \/ got < size - kept)
    <3> DEFINE large  == GreaterOf(size, mp.pSize)
               window == [i \in 0 .. large - 1 |->
                            IF kept <= i /\ i < kept + got THEN disk.at[start + i]
                            ELSE Moved(mp, start, size, i)]
    <3>1. next = [mp EXCEPT !.window = window, !.pSize = large, !.pOffset = start,
                            !.pLen = size, !.err = mp.err \/ got < size - kept]
      BY DEF Loaded
    <3> HIDE DEF window, large, start, size, kept, got, next
    <3>2. QED
      BY <3>1 DEF MapTypes
  <2>5. ~ReadFails(disk, mp, o, l)
    <3>1. ~(got < size - kept)
      BY <2>1, <2>4
    <3> HIDE DEF start, size, kept
    <3>2. ~(start + kept < start + size /\ disk.size < start + size)
      BY <2>3, <3>1 DEF GreaterOf, LesserOf
    <3>3. QED
      BY <3>2 DEF ReadFails, start, size, kept
  <2>6. ptr(disk, mp, o, l) = Slice(next.window, alignedOvershoot(o), l)
    BY <1>3, <2>5 DEF ptr
  <2> HIDE DEF start, size, kept, got, next
  <2>7. ASSUME NEW i \in 0 .. l - 1
        PROVE  next.window[alignedOvershoot(o) + i] = f[o + i]
    <3>1. alignedOvershoot(o) + i \in 0 .. next.pLen - 1
      BY <2>3, <2>4
    <3>2. next.pOffset + (alignedOvershoot(o) + i) = o + i
      BY <2>3, <2>4
    <3>3. QED
      BY <2>2, <3>1, <3>2 DEF Faithful
  <2>8. QED
    BY <2>6, <2>7 DEF Slice
<1>4. QED
  BY <1>1, <1>2, <1>3

-----------------------------------------------------------------------------
(* The first invariant: every offset the search asks for is a natural      *)
(* number, what is left of the file is as it was, and the window shows it. *)
InputTypes ==
  /\ source \in Seq(Byte) /\ copy \in Seq(Byte) \ {<<>>} /\ B \in Nat \ {0}
  /\ file.size \in 0 .. fileSize
  /\ \A i \in 0 .. file.size - 1 : file.at[i] = AsFile(source)[i]

SearchTypes ==
  /\ offset \in Nat /\ k \in Int
  /\ lastMatch \in Nat /\ upto \in Nat /\ done \in Nat /\ token \in Int

WindowInv == InputTypes /\ SearchTypes /\ MapTypes(ms) /\ WindowFaithful

(* A block is never empty.                                                 *)
LEMMA BlockLenPositive ==
  ASSUME InputTypes, NEW i \in Int
  PROVE  BlockLen(i) \in Nat \ {0}
  BY SMT DEF InputTypes, BlockLen, SumLen, head, Count, BlockCount

(* LesserOf and GreaterOf of integers.                                     *)
LEMMA Bounds ==
  ASSUME NEW x \in Int, NEW y \in Int
  PROVE  /\ LesserOf(x, y) \in {x, y} /\ LesserOf(x, y) <= x /\ LesserOf(x, y) <= y
         /\ GreaterOf(x, y) \in {x, y} /\ GreaterOf(x, y) >= x /\ GreaterOf(x, y) >= y
  BY DEF LesserOf, GreaterOf

(* The file as it was holds what is left of it.                            *)
LEMMA SourceBytes ==
  ASSUME InputTypes
  PROVE  /\ file.size \in Nat /\ fileSize \in Nat
         /\ \A i \in 0 .. file.size - 1 :
              file.at[i] = AsFile(source)[i] /\ AsFile(source)[i] \in Byte
<1>1. fileSize \in Nat /\ file.size \in Nat
  BY DEF InputTypes, fileSize
<1>2. ASSUME NEW i \in 0 .. file.size - 1
      PROVE  AsFile(source)[i] \in Byte
  BY DEF InputTypes, AsFile, fileSize
<1>3. QED
  BY <1>1, <1>2 DEF InputTypes

(* Any call of ptr at a natural offset keeps the window faithful.          *)
LEMMA CallKeeps ==
  ASSUME WindowInv, NEW o \in Nat, NEW l \in Int,
         ms' = PtrState(file, ms, o, l), UNCHANGED source
  PROVE  MapTypes(ms)' /\ WindowFaithful'
<1>1. /\ MapTypes(PtrState(file, ms, o, l))
      /\ ~PtrState(file, ms, o, l).err => Faithful(PtrState(file, ms, o, l), AsFile(source))
  BY SourceBytes, PtrKeeps DEF WindowInv, WindowFaithful
<1>2. AsFile(source)' = AsFile(source)
  BY DEF AsFile
<1>3. QED
  BY <1>1, <1>2 DEF WindowFaithful, MapTypes, Faithful

(* Nothing of the window is touched.                                       *)
LEMMA NoCallKeeps ==
  ASSUME WindowInv, UNCHANGED <<ms, source>>
  PROVE  MapTypes(ms)' /\ WindowFaithful'
  BY DEF WindowInv, WindowFaithful, MapTypes, Faithful, AsFile

(* Nothing of the inputs is touched.                                       *)
LEMMA InputsKept ==
  ASSUME InputTypes, UNCHANGED <<source, copy, B, file>>
  PROVE  InputTypes'
  BY DEF InputTypes, fileSize, AsFile

(* The inductive invariant holds at the start.                             *)
LEMMA WindowInit == Init => WindowInv
<1> SUFFICES ASSUME Init PROVE WindowInv
  OBVIOUS
<1>1. source \in Seq(Byte) /\ copy \in Seq(Byte) \ {<<>>} /\ B \in Nat \ {0} /\ ReadSize \in Nat
  BY SearchAssumption DEF Init
<1>2. InputTypes
  BY <1>1 DEF Init, InputTypes, fileSize
<1>3. SearchTypes
  BY DEF Init, SearchTypes
<1>4. fileSize \in Nat
  BY <1>1 DEF fileSize
<1>5. GreaterOf(3 * B, ReadSize) \in Int
  BY <1>1, Bounds
<1>6. RoundedUp(GreaterOf(3 * B, ReadSize), B) \in Int
  BY <1>1, <1>5, SMT DEF RoundedUp
<1>7. ms.defWindowSize \in Int /\ ms.pOffset = 0 /\ ms.pLen = 0 /\ ms.pSize = 0
      /\ ms.window = Nil /\ ms.err = FALSE /\ ms.fileSize = fileSize
  BY <1>6, Aligned DEF Init, mapFile
<1>8. Nil \in [0 .. 0 - 1 -> Byte]
  BY DEF Nil, Slice
<1>9. MapTypes(ms)
  <2>2. ms.window \in [0 .. ms.pSize - 1 -> Byte] /\ ms.pLen <= ms.pSize
    BY <1>7, <1>8
  <2> DEFINE size == alignedLength(RoundedUp(GreaterOf(3 * B, ReadSize), B))
  <2>3. ms = [fileSize |-> fileSize, defWindowSize |-> size, pOffset |-> 0, pLen |-> 0,
              pSize |-> 0, window |-> Nil, err |-> FALSE]
    BY DEF Init, mapFile
  <2>4. size \in Int
    BY <1>6, Aligned
  <2>5. Nil \in UNION {[0 .. n - 1 -> Byte] : n \in Nat}
    BY <1>8
  <2> HIDE DEF size
  <2>6. ms \in [fileSize : Nat, defWindowSize : Int, pOffset : Nat, pLen : Int, pSize : Nat,
               window : UNION {[0 .. n - 1 -> Byte] : n \in Nat}, err : BOOLEAN]
    BY <1>4, <2>3, <2>4, <2>5
  <2>7. QED
    BY <2>2, <2>6 DEF MapTypes
<1>10. WindowFaithful
  BY <1>7 DEF WindowFaithful, Faithful
<1>11. QED
  BY <1>2, <1>3, <1>9, <1>10 DEF WindowInv

(* Every step of the search keeps it.                                      *)
LEMMA WindowStep == WindowInv /\ [Next]_vars => WindowInv'
<1> SUFFICES ASSUME WindowInv, [Next]_vars PROVE WindowInv'
  OBVIOUS
<1>t. /\ InputTypes /\ SearchTypes
      /\ B \in Nat \ {0} /\ fileSize \in Nat /\ ChunkSize \in Nat \ {0}
  BY SearchAssumption DEF WindowInv, InputTypes, fileSize
<1>b. ASSUME NEW o \in Nat
      PROVE  LesserOf(B, fileSize - o) \in Int
  BY <1>t, Bounds
<1>1. CASE Start
  <2>1. LesserOf(B, fileSize - 0) \in Int
    BY <1>b
  <2>2. MapTypes(ms)' /\ WindowFaithful'
    BY <1>1, <2>1, CallKeeps DEF Start, ReadChunk, inputVars
  <2>3. InputTypes'
    BY <1>1, <1>t, InputsKept DEF Start, inputVars
  <2>4. SearchTypes'
    BY <1>1, <1>t, <2>1 DEF Start, ReadChunk, matchedVars, SearchTypes
  <2>5. QED
    BY <2>2, <2>3, <2>4 DEF WindowInv
<1>2. CASE Probe
  <2>1. offset \in Nat /\ LesserOf(B, fileSize - offset) \in Int
    BY <1>t, <1>b DEF SearchTypes
  <2>2. MapTypes(ms)' /\ WindowFaithful'
    <3>1. CASE SameSum = {}
      BY <1>2, <3>1, NoCallKeeps DEF Probe, inputVars
    <3>2. CASE SameSum # {}
      <4>1. ms' = PtrState(file, ms, offset, LesserOf(B, fileSize - offset))
        BY <1>2, <3>2 DEF Probe
      <4>2. QED
        BY <1>2, <2>1, <4>1, CallKeeps DEF Probe, inputVars
    <3>3. QED
      BY <3>1, <3>2
  <2>3. InputTypes'
    BY <1>2, <1>t, InputsKept DEF Probe, inputVars
  <2>4. SearchTypes'
    <3>1. \A i \in SameSum : i \in Int
      BY <1>t DEF SameSum, Count, BlockCount, InputTypes
    <3>2. \/ UNCHANGED matchedVars
          \/ \E i \in SameSum : CallMatched(offset, i, "advance")
      BY <1>2 DEF Probe
    <3>3. UNCHANGED searchVars
      BY <1>2 DEF Probe
    <3>4. QED
      BY <1>t, <3>1, <3>2, <3>3 DEF CallMatched, matchedVars, searchVars, SearchTypes
  <2>5. QED
    BY <2>2, <2>3, <2>4 DEF WindowInv
<1>3. CASE Advance
  <2> DEFINE o == offset + BlockLen(token) - 1
  <2>1. o \in Nat
    BY <1>t, BlockLenPositive DEF SearchTypes
  <2>2. LesserOf(B, fileSize - o) \in Int
    BY <2>1, <1>b
  <2>3. ReadChunk(o) /\ UNCHANGED <<inputVars, file, matchedVars>>
    BY <1>3 DEF Advance
  <2> HIDE DEF o
  <2>4. MapTypes(ms)' /\ WindowFaithful'
    BY <2>1, <2>2, <2>3, CallKeeps DEF ReadChunk, inputVars
  <2>5. InputTypes'
    BY <2>3, <1>t, InputsKept DEF inputVars
  <2>6. SearchTypes'
    BY <1>t, <2>1, <2>2, <2>3 DEF ReadChunk, matchedVars, SearchTypes
  <2>7. QED
    BY <2>4, <2>5, <2>6 DEF WindowInv
<1>4. CASE Roll
  <2> DEFINE backup == GreaterOf(offset - lastMatch, 0)
             more   == offset + k < fileSize
             length == k + (IF more THEN 1 ELSE 0) + backup
             o      == offset - backup
  <2>1. backup \in Nat /\ o \in Nat /\ length \in Int
        /\ (backup > 0 => backup = offset - lastMatch)
    BY <1>t DEF SearchTypes, GreaterOf
  <2>2. ms' = PtrState(file, ms, o, length) /\ UNCHANGED <<inputVars, file>>
    BY <1>4 DEF Roll
  <2>3. \/ UNCHANGED <<searchVars, matchedVars>>
        \/ /\ k' = Shrunk(more) /\ UNCHANGED offset
           /\ \/ FlushNow(backup) /\ CallMatched(FlushTo, -2, "step")
              \/ UNCHANGED matchedVars
    BY <1>4 DEF Roll
  <2> HIDE DEF o, length, backup
  <2>4. MapTypes(ms)' /\ WindowFaithful'
    BY <2>1, <2>2, CallKeeps DEF inputVars
  <2>5. InputTypes'
    BY <2>2, <1>t, InputsKept DEF inputVars
  <2>6. FlushNow(backup) => FlushTo \in Nat
    BY <1>t, <2>1 DEF FlushNow, FlushTo, SearchTypes
  <2>7. Shrunk(more) \in Int
    BY <1>t DEF Shrunk, SearchTypes
  <2> HIDE DEF more
  <2>8. SearchTypes'
    BY <1>t, <2>3, <2>6, <2>7 DEF CallMatched, matchedVars, searchVars, SearchTypes
  <2>9. QED
    BY <2>4, <2>5, <2>8 DEF WindowInv
<1>5. CASE Step
  <2>1. MapTypes(ms)' /\ WindowFaithful'
    BY <1>5, NoCallKeeps DEF Step, inputVars
  <2>2. InputTypes'
    BY <1>5, <1>t, InputsKept DEF Step, inputVars
  <2>3. SearchTypes'
    BY <1>5, <1>t DEF Step, matchedVars, SearchTypes
  <2>4. QED
    BY <2>1, <2>2, <2>3 DEF WindowInv
<1>6. CASE Rest
  <2>1. MapTypes(ms)' /\ WindowFaithful'
    BY <1>6, NoCallKeeps DEF Rest, inputVars
  <2>2. InputTypes'
    BY <1>6, <1>t, InputsKept DEF Rest, inputVars
  <2>3. SearchTypes'
    BY <1>6, <1>t DEF Rest, CallMatched, searchVars, SearchTypes
  <2>4. QED
    BY <2>1, <2>2, <2>3 DEF WindowInv
<1>7. CASE SendLiteral
  <2> DEFINE n == LesserOf(ChunkSize, n0 - done)
             o == lastMatch + done
  <2>1. o \in Nat /\ n \in Int /\ done + n \in Nat
    BY <1>7, <1>t DEF SendLiteral, n0, LesserOf, SearchTypes
  <2>2. /\ ms' = PtrState(file, ms, o, n) /\ done' = done + n
        /\ UNCHANGED <<inputVars, file, searchVars, lastMatch, upto, token>>
    BY <1>7 DEF SendLiteral
  <2> HIDE DEF n, o
  <2>3. MapTypes(ms)' /\ WindowFaithful'
    BY <2>1, <2>2, CallKeeps DEF inputVars
  <2>4. InputTypes'
    BY <2>2, <1>t, InputsKept DEF inputVars
  <2>5. SearchTypes'
    BY <1>t, <2>1, <2>2 DEF searchVars, SearchTypes
  <2>6. QED
    BY <2>3, <2>4, <2>5 DEF WindowInv
<1>8. CASE SendToken
  <2>1. MapTypes(ms)' /\ WindowFaithful'
    BY <1>8, NoCallKeeps DEF SendToken, inputVars
  <2>2. InputTypes'
    BY <1>8, <1>t, InputsKept DEF SendToken, inputVars
  <2>3. SearchTypes'
    BY <1>8, <1>t DEF SendToken, searchVars, SearchTypes
  <2>4. QED
    BY <2>1, <2>2, <2>3 DEF WindowInv
<1>9. CASE HashChunk
  <2> DEFINE n == LesserOf(ChunkSize, n1 - done)
             o == lastMatch + done
  <2>1. BlockLen(token) \in Nat
    BY <1>t, BlockLenPositive DEF SearchTypes
  <2>2. n1 \in Int
    BY <1>t, <2>1 DEF n0, n1, SearchTypes
  <2>3. o \in Nat /\ n \in Int /\ done + ChunkSize \in Nat
    BY <1>t, <2>2 DEF LesserOf, SearchTypes
  <2>4. /\ ms' = PtrState(file, ms, o, n) /\ done' = done + ChunkSize
        /\ UNCHANGED <<inputVars, file, searchVars, lastMatch, upto, token>>
    BY <1>9 DEF HashChunk
  <2> HIDE DEF n, o
  <2>5. MapTypes(ms)' /\ WindowFaithful'
    BY <2>3, <2>4, CallKeeps DEF inputVars
  <2>6. InputTypes'
    BY <2>4, <1>t, InputsKept DEF inputVars
  <2>7. SearchTypes'
    BY <1>t, <2>3, <2>4 DEF searchVars, SearchTypes
  <2>8. QED
    BY <2>5, <2>6, <2>7 DEF WindowInv
<1>10. CASE Matched
  <2>1. MatchEnd \in Nat
    <3>1. BlockLen(token) \in Nat
      BY <1>t, BlockLenPositive DEF SearchTypes
    <3>2. QED
      BY <3>1, <1>t DEF MatchEnd, SearchTypes
  <2>2. MapTypes(ms)' /\ WindowFaithful'
    BY <1>10, NoCallKeeps DEF Matched, inputVars
  <2>3. InputTypes'
    BY <1>10, <1>t, InputsKept DEF Matched, inputVars
  <2>4. SearchTypes'
    BY <1>10, <1>t, <2>1 DEF Matched, searchVars, SearchTypes
  <2>5. QED
    BY <2>2, <2>3, <2>4 DEF WindowInv
<1>11. CASE Truncate
  <2>1. PICK n \in 0 .. fileSize - 1 : file' = [size |-> n, at |-> Slice(file.at, 0, n)]
    BY <1>11 DEF Truncate
  <2>2. UNCHANGED <<inputVars, ms, searchVars, matchedVars>> /\ file.size = fileSize
    BY <1>11 DEF Truncate
  <2>3. InputTypes'
    <3>1. file'.size = n /\ n \in 0 .. fileSize /\ fileSize' = fileSize
      BY <1>t, <2>1, <2>2 DEF inputVars, fileSize
    <3>2. ASSUME NEW i \in 0 .. n - 1
          PROVE  file'.at[i] = AsFile(source)[i]
      <4>1. file'.at[i] = file.at[0 + i]
        BY <2>1 DEF Slice
      <4>2. i \in 0 .. file.size - 1
        BY <1>t, <2>2
      <4>3. QED
        BY <1>t, <4>1, <4>2 DEF InputTypes
    <3>3. QED
      BY <1>t, <2>2, <3>1, <3>2 DEF InputTypes, inputVars, AsFile
  <2>4. SearchTypes'
    BY <1>t, <2>2 DEF searchVars, matchedVars, SearchTypes
  <2>5. MapTypes(ms)' /\ WindowFaithful'
    BY <2>2, NoCallKeeps DEF inputVars
  <2>6. QED
    BY <2>3, <2>4, <2>5 DEF WindowInv
<1>12. CASE UNCHANGED vars
  <2>1. MapTypes(ms)' /\ WindowFaithful'
    BY <1>12, NoCallKeeps DEF vars, inputVars
  <2>2. InputTypes'
    BY <1>12, <1>t, InputsKept DEF vars, inputVars
  <2>3. SearchTypes'
    BY <1>12, <1>t DEF vars, searchVars, matchedVars, SearchTypes
  <2>4. QED
    BY <2>1, <2>2, <2>3 DEF WindowInv
<1>13. QED
  BY <1>1, <1>2, <1>3, <1>4, <1>5, <1>6, <1>7, <1>8, <1>9, <1>10, <1>11, <1>12
  DEF Next, Search

(* As long as no read has failed, the window shows the file as it was when *)
(* it was opened: literals, strong checksums, the rolling update and the   *)
(* md4 all see the same bytes, however ptr has moved its window.           *)
THEOREM WindowNeverLies == Spec => []WindowFaithful
<1>1. Init => WindowInv
  BY WindowInit
<1>2. WindowInv /\ [Next]_vars => WindowInv'
  BY WindowStep
<1>3. WindowInv => WindowFaithful
  BY DEF WindowInv
<1>4. QED
  BY <1>1, <1>2, <1>3, PTL DEF Spec

-----------------------------------------------------------------------------
(* Where the search is, and how much it has not handed on.                 *)
Backlog == offset - lastMatch
Calling == pc \in {"literal", "hash"}

(* What is handed to matched for each of the three places it returns to,   *)
(* and what the search has found there.                                    *)
Called ==
  /\ Calling => after \in {"step", "advance", "sum"}
  /\ Calling /\ after = "step" => token = -2 /\ upto = offset - B
  /\ Calling /\ after = "sum" => token = -1 /\ upto = fileSize
  /\ Calling /\ after = "advance" => token \in Nat /\ upto = offset
  /\ pc = "advance" => lastMatch = offset + BlockLen(token)
  /\ pc = "advance" \/ (Calling /\ after = "advance") => BlockLen(token) <= fileSize - offset

(* The window ends where the file does, and is not empty but in an empty   *)
(* file.                                                                   *)
Positioned ==
  /\ offset <= fileSize
  /\ pc = "start" => offset = 0 /\ lastMatch = 0
  /\ pc \in {"probe", "roll"} => /\ k = LesserOf(B, fileSize - offset)
                                 /\ offset < fileSize \/ source = <<>>
  /\ pc = "step" \/ (Calling /\ after = "step") =>
       /\ offset < fileSize /\ k = LesserOf(B, fileSize - (offset + 1))
  /\ pc = "panic" => ms.err \/ source = <<>>

(* The backlog is short, or so close to the end that only ChunkSize bytes  *)
(* can still be added to it.                                               *)
Backlogged ==
  /\ BacklogBounded
  /\ pc \in {"probe", "roll"} =>
       /\ offset < end \/ Backlog <= 0
       /\ Backlog <= B + ChunkSize \/ Backlog + (end - offset) <= B + 2 * ChunkSize
  /\ pc = "step" =>
       Backlog < B + ChunkSize \/ (offset < end /\ Backlog + (end - offset) <= B + 2 * ChunkSize)

SearchInv == Called /\ Positioned /\ Backlogged

(* Block lengths and the end of the search, as numbers.                    *)
LEMMA Numbers ==
  ASSUME InputTypes
  PROVE  /\ B \in Nat \ {0} /\ ChunkSize \in Nat \ {0} /\ fileSize \in Nat
         /\ end \in Int /\ end <= fileSize
         /\ \A i \in Int : BlockLen(i) \in Nat \ {0}
         /\ source = <<>> <=> fileSize = 0
<1>1. B \in Nat \ {0} /\ ChunkSize \in Nat \ {0} /\ fileSize \in Nat
  BY SearchAssumption DEF InputTypes, fileSize
<1>2. \A i \in Int : BlockLen(i) \in Nat \ {0}
  BY BlockLenPositive
<1>3. Count \in Int
  BY <1>1 DEF Count, BlockCount, InputTypes
<1>4. BlockLen(Count - 1) \in Nat \ {0}
  BY <1>2, <1>3
<1>5. end \in Int /\ end <= fileSize
  BY <1>1, <1>4 DEF end
<1>6. source = <<>> <=> fileSize = 0
  BY DEF InputTypes, fileSize
<1> QED BY <1>1, <1>2, <1>5, <1>6

(* They stay what they are.                                                *)
LEMMA NumbersKept ==
  ASSUME UNCHANGED inputVars
  PROVE  /\ fileSize' = fileSize /\ end' = end /\ B' = B /\ (source = <<>>)' = (source = <<>>)
         /\ token' = token => BlockLen(token)' = BlockLen(token)
         /\ token' \in Int => BlockLen(token)' = BlockLen(token')
  BY DEF inputVars, fileSize, end, BlockLen, SumLen, head, Count, BlockCount

(* The slice that ptr returns is never longer than asked for, and as long  *)
(* while no read has failed.                                               *)
LEMMA SliceLength ==
  ASSUME WindowInv, NEW o \in Nat, NEW l \in Int
  PROVE  /\ \A i \in DOMAIN ptr(file, ms, o, l) : i \in 0 .. l - 1
         /\ l >= 0 /\ ~PtrState(file, ms, o, l).err => DOMAIN ptr(file, ms, o, l) = 0 .. l - 1
<1>1. \A i \in DOMAIN ptr(file, ms, o, l) : i \in 0 .. l - 1
  BY DEF ptr, Nil, Slice
<1>2. ASSUME l >= 0, ~PtrState(file, ms, o, l).err
      PROVE  DOMAIN ptr(file, ms, o, l) = 0 .. l - 1
  <2>1. l \in Nat
    BY <1>2
  <2>2. InputTypes /\ MapTypes(ms) /\ (~ms.err => Faithful(ms, AsFile(source)))
    BY DEF WindowInv, WindowFaithful
  <2>3. /\ file.size \in Nat
        /\ \A i \in 0 .. file.size - 1 :
             file.at[i] = AsFile(source)[i] /\ AsFile(source)[i] \in Byte
    BY <2>2, SourceBytes
  <2>4. ptr(file, ms, o, l) = Slice(AsFile(source), o, l)
    BY <1>2, <2>1, <2>2, <2>3, PtrExact
  <2> QED BY <2>4 DEF Slice
<1> QED BY <1>1, <1>2

(* The place of the search holds at the start.                             *)
LEMMA SearchStart == Init => SearchInv
<1> SUFFICES ASSUME Init PROVE SearchInv
  OBVIOUS
<1>1. pc = "start" /\ offset = 0 /\ lastMatch = 0 /\ InputTypes
  BY WindowInit DEF Init, WindowInv
<1> QED BY <1>1, Numbers DEF SearchInv, Called, Positioned, Backlogged, BacklogBounded, Backlog, Calling

(* And it is kept by every step.                                           *)
LEMMA SearchStep == WindowInv /\ SearchInv /\ [Next]_vars => SearchInv'
<1> SUFFICES ASSUME WindowInv, SearchInv, [Next]_vars PROVE SearchInv'
  OBVIOUS
<1>t. /\ B \in Nat \ {0} /\ ChunkSize \in Nat \ {0} /\ fileSize \in Nat
      /\ end \in Int /\ end <= fileSize /\ (source = <<>> <=> fileSize = 0)
      /\ offset \in Nat /\ lastMatch \in Nat /\ upto \in Nat /\ k \in Int /\ token \in Int
  BY Numbers DEF WindowInv, SearchTypes
<1>l. \A i \in Int : BlockLen(i) \in Nat \ {0}
  BY Numbers DEF WindowInv
<1>i. /\ Called /\ Positioned /\ Backlogged
  BY DEF SearchInv
<1> USE DEF Calling
<1>1. CASE Start
  <2>1. /\ pc = "start" /\ pc' = "probe" /\ offset' = 0 /\ k' = LesserOf(B, fileSize - 0)
        /\ UNCHANGED <<inputVars, lastMatch>>
    BY <1>1 DEF Start, ReadChunk, matchedVars
  <2>2. offset = 0 /\ lastMatch = 0
    BY <1>i, <2>1 DEF Positioned
  <2>3. fileSize' = fileSize /\ end' = end /\ B' = B /\ (source = <<>>)' = (source = <<>>)
    BY <2>1, NumbersKept
  <2>4. Called'
    BY <2>1 DEF Called
  <2>5. Positioned'
    BY <1>t, <2>1, <2>2, <2>3 DEF Positioned
  <2>6. Backlogged'
    BY <1>t, <2>1, <2>2, <2>3 DEF Backlogged, BacklogBounded, Backlog
  <2> QED BY <2>4, <2>5, <2>6 DEF SearchInv
<1>2. CASE Probe
  <2>1. pc = "probe" /\ UNCHANGED <<inputVars, searchVars>>
    BY <1>2 DEF Probe
  <2>2. /\ fileSize' = fileSize /\ end' = end /\ B' = B /\ (source = <<>>)' = (source = <<>>)
        /\ offset' = offset /\ k' = k
    BY <2>1, NumbersKept DEF searchVars
  <2>3. CASE pc' = "roll" /\ UNCHANGED matchedVars
    <3>1. Called' /\ Positioned'
      BY <1>t, <1>i, <2>1, <2>2, <2>3 DEF Called, Positioned
    <3>2. Backlogged'
      BY <1>t, <1>i, <2>1, <2>2, <2>3 DEF Backlogged, BacklogBounded, Backlog, matchedVars
    <3> QED BY <3>1, <3>2 DEF SearchInv
  <2>4. CASE \E i \in SameSum : CallMatched(offset, i, "advance")
    <3>1. PICK i \in SameSum : CallMatched(offset, i, "advance")
      BY <2>4
    <3>2. i \in Nat /\ BlockLen(i) = LesserOf(B, fileSize - offset)
      BY <1>t, <3>1 DEF SameSum, Count, BlockCount, WindowInv, InputTypes
    <3>3. BlockLen(i) <= fileSize - offset
      BY <1>t, <3>2, Bounds
    <3>4. /\ pc' = "literal" /\ after' = "advance" /\ token' = i /\ upto' = offset
          /\ UNCHANGED lastMatch
      BY <3>1 DEF CallMatched
    <3>5. BlockLen(token)' = BlockLen(i)
      BY <2>1, <3>2, <3>4, NumbersKept
    <3>6. Called'
      BY <2>2, <3>2, <3>3, <3>4, <3>5 DEF Called
    <3>7. Positioned'
      BY <1>i, <2>2, <3>4 DEF Positioned
    <3>8. Backlogged'
      BY <1>t, <1>i, <2>2, <3>4 DEF Backlogged, BacklogBounded, Backlog
    <3> QED BY <3>6, <3>7, <3>8 DEF SearchInv
  <2>5. \/ UNCHANGED matchedVars /\ pc' = "roll"
        \/ \E i \in SameSum : CallMatched(offset, i, "advance")
    BY <1>2 DEF Probe
  <2> QED BY <2>3, <2>4, <2>5
<1>3. CASE Advance
  <2> DEFINE o == offset + BlockLen(token) - 1
  <2>1. /\ pc = "advance" /\ offset' = o /\ k' = LesserOf(B, fileSize - o)
        /\ pc' = (IF offset' >= end THEN "rest" ELSE "roll")
        /\ UNCHANGED <<inputVars, lastMatch>>
    BY <1>3 DEF Advance, ReadChunk, matchedVars
  <2>2. /\ fileSize' = fileSize /\ end' = end /\ B' = B /\ (source = <<>>)' = (source = <<>>)
    BY <2>1, NumbersKept
  <2>3. BlockLen(token) \in Nat \ {0}
    BY <1>t, <1>l
  <2>a. lastMatch = offset + BlockLen(token) /\ BlockLen(token) <= fileSize - offset
    BY <1>i, <2>1 DEF Called
  <2>4. lastMatch = o + 1 /\ o + 1 <= fileSize /\ o \in Nat
    BY <1>t, <2>3, <2>a
  <2> HIDE DEF o
  <2>5. Called'
    BY <2>1 DEF Called
  <2>6. Positioned'
    BY <1>t, <2>1, <2>2, <2>4 DEF Positioned
  <2>7. Backlogged'
    BY <1>t, <2>1, <2>2, <2>4 DEF Backlogged, BacklogBounded, Backlog
  <2> QED BY <2>5, <2>6, <2>7 DEF SearchInv
<1>4. CASE Roll
  <2> DEFINE backup == GreaterOf(offset - lastMatch, 0)
             more   == offset + k < fileSize
             length == k + (IF more THEN 1 ELSE 0) + backup
             o      == offset - backup
             update == ptr(file, ms, o, length)
  <2>1. /\ backup \in Nat /\ backup >= Backlog /\ (backup > 0 => backup = Backlog)
        /\ o \in Nat /\ length \in Int
    BY <1>t DEF GreaterOf, Backlog
  <2>2. /\ pc = "roll" /\ ms' = PtrState(file, ms, o, length) /\ UNCHANGED <<inputVars, file>>
    BY <1>4 DEF Roll
  <2>3. \/ /\ backup \notin DOMAIN update /\ pc' = "panic" /\ UNCHANGED <<searchVars, matchedVars>>
        \/ /\ backup \in DOMAIN update /\ k' = Shrunk(more) /\ UNCHANGED offset
           /\ \/ FlushNow(backup) /\ CallMatched(FlushTo, -2, "step")
              \/ ~FlushNow(backup) /\ pc' = "step" /\ UNCHANGED matchedVars
    BY <1>4 DEF Roll
  <2>4. /\ fileSize' = fileSize /\ end' = end /\ B' = B /\ (source = <<>>)' = (source = <<>>)
    BY <2>2, NumbersKept
  <2>5. k = LesserOf(B, fileSize - offset) /\ offset <= fileSize
    BY <1>i, <2>2 DEF Positioned
  <2>6. \A i \in DOMAIN update : i \in 0 .. length - 1
    BY <2>1, SliceLength
  <2>7. length >= 0 /\ ~ms'.err => DOMAIN update = 0 .. length - 1
    BY <2>1, <2>2, SliceLength
  <2>8. length = backup + k + IF more THEN 1 ELSE 0
    BY <1>t, <2>1
  <2> HIDE DEF length, o, update
  <2>9. CASE backup \notin DOMAIN update /\ pc' = "panic" /\ UNCHANGED <<searchVars, matchedVars>>
    <3>1. ASSUME ~ms'.err, source # <<>> PROVE FALSE
      <4>1. offset < fileSize
        BY <1>i, <2>2, <3>1 DEF Positioned
      <4>2. k >= 1
        BY <1>t, <2>5, <4>1 DEF LesserOf
      <4>3. length \in Int /\ length > backup
        BY <1>t, <2>1, <2>8, <4>2
      <4> HIDE DEF backup
      <4>4. backup \in 0 .. length - 1
        BY <2>1, <4>3
      <4> QED BY <2>1, <2>7, <2>9, <3>1, <4>3, <4>4
    <3>2. Called'
      BY <2>9 DEF Called
    <3>3. UNCHANGED <<offset, lastMatch>>
      BY <2>9 DEF searchVars, matchedVars
    <3>4. Positioned'
      BY <2>4, <2>5, <2>9, <3>1, <3>3 DEF Positioned
    <3>5. Backlogged'
      BY <1>t, <1>i, <2>4, <2>9, <3>3 DEF Backlogged, BacklogBounded, Backlog
    <3> QED BY <3>2, <3>4, <3>5 DEF SearchInv
  <2>10. CASE backup \in DOMAIN update /\ k' = Shrunk(more) /\ UNCHANGED offset
    <3>1. length > backup
      BY <2>1, <2>6, <2>10
    <3>2. offset < fileSize
      BY <1>t, <2>1, <2>5, <2>8, <3>1 DEF LesserOf
    <3>3. k' = LesserOf(B, fileSize - (offset + 1))
      BY <1>t, <2>5, <2>10, <3>2 DEF LesserOf, Shrunk
    <3>4. CASE FlushNow(backup) /\ CallMatched(FlushTo, -2, "step")
      <4>1. /\ pc' = "literal" /\ after' = "step" /\ token' = -2 /\ upto' = offset - B
            /\ UNCHANGED lastMatch
        BY <3>4 DEF CallMatched, FlushTo
      <4>2. Called'
        BY <2>4, <2>10, <4>1 DEF Called
      <4>3. Positioned'
        BY <2>4, <2>5, <2>10, <3>2, <3>3, <4>1 DEF Positioned
      <4>4. Backlogged'
        BY <1>t, <1>i, <2>4, <2>10, <4>1 DEF Backlogged, BacklogBounded, Backlog
      <4> QED BY <4>2, <4>3, <4>4 DEF SearchInv
    <3>5. CASE ~FlushNow(backup) /\ pc' = "step" /\ UNCHANGED matchedVars
      <4>1. UNCHANGED <<lastMatch, token, upto, after>>
        BY <3>5 DEF matchedVars
      <4>2. Called'
        BY <3>5 DEF Called
      <4>3. Positioned'
        BY <2>4, <2>5, <2>10, <3>2, <3>3, <3>5 DEF Positioned
      <4>4. Backlog \in Int /\ (Backlog < B + ChunkSize \/ end - offset <= ChunkSize)
        BY <1>t, <2>1, <3>5 DEF FlushNow, Backlog
      <4>5. /\ offset < end \/ Backlog <= 0
            /\ Backlog <= B + ChunkSize \/ Backlog + (end - offset) <= B + 2 * ChunkSize
        BY <1>i, <2>2 DEF Backlogged
      <4> HIDE DEF backup, more
      <4>6. Backlog < B + ChunkSize \/ (offset < end /\ Backlog + (end - offset) <= B + 2 * ChunkSize)
        BY <1>t, <4>4, <4>5
      <4>7. Backlogged'
        BY <1>t, <1>i, <2>4, <2>10, <3>5, <4>1, <4>6 DEF Backlogged, BacklogBounded, Backlog
      <4> QED BY <4>2, <4>3, <4>7 DEF SearchInv
    <3> QED BY <2>3, <2>10, <3>4, <3>5
  <2> QED BY <2>3, <2>9, <2>10
<1>5. CASE Step
  <2>1. /\ pc = "step" /\ offset' = offset + 1 /\ pc' = (IF offset' >= end THEN "rest" ELSE "probe")
        /\ UNCHANGED <<inputVars, k, lastMatch>>
    BY <1>5 DEF Step, matchedVars
  <2>2. /\ fileSize' = fileSize /\ end' = end /\ B' = B /\ (source = <<>>)' = (source = <<>>)
    BY <2>1, NumbersKept
  <2>3. Called'
    BY <2>1 DEF Called
  <2>4. Positioned'
    BY <1>t, <1>i, <2>1, <2>2 DEF Positioned
  <2>5. Backlogged'
    BY <1>t, <1>i, <2>1, <2>2 DEF Backlogged, BacklogBounded, Backlog
  <2> QED BY <2>3, <2>4, <2>5 DEF SearchInv
<1>6. CASE Rest
  <2>1. /\ pc' = "literal" /\ after' = "sum" /\ token' = -1 /\ upto' = fileSize
        /\ UNCHANGED <<inputVars, offset, lastMatch>>
    BY <1>6 DEF Rest, CallMatched, searchVars
  <2>2. /\ fileSize' = fileSize /\ end' = end /\ B' = B
    BY <2>1, NumbersKept
  <2>3. Called'
    BY <2>1, <2>2 DEF Called
  <2>4. Positioned'
    BY <1>i, <2>1, <2>2 DEF Positioned
  <2>5. Backlogged'
    BY <1>t, <1>i, <2>1, <2>2 DEF Backlogged, BacklogBounded, Backlog
  <2> QED BY <2>3, <2>4, <2>5 DEF SearchInv
<1>7. CASE SendLiteral \/ SendToken \/ HashChunk
  <2>1. /\ Calling /\ Calling' /\ UNCHANGED <<inputVars, offset, k, lastMatch, upto, token, after>>
    BY <1>7 DEF SendLiteral, SendToken, HashChunk, searchVars
  <2>2. /\ fileSize' = fileSize /\ end' = end /\ B' = B /\ BlockLen(token)' = BlockLen(token)
    BY <2>1, NumbersKept
  <2>3. Called'
    BY <1>i, <2>1, <2>2 DEF Called
  <2>4. Positioned'
    BY <1>i, <2>1, <2>2 DEF Positioned
  <2>5. Backlogged'
    BY <1>t, <1>i, <2>1, <2>2 DEF Backlogged, BacklogBounded, Backlog
  <2> QED BY <2>3, <2>4, <2>5 DEF SearchInv
<1>8. CASE Matched
  <2>1. /\ pc = "hash" /\ pc' = after /\ lastMatch' = MatchEnd
        /\ UNCHANGED <<inputVars, offset, k, upto, token, after>>
    BY <1>8 DEF Matched, searchVars
  <2>2. /\ fileSize' = fileSize /\ end' = end /\ B' = B /\ BlockLen(token)' = BlockLen(token)
    BY <2>1, NumbersKept
  <2>3. BlockLen(token) \in Nat \ {0} /\ offset <= fileSize
    BY <1>t, <1>l, <1>i DEF Positioned
  <2>4. CASE after = "step"
    <3>1. lastMatch' = offset - B
      BY <1>i, <2>1, <2>4 DEF Called, MatchEnd
    <3>2. Called'
      BY <2>1, <2>4 DEF Called
    <3>3. Positioned'
      BY <1>i, <2>1, <2>2, <2>4 DEF Positioned
    <3>4. Backlogged'
      BY <1>t, <2>1, <2>2, <2>4, <3>1 DEF Backlogged, BacklogBounded, Backlog
    <3> QED BY <3>2, <3>3, <3>4 DEF SearchInv
  <2>5. CASE after = "advance"
    <3>1. lastMatch' = offset + BlockLen(token) /\ BlockLen(token) <= fileSize - offset
      BY <1>i, <2>1, <2>5 DEF Called, MatchEnd
    <3>2. Called'
      BY <2>1, <2>2, <2>5, <3>1 DEF Called
    <3>3. Positioned'
      BY <1>i, <2>1, <2>2, <2>5 DEF Positioned
    <3>4. Backlogged'
      BY <1>t, <2>1, <2>2, <2>3, <2>5, <3>1 DEF Backlogged, BacklogBounded, Backlog
    <3> QED BY <3>2, <3>3, <3>4 DEF SearchInv
  <2>6. CASE after = "sum"
    <3>1. lastMatch' = fileSize
      BY <1>i, <2>1, <2>6 DEF Called, MatchEnd
    <3>2. Called'
      BY <2>1, <2>6 DEF Called
    <3>3. Positioned'
      BY <1>i, <2>1, <2>2, <2>6 DEF Positioned
    <3>4. Backlogged'
      BY <1>t, <2>1, <2>2, <2>3, <2>6, <3>1 DEF Backlogged, BacklogBounded, Backlog
    <3> QED BY <3>2, <3>3, <3>4 DEF SearchInv
  <2> QED BY <1>i, <2>1, <2>4, <2>5, <2>6 DEF Called
<1>9. CASE Truncate \/ UNCHANGED vars
  <2>1. UNCHANGED <<inputVars, ms, pc, offset, k, lastMatch, upto, token, after>>
    BY <1>9 DEF Truncate, vars, searchVars, matchedVars
  <2>2. /\ fileSize' = fileSize /\ end' = end /\ B' = B /\ BlockLen(token)' = BlockLen(token)
        /\ (source = <<>>)' = (source = <<>>)
    BY <2>1, NumbersKept
  <2>3. Called'
    BY <1>i, <2>1, <2>2 DEF Called
  <2>4. Positioned'
    BY <1>i, <2>1, <2>2 DEF Positioned
  <2>5. Backlogged'
    BY <1>t, <1>i, <2>1, <2>2 DEF Backlogged, BacklogBounded, Backlog
  <2> QED BY <2>3, <2>4, <2>5 DEF SearchInv
<1> QED
  BY <1>1, <1>2, <1>3, <1>4, <1>5, <1>6, <1>7, <1>8, <1>9 DEF Next, Search

(* Wherever the search stands, it holds its place.                         *)
THEOREM SearchHoldsItsPlace == Spec => [](WindowInv /\ SearchInv)
<1>1. Init => WindowInv /\ SearchInv
  BY WindowInit, SearchStart
<1>2. WindowInv /\ SearchInv /\ [Next]_vars => (WindowInv /\ SearchInv)'
  BY WindowStep, SearchStep
<1>3. QED
  BY <1>1, <1>2, PTL DEF Spec

(* However few matches there are, the flush of hashSearch keeps what was   *)
(* not yet handed on below a block and two literals.                       *)
THEOREM FlushBounds == Spec => []BacklogBounded
<1>1. SearchInv => BacklogBounded
  BY DEF SearchInv, Backlogged
<1>2. QED
  BY <1>1, SearchHoldsItsPlace, PTL

(* The rolling update indexes its slice within bounds unless a read has    *)
(* failed or the file is empty.                                            *)
THEOREM RollStaysInside == Spec => []PanicNeedsCause
<1>1. SearchInv => PanicNeedsCause
  BY DEF SearchInv, Positioned, PanicNeedsCause
<1>2. QED
  BY <1>1, SearchHoldsItsPlace, PTL

-----------------------------------------------------------------------------
(* Pieces of a sequence.                                                   *)
LEMMA Part ==
  ASSUME NEW S, NEW s \in Seq(S), NEW a \in Nat, NEW b \in Nat, b <= Len(s)
  PROVE  /\ SubSeq(s, a + 1, b) \in Seq(S)
         /\ Len(SubSeq(s, a + 1, b)) = IF a <= b THEN b - a ELSE 0
         /\ \A i \in 1 .. b - a : SubSeq(s, a + 1, b)[i] = s[a + i]
<1>1. a + 1 \in Int /\ b \in Int /\ \A i \in a + 1 .. b : s[i] \in S
  BY LenProperties
<1>2. /\ SubSeq(s, a + 1, b) \in Seq(S)
      /\ Len(SubSeq(s, a + 1, b)) = IF a + 1 <= b THEN b - (a + 1) + 1 ELSE 0
      /\ \A i \in 1 .. b - (a + 1) + 1 : SubSeq(s, a + 1, b)[i] = s[a + 1 + i - 1]
  BY <1>1, SubSeqProperties
<1>3. b - (a + 1) + 1 = b - a /\ (a + 1 <= b => a <= b)
  OBVIOUS
<1>4. (IF a + 1 <= b THEN b - a ELSE 0) = IF a <= b THEN b - a ELSE 0
  OBVIOUS
<1>5. ASSUME NEW i \in 1 .. b - a PROVE SubSeq(s, a + 1, b)[i] = s[a + i]
  <2>1. i \in 1 .. b - (a + 1) + 1 /\ a + 1 + i - 1 = a + i
    BY <1>3
  <2> QED BY <1>2, <2>1
<1>6. Len(SubSeq(s, a + 1, b)) = IF a <= b THEN b - a ELSE 0
  BY <1>2, <1>3, <1>4
<1> QED BY <1>2, <1>5, <1>6

(* Two adjoining pieces are one.                                           *)
LEMMA Adjoining ==
  ASSUME NEW S, NEW s \in Seq(S), NEW a \in Nat, NEW b \in Nat, a <= b, b <= Len(s)
  PROVE  SubSeq(s, 1, a) \o SubSeq(s, a + 1, b) = SubSeq(s, 1, b)
<1> DEFINE u == SubSeq(s, 0 + 1, a)
           v == SubSeq(s, a + 1, b)
           w == SubSeq(s, 0 + 1, b)
<1>0. Len(s) \in Nat /\ a <= Len(s)
  BY LenProperties
<1>1. u \in Seq(S) /\ Len(u) = a /\ \A i \in 1 .. a : u[i] = s[i]
  BY <1>0, Part
<1>2. v \in Seq(S) /\ Len(v) = b - a /\ \A i \in 1 .. b - a : v[i] = s[a + i]
  BY <1>0, Part
<1>3. w \in Seq(S) /\ Len(w) = b /\ \A i \in 1 .. b : w[i] = s[i]
  BY <1>0, Part
<1> HIDE DEF u, v, w
<1>4. /\ u \o v \in Seq(S) /\ Len(u \o v) = a + (b - a)
      /\ \A i \in 1 .. a + (b - a) : (u \o v)[i] = IF i <= a THEN u[i] ELSE v[i - a]
  BY <1>1, <1>2, ConcatProperties
<1>5. Len(u \o v) = Len(w)
  BY <1>3, <1>4
<1>6. ASSUME NEW i \in 1 .. Len(u \o v) PROVE (u \o v)[i] = w[i]
  <2>1. i \in 1 .. b /\ i \in 1 .. a + (b - a)
    BY <1>4
  <2>2. CASE i <= a
    BY <1>1, <1>3, <1>4, <2>1, <2>2
  <2>3. CASE i > a
    <3>1. i - a \in 1 .. b - a /\ a + (i - a) = i
      BY <2>1, <2>3
    <3>2. (u \o v)[i] = v[i - a]
      BY <1>4, <2>1, <2>3
    <3>3. v[i - a] = s[a + (i - a)]
      BY <1>2, <3>1
    <3> QED BY <1>3, <2>1, <3>1, <3>2, <3>3
  <2> QED BY <2>2, <2>3
<1>7. u \o v = w
  BY <1>3, <1>4, <1>5, <1>6, SeqEqual
<1>8. 0 + 1 = 1
  OBVIOUS
<1> QED BY <1>7, <1>8 DEF u, v, w

(* Buffers as sequences.                                                   *)
LEMMA BufferSeq ==
  ASSUME NEW m \in Nat, NEW b \in [0 .. m - 1 -> Byte]
  PROVE  /\ AsSeq(b) \in Seq(Byte) /\ Len(AsSeq(b)) = m
         /\ \A i \in 1 .. m : AsSeq(b)[i] = b[i - 1]
<1>1. {j + 1 : j \in DOMAIN b} = 1 .. m
  <2>1. \A i \in 1 .. m : i - 1 \in 0 .. m - 1 /\ (i - 1) + 1 = i
    OBVIOUS
  <2>2. \A j \in 0 .. m - 1 : j + 1 \in 1 .. m
    OBVIOUS
  <2> QED BY <2>1, <2>2
<1>2. \A i \in 1 .. m : b[i - 1] \in Byte
  <2>1. \A i \in 1 .. m : i - 1 \in 0 .. m - 1
    OBVIOUS
  <2> QED BY <2>1
<1>3. AsSeq(b) = [i \in 1 .. m |-> b[i - 1]]
  BY <1>1 DEF AsSeq
<1>4. AsSeq(b) \in [1 .. m -> Byte]
  BY <1>2, <1>3
<1>5. AsSeq(b) \in Seq(Byte) /\ Len(AsSeq(b)) = m
  BY <1>4
<1> QED BY <1>3, <1>5

(* A slice of the file as it was opened.                                   *)
LEMMA SliceSeq ==
  ASSUME source \in Seq(Byte), NEW o \in Nat, NEW l \in Nat, o + l <= fileSize
  PROVE  /\ Slice(AsFile(source), o, l) \in [0 .. l - 1 -> Byte]
         /\ AsSeq(Slice(AsFile(source), o, l)) = SubSeq(source, o + 1, o + l)
         /\ \A i \in 0 .. l - 1 : Slice(AsFile(source), o, l)[i] = source[o + i + 1]
<1> DEFINE b == Slice(AsFile(source), o, l)
           u == AsSeq(b)
           v == SubSeq(source, o + 1, o + l)
<1>1. fileSize \in Nat /\ fileSize = Len(source)
  BY LenProperties DEF fileSize
<1>2. ASSUME NEW i \in 0 .. l - 1 PROVE b[i] = source[o + i + 1] /\ source[o + i + 1] \in Byte
  <2>1. o + i \in 0 .. Len(source) - 1 /\ o + i + 1 \in 1 .. Len(source)
    BY <1>1
  <2>2. AsFile(source)[o + i] = source[o + i + 1]
    BY <2>1 DEF AsFile
  <2> QED BY <2>1, <2>2 DEF Slice
<1>3. b \in [0 .. l - 1 -> Byte]
  <2>1. b = [i \in 0 .. l - 1 |-> b[i]]
    BY DEF Slice
  <2> HIDE DEF b
  <2> QED BY <1>2, <2>1
<1> HIDE DEF b
<1>4. u \in Seq(Byte) /\ Len(u) = l /\ \A i \in 1 .. l : u[i] = b[i - 1]
  BY <1>3, BufferSeq
<1>5. /\ v \in Seq(Byte) /\ Len(v) = l /\ \A i \in 1 .. l : v[i] = source[o + i]
  <2>1. o + l \in Nat /\ o + l <= Len(source) /\ o <= o + l /\ (o + l) - o = l
    BY <1>1
  <2> QED BY <2>1, Part
<1>6. \A i \in 1 .. l : u[i] = v[i]
  <2> SUFFICES ASSUME NEW i \in 1 .. l PROVE u[i] = v[i]
    OBVIOUS
  <2>1. i - 1 \in 0 .. l - 1 /\ o + (i - 1) + 1 = o + i
    OBVIOUS
  <2>2. b[i - 1] = source[o + i]
    BY <1>2, <2>1
  <2> QED BY <1>4, <1>5, <2>2
<1> HIDE DEF u, v
<1>7. u = v
  BY <1>4, <1>5, <1>6, SeqEqual
<1> QED BY <1>2, <1>3, <1>7 DEF b, u, v
-----------------------------------------------------------------------------
(* What a call of ptr returns: bytes, as many as asked for or none; and    *)
(* the file's, unless a read has failed.                                   *)
LEMMA CallGives ==
  ASSUME WindowInv, NEW o \in Nat, NEW l \in Int
  PROVE  /\ \E m \in Nat : /\ ptr(file, ms, o, l) \in [0 .. m - 1 -> Byte]
                           /\ m = 0 \/ m = l
         /\ ms.err => PtrState(file, ms, o, l).err
         /\ ~PtrState(file, ms, o, l).err /\ l >= 0 =>
              ptr(file, ms, o, l) = Slice(AsFile(source), o, l)
<1>m. MapTypes(ms) /\ ms.pOffset \in Nat /\ ms.pSize \in Nat /\ ms.pLen \in Int /\ ms.pLen <= ms.pSize
  BY DEF WindowInv, MapTypes
<1>n. Nil \in [0 .. 0 - 1 -> Byte]
  BY DEF Nil, Slice
<1>f. /\ file.size \in Nat
      /\ \A i \in 0 .. file.size - 1 : file.at[i] = AsFile(source)[i] /\ AsFile(source)[i] \in Byte
  BY SourceBytes DEF WindowInv
<1>1. CASE l <= 0
  <2>1. ptr(file, ms, o, l) = Nil /\ PtrState(file, ms, o, l) = ms
    BY <1>1 DEF ptr, PtrState
  <2>2. l >= 0 => Nil = Slice(AsFile(source), o, l)
    BY <1>1 DEF Nil, Slice
  <2> QED BY <1>n, <2>1, <2>2
<1>2. CASE l > 0
  <2>1. l \in Nat
    BY <1>2
  <2>2. ~PtrState(file, ms, o, l).err => ptr(file, ms, o, l) = Slice(AsFile(source), o, l)
    BY <1>f, <1>m, <2>1, PtrExact DEF WindowInv, WindowFaithful
  <2>3. \E m \in Nat : ptr(file, ms, o, l) \in [0 .. m - 1 -> Byte] /\ (m = 0 \/ m = l)
    <3>1. CASE Available(ms, o, l)
      <4>1. ptr(file, ms, o, l) = Slice(ms.window, o - ms.pOffset, l)
        BY <1>2, <3>1 DEF ptr
      <4>2. \A i \in 0 .. l - 1 : o - ms.pOffset + i \in 0 .. ms.pSize - 1
        BY <1>m, <3>1 DEF Available
      <4>3. \A i \in 0 .. l - 1 : ms.window[o - ms.pOffset + i] \in Byte
        BY <1>m, <4>2 DEF MapTypes
      <4> QED BY <2>1, <4>1, <4>3 DEF Slice
    <3>2. CASE ~Available(ms, o, l)
      <4> DEFINE next == Loaded(file, ms, o, l)
                 size == WindowSize(ms, o, l)
      <4>1. MapTypes(next)
        BY <1>f, <1>m, LoadedTypes
      <4>2. ptr(file, ms, o, l) = Nil \/ ptr(file, ms, o, l) = Slice(next.window, alignedOvershoot(o), l)
        BY <1>2, <3>2 DEF ptr
      <4>3. size \in Int /\ size >= l + alignedOvershoot(o) /\ alignedOvershoot(o) \in Nat
        BY <1>m, Sizes, Overshoot
      <4>4. next.pLen = size
        <5> DEFINE start == WindowStart(o)
                   kept  == Kept(ms, start, size)
                   got   == GreaterOf(0, LesserOf(size - kept, file.size - (start + kept)))
                   large == GreaterOf(size, ms.pSize)
                   window == [i \in 0 .. large - 1 |->
                                IF kept <= i /\ i < kept + got THEN file.at[start + i]
                                ELSE Moved(ms, start, size, i)]
        <5>1. next = [ms EXCEPT !.window = window, !.pSize = large, !.pOffset = start,
                                !.pLen = size, !.err = ms.err \/ got < size - kept]
          BY DEF Loaded
        <5> HIDE DEF window, large, start, size, kept, got, next
        <5> QED BY <1>m, <5>1 DEF MapTypes
      <4> HIDE DEF next, size
      <4>5. ASSUME NEW i \in 0 .. l - 1 PROVE next.window[alignedOvershoot(o) + i] \in Byte
        <5>1. alignedOvershoot(o) + i \in 0 .. next.pSize - 1
          <6>1. next.pSize \in Nat /\ next.pLen <= next.pSize
            BY <4>1 DEF MapTypes
          <6> QED BY <4>3, <4>4, <6>1
        <5> QED BY <4>1, <5>1 DEF MapTypes
      <4> QED BY <1>n, <2>1, <4>2, <4>5 DEF Slice
    <3> QED BY <3>1, <3>2
  <2>4. ms.err => PtrState(file, ms, o, l).err
    <3> DEFINE start == WindowStart(o)
               size  == WindowSize(ms, o, l)
               kept  == Kept(ms, start, size)
               got   == GreaterOf(0, LesserOf(size - kept, file.size - (start + kept)))
               large == GreaterOf(size, ms.pSize)
               window == [i \in 0 .. large - 1 |->
                            IF kept <= i /\ i < kept + got THEN file.at[start + i]
                            ELSE Moved(ms, start, size, i)]
    <3>1. Loaded(file, ms, o, l) =
            [ms EXCEPT !.window = window, !.pSize = large, !.pOffset = start,
                       !.pLen = size, !.err = ms.err \/ got < size - kept]
      BY DEF Loaded
    <3> HIDE DEF window, large, start, size, kept, got
    <3>2. ms.err => Loaded(file, ms, o, l).err
      BY <1>m, <3>1 DEF MapTypes
    <3> QED BY <3>2 DEF PtrState
  <2> QED BY <1>2, <2>2, <2>3, <2>4
<1> QED BY <1>1, <1>2

(* The same as a sequence.                                                 *)
LEMMA CallReads ==
  ASSUME WindowInv, NEW o \in Nat, NEW l \in Int
  PROVE  /\ AsSeq(ptr(file, ms, o, l)) \in Seq(Byte)
         /\ ~PtrState(file, ms, o, l).err =>
              /\ ~ms.err
              /\ l >= 0 /\ o + l <= fileSize => AsSeq(ptr(file, ms, o, l)) = SubSeq(source, o + 1, o + l)
<1>1. AsSeq(ptr(file, ms, o, l)) \in Seq(Byte)
  BY CallGives, BufferSeq
<1>2. source \in Seq(Byte)
  BY DEF WindowInv, InputTypes
<1>3. l >= 0 => l \in Nat
  OBVIOUS
<1> QED BY <1>1, <1>2, <1>3, CallGives, SliceSeq

-----------------------------------------------------------------------------
(* How the places of the search and of matched lie to each other.          *)
PlaceInv ==
  /\ lastMatch <= fileSize /\ upto <= fileSize
  /\ pc = "probe" => lastMatch <= offset
  /\ pc \in {"roll", "step"} => lastMatch <= offset + 1
  /\ Calling => lastMatch <= upto
  /\ pc = "advance" \/ (Calling /\ after = "advance") => token \in 0 .. Count - 1
  /\ token \in -2 .. Count - 1
  /\ k \in 0 .. B

(* The copy is not empty, so it has a block.                               *)
LEMMA HasBlocks == ASSUME InputTypes PROVE Count \in Nat \ {0}
<1>1. B \in Nat \ {0} /\ Len(copy) \in Nat \ {0}
  <2>1. copy \in Seq(Byte) /\ copy # <<>>
    BY DEF InputTypes
  <2>2. Len(copy) # 0
    BY <2>1, EmptySeq
  <2> QED BY <2>1, <2>2, LenProperties DEF InputTypes
<1>2. Len(copy) + (B - 1) >= B
  BY <1>1
<1>3. \A x \in Nat, b \in Nat \ {0} : x >= b => x \div b \in Nat \ {0}
  OBVIOUS
<1>4. Len(copy) + (B - 1) \in Nat
  BY <1>1
<1> QED BY <1>1, <1>2, <1>3, <1>4 DEF Count, BlockCount

LEMMA PlaceStart == Init => PlaceInv
<1> SUFFICES ASSUME Init PROVE PlaceInv
  OBVIOUS
<1>1. WindowInv
  BY WindowInit
<1>2. Count \in Nat \ {0} /\ B \in Nat \ {0} /\ fileSize \in Nat
  BY <1>1, HasBlocks, Numbers DEF WindowInv
<1>3. pc = "start" /\ token = -1 /\ lastMatch = 0 /\ upto = 0 /\ k = 0
  BY DEF Init
<1> QED BY <1>2, <1>3 DEF PlaceInv, Calling

LEMMA PlaceStep == WindowInv /\ SearchInv /\ PlaceInv /\ [Next]_vars => PlaceInv'
<1> SUFFICES ASSUME WindowInv, SearchInv, PlaceInv, [Next]_vars PROVE PlaceInv'
  OBVIOUS
<1>t. /\ B \in Nat \ {0} /\ ChunkSize \in Nat \ {0} /\ fileSize \in Nat
      /\ end \in Int /\ end <= fileSize /\ (source = <<>> <=> fileSize = 0)
      /\ offset \in Nat /\ lastMatch \in Nat /\ upto \in Nat /\ k \in Int /\ token \in Int
      /\ Count \in Nat \ {0}
  BY Numbers, HasBlocks DEF WindowInv, SearchTypes
<1>l. \A i \in Int : BlockLen(i) \in Nat \ {0}
  BY Numbers DEF WindowInv
<1>i. Called /\ Positioned
  BY DEF SearchInv
<1>j. Called' /\ Positioned'
  BY SearchStep DEF SearchInv
<1>u. UNCHANGED inputVars
  BY DEF Next, Search, Start, Probe, Advance, Roll, Step, Rest, SendLiteral, SendToken, HashChunk, Matched, Truncate, vars
<1>n. fileSize' = fileSize /\ B' = B /\ Count' = Count
  BY <1>u, NumbersKept DEF inputVars, Count, BlockCount
<1>k. pc' \in {"probe", "roll", "step"} => k' \in 0 .. B'
  <2> SUFFICES ASSUME pc' \in {"probe", "roll", "step"} PROVE k' \in 0 .. B
    BY <1>n
  <2>1. offset' \in Int /\ offset' <= fileSize
    BY <1>j, <1>n, WindowStep DEF Positioned, WindowInv, SearchTypes
  <2>b. \A x \in Int : x <= fileSize => (LesserOf(B, fileSize - x) \in 0 .. B)
    BY <1>t DEF LesserOf
  <2>2. CASE pc' \in {"probe", "roll"}
    <3>1. k' = LesserOf(B, fileSize - offset')
      BY <1>j, <1>n, <2>2 DEF Positioned, LesserOf
    <3> QED BY <2>1, <2>b, <3>1
  <2>3. CASE pc' = "step"
    <3>1. k' = LesserOf(B, fileSize - (offset' + 1)) /\ offset' < fileSize
      BY <1>j, <1>n, <2>3 DEF Positioned, LesserOf
    <3>2. offset' + 1 \in Int /\ offset' + 1 <= fileSize
      <4>1. \A x \in Int, y \in Nat : x < y => (x + 1 \in Int /\ x + 1 <= y)
        OBVIOUS
      <4> QED BY <1>t, <2>1, <3>1, <4>1
    <3> QED BY <2>b, <3>1, <3>2
  <2> QED BY <2>2, <2>3
<1> USE DEF Calling
<1>1. CASE Start
  <2>1. pc = "start" /\ pc' = "probe" /\ offset' = 0 /\ UNCHANGED <<lastMatch, upto, token>>
    BY <1>1 DEF Start, ReadChunk, matchedVars
  <2> QED BY <1>i, <1>k, <1>n, <1>t, <2>1 DEF PlaceInv, Positioned
<1>2. CASE Probe
  <2>1. pc = "probe" /\ UNCHANGED <<offset, k>> /\ lastMatch <= offset /\ offset <= fileSize
    BY <1>2, <1>i DEF Probe, searchVars, PlaceInv, Positioned
  <2>2. CASE pc' = "roll" /\ UNCHANGED matchedVars
    <3>1. UNCHANGED <<lastMatch, upto, token>>
      BY <2>2 DEF matchedVars
    <3> QED BY <1>n, <1>t, <2>1, <2>2, <3>1 DEF PlaceInv
  <2>3. CASE \E i \in SameSum : CallMatched(offset, i, "advance")
    <3>1. PICK i \in SameSum : CallMatched(offset, i, "advance")
      BY <2>3
    <3>2. i \in 0 .. Count - 1
      BY <3>1 DEF SameSum
    <3>3. pc' = "literal" /\ after' = "advance" /\ token' = i /\ upto' = offset /\ UNCHANGED lastMatch
      BY <3>1 DEF CallMatched
    <3> QED BY <1>n, <1>t, <2>1, <3>2, <3>3 DEF PlaceInv
  <2> QED BY <1>2, <2>2, <2>3 DEF Probe
<1>3. CASE Advance
  <2>1. /\ pc = "advance" /\ pc' \in {"rest", "roll"} /\ UNCHANGED <<lastMatch, upto, token>>
        /\ offset' = offset + BlockLen(token) - 1 /\ k' = LesserOf(B, fileSize - offset')
    BY <1>3 DEF Advance, ReadChunk, matchedVars
  <2>2. lastMatch = offset + BlockLen(token) /\ BlockLen(token) \in Nat \ {0}
    BY <1>i, <1>l, <1>t, <2>1 DEF Called
  <2>3. lastMatch <= offset' + 1 /\ offset' \in Nat /\ offset' <= fileSize
    <3>1. \A a, b \in Nat \ {0} : a - 1 \in Nat
      OBVIOUS
    <3>2. lastMatch <= fileSize /\ offset \in Nat /\ fileSize \in Nat
      BY <1>t DEF PlaceInv
    <3>3. PICK n \in Nat \ {0} : n = BlockLen(token)
      BY <2>2
    <3>4. offset' = offset + n - 1 /\ lastMatch = offset + n
      BY <2>1, <2>2, <3>3
    <3> QED BY <3>2, <3>3, <3>4
  <2>4. k' \in 0 .. B
    BY <1>t, <2>1, <2>3 DEF LesserOf
  <2> QED BY <1>n, <1>t, <2>1, <2>3, <2>4 DEF PlaceInv
<1>4. CASE Roll
  <2> DEFINE backup == GreaterOf(offset - lastMatch, 0)
             more   == offset + k < fileSize
  <2>1. pc = "roll" /\ lastMatch <= offset + 1 /\ offset <= fileSize
    BY <1>4, <1>i DEF Roll, PlaceInv, Positioned
  <2>2. \/ pc' = "panic" /\ UNCHANGED <<searchVars, matchedVars>>
        \/ /\ UNCHANGED offset
           /\ FlushNow(backup) /\ CallMatched(FlushTo, -2, "step")
        \/ UNCHANGED offset /\ pc' = "step" /\ UNCHANGED matchedVars
    BY <1>4 DEF Roll
  <2>3. CASE pc' = "panic" /\ UNCHANGED <<searchVars, matchedVars>>
    BY <1>n, <1>t, <2>3 DEF PlaceInv, searchVars, matchedVars
  <2>4. CASE UNCHANGED offset /\ FlushNow(backup) /\ CallMatched(FlushTo, -2, "step")
    <3>1. pc' = "literal" /\ after' = "step" /\ token' = -2 /\ upto' = offset - B /\ UNCHANGED lastMatch
      BY <2>4 DEF CallMatched, FlushTo
    <3>2. backup >= B + ChunkSize
      BY <2>4 DEF FlushNow
    <3>3. lastMatch <= offset - B
      BY <1>t, <3>2 DEF GreaterOf
    <3>4. offset < fileSize /\ k' = LesserOf(B, fileSize - (offset + 1))
      BY <1>j, <1>n, <2>4, <3>1 DEF Positioned, LesserOf
    <3>5. k' \in 0 .. B
      BY <1>t, <3>4 DEF LesserOf
    <3> QED BY <1>n, <1>t, <2>1, <3>1, <3>3, <3>5 DEF PlaceInv
  <2>5. CASE UNCHANGED offset /\ pc' = "step" /\ UNCHANGED matchedVars
    BY <1>k, <1>n, <1>t, <2>1, <2>5 DEF PlaceInv, matchedVars
  <2> QED BY <2>2, <2>3, <2>4, <2>5
<1>5. CASE Step
  <2>1. /\ pc = "step" /\ offset' = offset + 1 /\ pc' \in {"rest", "probe"}
        /\ UNCHANGED <<k, lastMatch, upto, token>>
    BY <1>5 DEF Step, matchedVars
  <2> QED BY <1>n, <1>t, <2>1 DEF PlaceInv
<1>6. CASE Rest
  <2>1. /\ pc' = "literal" /\ after' = "sum" /\ token' = -1 /\ upto' = fileSize
        /\ UNCHANGED <<k, lastMatch>>
    BY <1>6 DEF Rest, CallMatched, searchVars
  <2> QED BY <1>n, <1>t, <2>1 DEF PlaceInv
<1>7. CASE SendLiteral \/ SendToken \/ HashChunk
  <2>1. /\ Calling /\ Calling' /\ UNCHANGED <<k, lastMatch, upto, token, after>>
    BY <1>7 DEF SendLiteral, SendToken, HashChunk, searchVars
  <2> QED BY <1>n, <1>t, <2>1 DEF PlaceInv
<1>8. CASE Matched
  <2>1. /\ pc = "hash" /\ pc' = after /\ lastMatch' = MatchEnd
        /\ UNCHANGED <<offset, k, upto, token, after>>
    BY <1>8 DEF Matched, searchVars
  <2>2. CASE after = "step"
    <3>1. lastMatch' = offset - B /\ token = -2
      BY <1>i, <2>1, <2>2 DEF Called, MatchEnd
    <3>2. offset <= fileSize
      BY <1>i DEF Positioned
    <3> QED BY <1>n, <1>t, <2>1, <2>2, <3>1, <3>2 DEF PlaceInv
  <2>3. CASE after = "advance"
    <3>1. lastMatch' = offset + BlockLen(token) /\ BlockLen(token) <= fileSize - offset
      BY <1>i, <2>1, <2>3 DEF Called, MatchEnd
    <3>2. BlockLen(token) \in Nat
      BY <1>l, <1>t
    <3> QED BY <1>n, <1>t, <2>1, <2>3, <3>1, <3>2 DEF PlaceInv
  <2>4. CASE after = "sum"
    <3>1. lastMatch' = fileSize
      BY <1>i, <2>1, <2>4 DEF Called, MatchEnd
    <3> QED BY <1>n, <1>t, <2>1, <2>4, <3>1 DEF PlaceInv
  <2> QED BY <1>i, <2>1, <2>2, <2>3, <2>4 DEF Called
<1>9. CASE Truncate \/ UNCHANGED vars
  <2>1. UNCHANGED <<pc, offset, k, lastMatch, upto, token, after>>
    BY <1>9 DEF Truncate, vars, searchVars, matchedVars
  <2> QED BY <1>n, <2>1 DEF PlaceInv
<1> QED
  BY <1>1, <1>2, <1>3, <1>4, <1>5, <1>6, <1>7, <1>8, <1>9 DEF Next, Search

-----------------------------------------------------------------------------
(* The sums that Checksum1 is made of.                                     *)
Running(n, f) ==
  LET p[m \in 0 .. n] == IF m = 0 THEN 0 ELSE p[m - 1] + f[m] IN p

LEMMA RunningIs ==
  ASSUME NEW n \in Nat, NEW f, \A i \in 1 .. n : f[i] \in Int
  PROVE  /\ Running(n, f) \in [0 .. n -> Int] /\ Running(n, f)[0] = 0
         /\ \A i \in 1 .. n : Running(n, f)[i] = Running(n, f)[i - 1] + f[i]
<1> DEFINE Is(d) == d = [i \in 0 .. n |-> IF i = 0 THEN 0 ELSE d[i - 1] + f[i]]
           T == [i \in 1 .. n |-> [s \in Int |-> s + f[i]]]
<1>2. T \in [1 .. n -> [Int -> Int]]
  OBVIOUS
<1>3. PICK p \in [0 .. n -> Int] : Follows(p, n, 0, T)
  <2>1. 0 \in Int /\ n \in Nat
    OBVIOUS
  <2> HIDE DEF T, Is
  <2> QED BY <1>2, <2>1, Solution, ZenonT(60)
<1>4. ASSUME NEW i \in 1 .. n PROVE p[i] = p[i - 1] + f[i]
  <2>1. p[i - 1] \in Int
    OBVIOUS
  <2> QED BY <1>3, <2>1 DEF Follows
<1>5. Is(p)
  <2>1. \A i \in 0 .. n : i # 0 => i \in 1 .. n
    OBVIOUS
  <2>2. p[0] = 0
    BY <1>3 DEF Follows
  <2> QED BY <1>4, <2>1, <2>2
<1> DEFINE c == CHOOSE d : Is(d)
<1>6. Is(c)
  <2> HIDE DEF Is
  <2> QED BY <1>5
<1>7. Running(n, f) = c
  BY Zenon DEF Running
<1> HIDE DEF c
<1>8. c[0] = 0 /\ \A i \in 1 .. n : c[i] = c[i - 1] + f[i]
  BY <1>6
<1>9. c = [i \in 0 .. n |-> c[i]]
  BY <1>6
<1>10. \A i \in 0 .. n : c[i] = p[i]
  <2>1. \A i \in 1 .. n : c[i - 1] = p[i - 1] => c[i] = p[i]
    BY <1>4, <1>8
  <2>2. c[0] = p[0]
    BY <1>3, <1>8 DEF Follows
  <2> HIDE DEF Is, T
  <2> QED BY <2>1, <2>2, Alike, ZenonT(60)
<1>11. c \in [0 .. n -> Int]
  <2>1. \A i \in 0 .. n : c[i] \in Int
    BY <1>10
  <2> QED BY <1>9, <2>1
<1> QED BY <1>7, <1>8, <1>11

(* Sums over more are the same so far.                                     *)
LEMMA RunningSoFar ==
  ASSUME NEW n \in Nat, NEW m \in Nat, n <= m, NEW f,
         \A i \in 1 .. m : f[i] \in Int
  PROVE  \A i \in 0 .. n : Running(n, f)[i] = Running(m, f)[i]
<1> DEFINE p == Running(n, f)
           q == Running(m, f)
<1>1. p \in [0 .. n -> Int] /\ p[0] = 0 /\ \A i \in 1 .. n : p[i] = p[i - 1] + f[i]
  <2>1. \A i \in 1 .. n : f[i] \in Int
    OBVIOUS
  <2> QED BY <2>1, RunningIs
<1>2. q \in [0 .. m -> Int] /\ q[0] = 0 /\ \A i \in 1 .. m : q[i] = q[i - 1] + f[i]
  BY RunningIs
<1> HIDE DEF p, q
<1>3. \A i \in 1 .. n : i \in 1 .. m
  OBVIOUS
<1>4. \A i \in 1 .. n : p[i - 1] = q[i - 1] => p[i] = q[i]
  BY <1>1, <1>2, <1>3
<1>5. p[0] = q[0]
  BY <1>1, <1>2
<1>6. \A i \in 0 .. n : p[i] = q[i]
  BY <1>4, <1>5, Alike, ZenonT(60)
<1> QED BY <1>6 DEF p, q

(* Without the first summand the sums are less by it.                      *)
LEMMA RunningShift ==
  ASSUME NEW n \in Nat, NEW f, NEW g,
         \A i \in 1 .. n : f[i] \in Int, \A i \in 1 .. n + 1 : g[i] \in Int,
         \A i \in 1 .. n : f[i] = g[i + 1]
  PROVE  \A i \in 0 .. n : Running(n, f)[i] = Running(n + 1, g)[i + 1] - g[1]
<1> DEFINE p == Running(n, f)
           q == Running(n + 1, g)
<1>1. p \in [0 .. n -> Int] /\ p[0] = 0 /\ \A i \in 1 .. n : p[i] = p[i - 1] + f[i]
  BY RunningIs
<1>2. q \in [0 .. n + 1 -> Int] /\ q[0] = 0 /\ \A i \in 1 .. n + 1 : q[i] = q[i - 1] + g[i]
  BY RunningIs
<1> HIDE DEF p, q
<1> DEFINE S == {i \in 0 .. n : p[i] = q[i + 1] - g[1]}
<1>3. g[1] \in Int
  OBVIOUS
<1>4. 0 \in S
  <2>1. 1 \in 1 .. n + 1 /\ 1 - 1 = 0 /\ 0 \in 0 .. n /\ 0 + 1 = 1
    OBVIOUS
  <2>2. q[1] = q[0] + g[1]
    BY <1>2, <2>1
  <2> QED BY <1>1, <1>2, <1>3, <2>1, <2>2
<1>5. ASSUME NEW i \in 1 .. n, i - 1 \in S PROVE i \in S
  <2>1. i + 1 \in 1 .. n + 1 /\ (i + 1) - 1 = i /\ (i - 1) + 1 = i /\ i \in 0 .. n + 1 /\ i - 1 \in 0 .. n
    OBVIOUS
  <2>2. q[i + 1] = q[i] + g[i + 1]
    BY <1>2, <2>1
  <2>3. p[i] = p[i - 1] + f[i] /\ f[i] = g[i + 1] /\ p[i - 1] = q[i] - g[1]
    BY <1>1, <1>5, <2>1
  <2>4. q[i] \in Int /\ f[i] \in Int
    BY <1>2, <2>1
  <2> HIDE DEF p, q
  <2>5. p[i] = q[i + 1] - g[1]
    BY <1>3, <2>2, <2>3, <2>4
  <2> QED BY <2>5
<1>6. \A i \in 1 .. n : i - 1 \in S => i \in S
  BY <1>5
<1> HIDE DEF S
<1>7. \A i \in 0 .. n : i \in S
  BY <1>4, <1>6, UpTo
<1> QED BY <1>7 DEF S, p, q

(* And the sums of the sums by a multiple of it.                           *)
LEMMA RunningTwice ==
  ASSUME NEW n \in Nat, NEW f, NEW g,
         \A i \in 1 .. n : f[i] \in Int, \A i \in 1 .. n + 1 : g[i] \in Int,
         \A i \in 1 .. n : f[i] = g[i + 1] - g[1]
  PROVE  \A i \in 0 .. n : Running(n, f)[i] = Running(n + 1, g)[i + 1] - (i + 1) * g[1]
<1> DEFINE c == g[1]
           p == Running(n, f)
           q == Running(n + 1, g)
<1>1. p \in [0 .. n -> Int] /\ p[0] = 0 /\ \A i \in 1 .. n : p[i] = p[i - 1] + f[i]
  BY RunningIs
<1>2. q \in [0 .. n + 1 -> Int] /\ q[0] = 0 /\ \A i \in 1 .. n + 1 : q[i] = q[i - 1] + g[i]
  BY RunningIs
<1>3. c \in Int /\ g[1] = c /\ \A i \in 1 .. n : f[i] = g[i + 1] - c
  OBVIOUS
<1> HIDE DEF p, q, c
<1> DEFINE S == {i \in 0 .. n : p[i] = q[i + 1] - (i + 1) * c}
<1>4. 0 \in S
  <2>1. 1 \in 1 .. n + 1 /\ 1 - 1 = 0 /\ 0 \in 0 .. n /\ 0 + 1 = 1 /\ (0 + 1) * c = c
    BY <1>3
  <2>2. q[1] = q[0] + g[1]
    BY <1>2, <2>1
  <2> QED BY <1>1, <1>2, <1>3, <2>1, <2>2
<1>5. ASSUME NEW i \in 1 .. n, i - 1 \in S PROVE i \in S
  <2>1. i + 1 \in 1 .. n + 1 /\ (i + 1) - 1 = i /\ (i - 1) + 1 = i /\ i \in 0 .. n + 1 /\ i - 1 \in 0 .. n
    OBVIOUS
  <2>2. q[i + 1] = q[i] + g[i + 1]
    BY <1>2, <2>1
  <2>3. p[i] = p[i - 1] + f[i] /\ f[i] = g[i + 1] - c /\ p[i - 1] = q[i] - i * c
    BY <1>1, <1>3, <1>5, <2>1
  <2>4. q[i] \in Int /\ f[i] \in Int /\ g[i + 1] \in Int
    BY <1>2, <2>1
  <2>5. (i + 1) * c = i * c + c /\ i * c \in Int
    BY <1>3
  <2>6. p[i] = q[i + 1] - (i + 1) * c
    BY <1>3, <2>2, <2>3, <2>4, <2>5
  <2> QED BY <2>6
<1>6. \A i \in 1 .. n : i - 1 \in S => i \in S
  BY <1>5
<1> HIDE DEF S
<1>7. \A i \in 0 .. n : i \in S
  BY <1>4, <1>6, UpTo
<1> QED BY <1>7 DEF S, p, q, c

(* A sum may be taken modulo m before something is added.                  *)
LEMMA ModSum ==
  ASSUME NEW m \in Nat \ {0}, NEW a \in Int, NEW c \in Int
  PROVE  a % m \in 0 .. m - 1 /\ ((a % m) + c) % m = (a + c) % m
<1> DEFINE r == a % m
           q == a \div m
           u == (r + c) % m
           v == (r + c) \div m
           x == (a + c) % m
           y == (a + c) \div m
<1>1. r \in 0 .. m - 1 /\ q \in Int /\ a = m * q + r
  OBVIOUS
<1>2. r + c \in Int
  BY <1>1
<1> HIDE DEF r, q
<1>3. u \in 0 .. m - 1 /\ v \in Int /\ r + c = m * v + u
  BY <1>2
<1>4. x \in 0 .. m - 1 /\ y \in Int /\ a + c = m * y + x
  OBVIOUS
<1> HIDE DEF u, v, x, y
<1>5. m * y + x = m * q + (m * v + u)
  BY <1>1, <1>3, <1>4
<1> DEFINE d == y - (q + v)
<1>6. d \in Int /\ m * d = m * y - m * q - m * v
  BY <1>1, <1>3, <1>4
<1> HIDE DEF d
<1>7. m * d = u - x /\ m * d \in Int
  <2>1. m * y \in Int /\ m * q \in Int /\ m * v \in Int
    BY <1>1, <1>3, <1>4
  <2> QED BY <1>3, <1>4, <1>5, <1>6, <2>1
<1>8. d = 0
  <2>1. CASE d >= 1
    <3>1. m * d >= m
      BY <1>6, <2>1
    <3> QED BY <1>3, <1>4, <1>7, <3>1
  <2>2. CASE d <= -1
    <3>1. m * d <= -m
      BY <1>6, <2>2
    <3> QED BY <1>3, <1>4, <1>7, <3>1
  <2> QED BY <1>6, <2>1, <2>2
<1>9. u = x
  BY <1>3, <1>4, <1>7, <1>8
<1> QED BY <1>1, <1>9 DEF u, x, r

-----------------------------------------------------------------------------
(* Checksum1 as such sums.                                                 *)
Total(w) == Running(Len(w), w)[Len(w)]
Twofold(w) == Running(Len(w), Running(Len(w), w))[Len(w)]

LEMMA SumsAre ==
  ASSUME NEW w
  PROVE  Sum1(w) = Total(w) % Modulus /\ Sum2(w) = Twofold(w) % Modulus
<1>1. Partial1(w) = Running(Len(w), w)
  BY Zenon DEF Partial1, Running
<1>2. Partial2(w) = Running(Len(w), Partial1(w))
  BY Zenon DEF Partial2, Running
<1> QED BY <1>1, <1>2 DEF Sum1, Sum2, Total, Twofold

LEMMA TotalTypes ==
  ASSUME NEW w \in Seq(Int)
  PROVE  /\ Len(w) \in Nat /\ \A i \in 1 .. Len(w) : w[i] \in Int
         /\ Running(Len(w), w) \in [0 .. Len(w) -> Int]
         /\ \A i \in 1 .. Len(w) : Running(Len(w), w)[i] \in Int
         /\ Total(w) \in Int /\ Twofold(w) \in Int
<1> DEFINE n == Len(w)
           p == Running(n, w)
           q == Running(n, p)
<1>1. n \in Nat /\ \A i \in 1 .. n : w[i] \in Int
  BY LenProperties
<1>2. p \in [0 .. n -> Int]
  <2> HIDE DEF n
  <2> QED BY <1>1, RunningIs
<1>3. \A i \in 1 .. n : p[i] \in Int
  <2>1. \A i \in 1 .. n : i \in 0 .. n
    BY <1>1
  <2> HIDE DEF n, p
  <2> QED BY <1>2, <2>1
<1>4. q \in [0 .. n -> Int]
  <2> HIDE DEF n, p
  <2> QED BY <1>1, <1>3, RunningIs
<1>5. n \in 0 .. n
  BY <1>1
<1>6. p[n] \in Int /\ q[n] \in Int
  <2> HIDE DEF n, p, q
  <2> QED BY <1>2, <1>4, <1>5
<1> QED BY <1>1, <1>2, <1>3, <1>6 DEF Total, Twofold

LEMMA SumsRange ==
  ASSUME NEW w \in Seq(Int)
  PROVE  Sum1(w) \in 0 .. Modulus - 1 /\ Sum2(w) \in 0 .. Modulus - 1
<1>1. Total(w) \in Int /\ Twofold(w) \in Int /\ Modulus \in Nat \ {0}
  BY TotalTypes, SearchAssumption
<1>2. Total(w) % Modulus \in 0 .. Modulus - 1 /\ Twofold(w) % Modulus \in 0 .. Modulus - 1
  BY <1>1, ModSum
<1> QED BY <1>2, SumsAre

(* What a window loses with its first byte.                                *)
LEMMA Rolled ==
  ASSUME NEW n \in Nat, NEW w \in Seq(Int), NEW v \in Seq(Int),
         Len(w) = n + 1, n <= Len(v), \A i \in 1 .. n : v[i] = w[i + 1]
  PROVE  /\ Running(Len(v), v)[n] = Total(w) - w[1]
         /\ Running(Len(v), Running(Len(v), v))[n] = Twofold(w) - (n + 1) * w[1]
<1> DEFINE m  == Len(v)
           p  == Running(m, v)
           q  == Running(m, p)
           P  == Running(n + 1, w)
           Q  == Running(n + 1, P)
<1>1. m \in Nat /\ (\A i \in 1 .. m : v[i] \in Int) /\ p \in [0 .. m -> Int]
  BY TotalTypes
<1>2. (\A i \in 1 .. n + 1 : w[i] \in Int) /\ P \in [0 .. n + 1 -> Int]
  BY TotalTypes
<1>0. n <= m
  OBVIOUS
<1>3. \A i \in 1 .. n : i \in 1 .. m
  <2> HIDE DEF m
  <2> QED BY <1>0, <1>1
<1>4. \A i \in 1 .. n : v[i] \in Int
  BY <1>1, <1>3
<1>5. \A i \in 0 .. n : Running(n, v)[i] = P[i + 1] - w[1]
  <2>1. \A i \in 1 .. n : v[i] = w[i + 1]
    OBVIOUS
  <2> QED BY <1>2, <1>4, <2>1, RunningShift, ZenonT(60)
<1>6. \A i \in 0 .. n : Running(n, v)[i] = p[i]
  <2> HIDE DEF m
  <2> QED BY <1>0, <1>1, <1>4, RunningSoFar, ZenonT(60)
<1>7. P[0] = 0 /\ P[1] = P[0] + w[1] /\ w[1] \in Int
  <2>1. 1 \in 1 .. n + 1 /\ 1 - 1 = 0 /\ n + 1 \in Nat
    OBVIOUS
  <2>2. P[0] = 0 /\ \A i \in 1 .. n + 1 : P[i] = P[i - 1] + w[i]
    BY <1>2, <2>1, RunningIs
  <2> HIDE DEF P
  <2> QED BY <1>2, <2>1, <2>2
<1> HIDE DEF P, m, p
<1>8. \A i \in 0 .. n : p[i] = P[i + 1] - w[1]
  BY <1>5, <1>6
<1>9. \A i \in 1 .. n : p[i] \in Int
  <2>1. \A i \in 1 .. n : i \in 0 .. m
    BY <1>0, <1>1
  <2> QED BY <1>1, <2>1
<1>10. \A i \in 1 .. n + 1 : P[i] \in Int
  <2>1. \A i \in 1 .. n + 1 : i \in 0 .. n + 1
    OBVIOUS
  <2> QED BY <1>2, <2>1
<1>11. \A i \in 1 .. m : p[i] \in Int
  <2>1. \A i \in 1 .. m : i \in 0 .. m
    BY <1>1
  <2> QED BY <1>1, <2>1
<1>12. P[1] = w[1]
  BY <1>7
<1>14. \A i \in 0 .. n : Running(n, p)[i] = Q[i + 1] - (i + 1) * w[1]
  <2>1. \A i \in 1 .. n : p[i] = P[i + 1] - P[1]
    BY <1>8, <1>12
  <2>2. \A i \in 0 .. n : Running(n, p)[i] = Q[i + 1] - (i + 1) * P[1]
    BY <1>9, <1>10, <2>1, RunningTwice, ZenonT(60)
  <2> QED BY <1>12, <2>2
<1>15. \A i \in 0 .. n : Running(n, p)[i] = q[i]
  BY <1>0, <1>1, <1>9, <1>11, RunningSoFar, ZenonT(60)
<1> HIDE DEF q, Q
<1>16. n \in 0 .. n
  OBVIOUS
<1>17. p[n] = P[n + 1] - w[1] /\ q[n] = Q[n + 1] - (n + 1) * w[1]
  BY <1>8, <1>14, <1>15, <1>16
<1>18. Total(w) = P[n + 1] /\ Twofold(w) = Q[n + 1]
  BY DEF Total, Twofold, P, Q
<1> QED BY <1>17, <1>18 DEF p, q, m

(* The update of the rolling checksum at the end of the file, where the    *)
(* window gets shorter, and before it, where the next byte comes in.       *)
LEMMA RolledShorter ==
  ASSUME NEW n \in Nat, NEW w \in Seq(Int), NEW v \in Seq(Int),
         Len(w) = n + 1, Len(v) = n, \A i \in 1 .. n : v[i] = w[i + 1]
  PROVE  /\ Sum1(v) = (Sum1(w) - w[1]) % Modulus
         /\ Sum2(v) = (Sum2(w) - (n + 1) * w[1]) % Modulus
<1>1. Total(v) = Total(w) - w[1] /\ Twofold(v) = Twofold(w) - (n + 1) * w[1]
  <2>1. n <= Len(v)
    OBVIOUS
  <2>2. /\ Running(Len(v), v)[n] = Total(w) - w[1]
        /\ Running(Len(v), Running(Len(v), v))[n] = Twofold(w) - (n + 1) * w[1]
    BY <2>1, Rolled, ZenonT(60)
  <2>3. Total(v) = Running(Len(v), v)[n] /\ Twofold(v) = Running(Len(v), Running(Len(v), v))[n]
    BY DEF Total, Twofold
  <2> QED BY <2>2, <2>3
<1>2. /\ Total(w) \in Int /\ Twofold(w) \in Int /\ w[1] \in Int /\ Modulus \in Nat \ {0}
  BY TotalTypes, SearchAssumption
<1> HIDE DEF Total, Twofold
<1>3. \A a, c \in Int : ((a % Modulus) - c) % Modulus = (a - c) % Modulus
  <2> SUFFICES ASSUME NEW a \in Int, NEW c \in Int
               PROVE  ((a % Modulus) - c) % Modulus = (a - c) % Modulus
    OBVIOUS
  <2>1. (-c) \in Int /\ a + (-c) = a - c
    OBVIOUS
  <2>2. a % Modulus \in 0 .. Modulus - 1 /\ ((a % Modulus) + (-c)) % Modulus = (a + (-c)) % Modulus
    BY <1>2, <2>1, ModSum
  <2>3. (a % Modulus) + (-c) = (a % Modulus) - c
    BY <1>2, <2>2
  <2> QED BY <2>1, <2>2, <2>3
<1>4. (n + 1) * w[1] \in Int
  BY <1>2
<1>5. ((Total(w) % Modulus) - w[1]) % Modulus = Total(v) % Modulus
  BY <1>1, <1>2, <1>3
<1>6. ((Twofold(w) % Modulus) - (n + 1) * w[1]) % Modulus = Twofold(v) % Modulus
  <2> DEFINE e == (n + 1) * w[1]
  <2> HIDE DEF e
  <2>1. e \in Int /\ Twofold(v) = Twofold(w) - e
    BY <1>1, <1>4 DEF e
  <2>2. ((Twofold(w) % Modulus) - e) % Modulus = (Twofold(w) - e) % Modulus
    BY <1>2, <1>3, <2>1
  <2> QED BY <2>1, <2>2 DEF e
<1> QED BY <1>5, <1>6, SumsAre, Zenon

LEMMA RolledOn ==
  ASSUME NEW n \in Nat, NEW w \in Seq(Int), NEW v \in Seq(Int),
         Len(w) = n + 1, Len(v) = n + 1, \A i \in 1 .. n : v[i] = w[i + 1]
  PROVE  /\ Sum1(v) = (Sum1(w) - w[1] + v[n + 1]) % Modulus
         /\ Sum2(v) = (Sum2(w) - (n + 1) * w[1] + Sum1(v)) % Modulus
<1> DEFINE p == Running(n + 1, v)
           q == Running(n + 1, p)
<1>1. p[n] = Total(w) - w[1] /\ q[n] = Twofold(w) - (n + 1) * w[1]
  <2>1. n <= Len(v) /\ Len(v) = n + 1
    OBVIOUS
  <2>2. /\ Running(Len(v), v)[n] = Total(w) - w[1]
        /\ Running(Len(v), Running(Len(v), v))[n] = Twofold(w) - (n + 1) * w[1]
    BY <2>1, Rolled, ZenonT(60)
  <2> QED BY <2>1, <2>2
<1>2. /\ Total(w) \in Int /\ Twofold(w) \in Int /\ w[1] \in Int /\ v[n + 1] \in Int
      /\ Modulus \in Nat \ {0}
      /\ \A i \in 1 .. n + 1 : v[i] \in Int /\ p[i] \in Int
  BY TotalTypes, SearchAssumption
<1>3. \A i \in 1 .. n + 1 : p[i] = p[i - 1] + v[i]
  <2>1. n + 1 \in Nat
    OBVIOUS
  <2> QED BY <1>2, <2>1, RunningIs, ZenonT(60)
<1>4. \A i \in 1 .. n + 1 : q[i] = q[i - 1] + p[i]
  <2>1. n + 1 \in Nat /\ \A i \in 1 .. n + 1 : p[i] \in Int
    BY <1>2
  <2> HIDE DEF p
  <2> QED BY <2>1, RunningIs, ZenonT(60)
<1>5. Total(v) = p[n + 1] /\ Twofold(v) = q[n + 1]
  BY DEF Total, Twofold
<1> HIDE DEF p, q
<1>6. n + 1 \in 1 .. n + 1 /\ (n + 1) - 1 = n
  OBVIOUS
<1>7. p[n + 1] = p[n] + v[n + 1] /\ q[n + 1] = q[n] + p[n + 1] /\ p[n + 1] \in Int
  BY <1>2, <1>3, <1>4, <1>6
<1>8. (n + 1) * w[1] \in Int
  BY <1>2
<1> DEFINE a == w[1]
           z == v[n + 1]
           e == (n + 1) * a
           T == Total(w)
           U == Twofold(w)
           V == Total(v)
<1>9. a \in Int /\ z \in Int /\ e \in Int /\ T \in Int /\ U \in Int /\ V \in Int
  BY <1>2, <1>5, <1>7, <1>8
<1>10. V = T - a + z /\ Twofold(v) = U - e + V
  BY <1>1, <1>5, <1>7
<1>11. Sum1(w) = T % Modulus /\ Sum2(w) = U % Modulus /\ Sum1(v) = V % Modulus /\ Sum2(v) = Twofold(v) % Modulus
  BY SumsAre
<1> HIDE DEF a, z, e, T, U, V
<1>12. T % Modulus \in Int /\ U % Modulus \in Int /\ V % Modulus \in Int
  <2>1. \A x \in Int : x % Modulus \in 0 .. Modulus - 1
    BY <1>2, ModSum
  <2> QED BY <1>2, <1>9, <2>1
<1>13. ((T % Modulus) - a + z) % Modulus = V % Modulus
  <2>1. (T % Modulus) - a + z = (T % Modulus) + (z - a) /\ T - a + z = T + (z - a) /\ z - a \in Int
    BY <1>9, <1>12
  <2>2. Modulus \in Nat \ {0} /\ T \in Int
    BY <1>2, <1>9
  <2>3. ((T % Modulus) + (z - a)) % Modulus = (T + (z - a)) % Modulus
    BY <2>1, <2>2, ModSum
  <2> QED BY <1>10, <2>1, <2>3
<1>14. ((U % Modulus) - e + (V % Modulus)) % Modulus = Twofold(v) % Modulus
  <2> DEFINE r == V % Modulus
  <2>1. r \in Int
    BY <1>12
  <2> HIDE DEF r
  <2>2. (U % Modulus) - e + r = (U % Modulus) + (r - e) /\ U + (r - e) = r + (U - e) /\ r - e \in Int /\ U - e \in Int
    BY <1>9, <1>12, <2>1
  <2>3. ((U % Modulus) + (r - e)) % Modulus = (U + (r - e)) % Modulus
    BY <1>2, <1>9, <2>2, ModSum
  <2>4. (r + (U - e)) % Modulus = (V + (U - e)) % Modulus
    BY <1>2, <1>9, <2>2, ModSum DEF r
  <2>5. V + (U - e) = U - e + V
    BY <1>9
  <2>6. ((U % Modulus) - e + r) % Modulus = Twofold(v) % Modulus
    BY <1>10, <2>2, <2>3, <2>4, <2>5
  <2> QED BY Zenon, <2>6 DEF r
<1>15. Sum1(v) = (Sum1(w) - a + z) % Modulus /\ Sum2(v) = (Sum2(w) - e + Sum1(v)) % Modulus
  BY <1>11, <1>13, <1>14, Zenon
<1> QED BY <1>15, Zenon DEF a, z, e

-----------------------------------------------------------------------------
LEMMA Ints == Seq(Byte) \subseteq Seq(Int)
<1> SUFFICES ASSUME NEW w \in Seq(Byte) PROVE w \in Seq(Int)
  OBVIOUS
<1>1. Byte \subseteq Int
  BY MapAssumption
<1>2. w \in [1 .. Len(w) -> Byte] /\ Len(w) \in Nat
  BY LenProperties
<1>3. w \in [1 .. Len(w) -> Int]
  BY <1>1, <1>2
<1>4. [1 .. Len(w) -> Int] \subseteq Seq(Int)
  BY <1>2
<1> QED BY <1>3, <1>4

(* What the search keeps has its type at the start.                        *)
LEMMA TypeStart == Init => TypeOK
<1> SUFFICES ASSUME Init PROVE TypeOK
  OBVIOUS
<1>1. WindowInv
  BY WindowInit
<1>2. Count \in Nat \ {0} /\ B \in Nat \ {0} /\ fileSize \in Nat /\ Modulus \in Nat \ {0}
  BY <1>1, HasBlocks, Numbers, SearchAssumption DEF WindowInv
<1>3. pc = "start" /\ offset = 0 /\ k = 0 /\ s1 = 0 /\ s2 = 0 /\ lastMatch = 0 /\ upto = 0 /\ token = -1
  BY DEF Init
<1>4. hashed \in Seq(Byte)
  BY EmptySeq DEF Init
<1> QED BY <1>2, <1>3, <1>4 DEF TypeOK

LEMMA Placed ==
  WindowInv /\ Positioned /\ PlaceInv =>
    (offset \in 0 .. fileSize /\ k \in 0 .. B /\ lastMatch \in 0 .. fileSize
      /\ upto \in 0 .. fileSize /\ token \in -2 .. Count - 1)
<1> SUFFICES ASSUME WindowInv, Positioned, PlaceInv
             PROVE  /\ offset \in 0 .. fileSize /\ k \in 0 .. B /\ lastMatch \in 0 .. fileSize
                    /\ upto \in 0 .. fileSize /\ token \in -2 .. Count - 1
  OBVIOUS
<1>1. fileSize \in Nat /\ offset \in Nat /\ lastMatch \in Nat /\ upto \in Nat
  BY Numbers DEF WindowInv, SearchTypes
<1> QED BY <1>1 DEF Positioned, PlaceInv

(* And keeps it: the places by their invariants, the sums because they are *)
(* taken modulo Modulus, what is hashed because ptr returns bytes.         *)
LEMMA TypeStep ==
  WindowInv /\ SearchInv /\ PlaceInv /\ TypeOK /\ [Next]_vars => TypeOK'
<1> SUFFICES ASSUME WindowInv, SearchInv, PlaceInv, TypeOK, [Next]_vars PROVE TypeOK'
  OBVIOUS
<1>1. Positioned' /\ WindowInv' /\ PlaceInv'
  BY WindowStep, SearchStep, PlaceStep DEF SearchInv
<1>2. (offset \in 0 .. fileSize /\ k \in 0 .. B /\ lastMatch \in 0 .. fileSize
        /\ upto \in 0 .. fileSize /\ token \in -2 .. Count - 1)'
  BY <1>1, Placed, PTL
<1>m. Modulus \in Nat \ {0}
  BY SearchAssumption
<1>t. /\ offset \in Nat /\ lastMatch \in Nat /\ k \in Int /\ B \in Nat /\ fileSize \in Nat
      /\ s1 \in Int /\ s2 \in Int /\ done \in Nat
  BY <1>m, Numbers DEF TypeOK, WindowInv, SearchTypes
<1>r. ASSUME NEW o \in Nat, NEW l \in Int
      PROVE  AsSeq(ptr(file, ms, o, l)) \in Seq(Byte) /\ AsSeq(ptr(file, ms, o, l)) \in Seq(Int)
  BY CallReads, Ints
<1>3. s1' \in 0 .. Modulus - 1 /\ s2' \in 0 .. Modulus - 1
  <2>1. ASSUME NEW o \in Nat, ReadChunk(o) PROVE s1' \in 0 .. Modulus - 1 /\ s2' \in 0 .. Modulus - 1
    <3>1. LesserOf(B, fileSize - o) \in Int
      BY <1>t DEF LesserOf
    <3> DEFINE b == AsSeq(ptr(file, ms, o, LesserOf(B, fileSize - o)))
    <3>2. b \in Seq(Int)
      BY <1>r, <3>1
    <3>3. s1' = Sum1(b) /\ s2' = Sum2(b)
      BY <2>1 DEF ReadChunk
    <3> HIDE DEF b
    <3> QED BY <3>2, <3>3, SumsRange
  <2>2. CASE Start
    BY <2>1, <2>2 DEF Start
  <2>3. CASE Advance
    <3>1. offset + BlockLen(token) - 1 \in Nat
      <4>1. BlockLen(token) \in Nat \ {0}
        BY Numbers DEF WindowInv, SearchTypes
      <4>2. PICK n \in Nat \ {0} : n = BlockLen(token)
        BY <4>1
      <4>3. offset + n - 1 \in Nat
        BY <1>t
      <4> QED BY <4>2, <4>3
    <3> QED BY <2>1, <2>3, <3>1 DEF Advance
  <2>4. CASE Roll
    <3> DEFINE backup == GreaterOf(offset - lastMatch, 0)
               more   == offset + k < fileSize
               length == k + (IF more THEN 1 ELSE 0) + backup
               update == ptr(file, ms, offset - backup, length)
               oldest == update[backup]
               newest == IF more THEN update[backup + k] ELSE 0
    <3>1. \/ UNCHANGED searchVars
          \/ /\ backup \in DOMAIN update
             /\ s1' = (s1 - oldest + newest) % Modulus
             /\ s2' = (s2 - k * oldest + (IF more THEN s1' ELSE 0)) % Modulus
      BY <2>4 DEF Roll
    <3>2. CASE UNCHANGED searchVars
      BY <3>2 DEF searchVars, TypeOK
    <3>3. ASSUME backup \in DOMAIN update,
                 s1' = (s1 - oldest + newest) % Modulus,
                 s2' = (s2 - k * oldest + (IF more THEN s1' ELSE 0)) % Modulus
          PROVE  s1' \in 0 .. Modulus - 1 /\ s2' \in 0 .. Modulus - 1
      <4>1. backup \in Nat /\ offset - backup \in Nat /\ length \in Int
        BY <1>t DEF GreaterOf
      <4> DEFINE o == offset - backup
                 l == length
      <4> HIDE DEF l
      <4>2. /\ \E m \in Nat : update \in [0 .. m - 1 -> Byte] /\ (m = 0 \/ m = l)
        BY <4>1, CallGives DEF l
      <4> HIDE DEF update
      <4>3. PICK m \in Nat : update \in [0 .. m - 1 -> Byte] /\ (m = 0 \/ m = l)
        BY <4>2
      <4>4. backup \in 0 .. m - 1 /\ m = l
        BY <3>3, <4>3
      <4>5. update[backup] \in Byte
        BY <4>3, <4>4
      <4>6. more => backup + k \in 0 .. m - 1
        <5>1. more => l = k + 1 + backup
          BY DEF l
        <5> QED BY <1>t, <4>1, <4>4, <5>1 DEF PlaceInv
      <4>7. more => update[backup + k] \in Byte
        BY <4>3, <4>6
      <4>8. oldest \in Int /\ newest \in Int
        BY <4>5, <4>7, MapAssumption
      <4> HIDE DEF oldest, newest, backup
      <4>9. s1 - oldest + newest \in Int
        BY <1>t, <4>8
      <4>10. s1' \in 0 .. Modulus - 1
        BY <1>m, <3>3, <4>9, ModSum
      <4>11. s2 - k * oldest + (IF more THEN s1' ELSE 0) \in Int
        <5>1. k * oldest \in Int
          BY <1>t, <4>8
        <5> QED BY <1>m, <1>t, <4>10, <5>1
      <4>12. s2' \in 0 .. Modulus - 1
        BY <1>m, <3>3, <4>11, ModSum
      <4> QED BY <4>10, <4>12
    <3> HIDE DEF backup, update, oldest, newest, more
    <3> QED BY <3>1, <3>2, <3>3
  <2>5. CASE UNCHANGED <<s1, s2>>
    BY <2>5 DEF TypeOK
  <2>6. Start \/ Advance \/ Roll \/ UNCHANGED <<s1, s2>>
    BY DEF Next, Search, Probe, Step, Rest, SendLiteral, SendToken, HashChunk, Matched, Truncate, vars, searchVars
  <2> QED BY <2>2, <2>3, <2>4, <2>5, <2>6
<1>4. hashed' \in Seq(Byte)
  <2>1. CASE HashChunk
    <3> DEFINE n == LesserOf(ChunkSize, n1 - done)
               b == AsSeq(ptr(file, ms, lastMatch + done, n))
    <3>1. n1 \in Int
      <4>1. BlockLen(token) \in Nat /\ upto \in Nat /\ token \in Int
        BY Numbers DEF WindowInv, SearchTypes
      <4> QED BY <1>t, <4>1 DEF n1, n0
    <3>2. n \in Int /\ lastMatch + done \in Nat
      BY <1>t, <3>1, SearchAssumption DEF LesserOf
    <3>3. b \in Seq(Byte)
      BY <1>r, <3>2
    <3>4. hashed' = hashed \o b
      BY <2>1 DEF HashChunk
    <3> HIDE DEF b
    <3> QED BY <3>3, <3>4, ConcatProperties DEF TypeOK
  <2>2. CASE UNCHANGED hashed
    BY <2>2 DEF TypeOK
  <2>3. HashChunk \/ UNCHANGED hashed
    BY DEF Next, Search, Start, Probe, Advance, Roll, Step, Rest, SendLiteral, SendToken, Matched, Truncate, vars
  <2> QED BY <2>1, <2>2, <2>3
<1>5. pc' \in {"start", "probe", "literal", "hash", "advance", "roll", "step",
               "rest", "sum", "panic"}
  <2>1. CASE Matched
    BY <2>1 DEF Matched, SearchInv, Called, Calling
  <2>2. CASE UNCHANGED pc
    BY <2>2 DEF TypeOK
  <2>3. Matched \/ UNCHANGED pc \/ pc' \in {"probe", "literal", "hash", "roll", "step", "rest", "panic"}
    BY DEF Next, Search, Start, Probe, Advance, Roll, Step, Rest, SendLiteral, SendToken, HashChunk,
           CallMatched, Truncate, vars
  <2> QED BY <2>1, <2>2, <2>3
<1> QED BY <1>2, <1>3, <1>4, <1>5 DEF TypeOK

(* The halves of the checksum (rsyncchecksum.go:24) stay below the modulus,*)
(* places within the file, the window within a block, and the token within *)
(* what matched is called with.                                            *)
THEOREM SearchTypeCorrect == Spec => []TypeOK
<1>1. Init => WindowInv /\ SearchInv /\ PlaceInv /\ TypeOK
  BY WindowInit, SearchStart, PlaceStart, TypeStart
<1>2. WindowInv /\ SearchInv /\ PlaceInv /\ TypeOK /\ [Next]_vars
        => (WindowInv /\ SearchInv /\ PlaceInv /\ TypeOK)'
  BY WindowStep, SearchStep, PlaceStep, TypeStep
<1>3. QED
  BY <1>1, <1>2, PTL DEF Spec

-----------------------------------------------------------------------------
(* Where ptr is called, its arguments are places and lengths.              *)
LEMMA CallNumbers ==
  ASSUME WindowInv, SearchInv
  PROVE  /\ offset \in Nat /\ k \in Int /\ lastMatch \in Nat /\ upto \in Nat /\ done \in Nat
         /\ token \in Int /\ fileSize \in Nat /\ B \in Nat \ {0} /\ ChunkSize \in Nat \ {0}
         /\ offset <= fileSize
         /\ LesserOf(B, fileSize - offset) \in Nat
         /\ BlockLen(token) \in Nat \ {0}
         /\ offset + BlockLen(token) - 1 \in Nat
         /\ n0 \in Int /\ n1 \in Int
         /\ LesserOf(ChunkSize, n0 - done) \in Int /\ LesserOf(ChunkSize, n1 - done) \in Int
<1>1. /\ offset \in Nat /\ k \in Int /\ lastMatch \in Nat /\ upto \in Nat /\ done \in Nat
      /\ token \in Int /\ fileSize \in Nat /\ B \in Nat \ {0} /\ ChunkSize \in Nat \ {0}
      /\ offset <= fileSize
  BY Numbers DEF WindowInv, SearchTypes, SearchInv, Positioned
<1>2. BlockLen(token) \in Nat \ {0}
  BY <1>1, Numbers DEF WindowInv
<1>3. LesserOf(B, fileSize - offset) \in Nat
  BY <1>1 DEF LesserOf
<1>4. offset + BlockLen(token) - 1 \in Nat
  <2>1. PICK n \in Nat \ {0} : n = BlockLen(token)
    BY <1>2
  <2>2. offset + n - 1 \in Nat
    BY <1>1
  <2> QED BY <2>1, <2>2
<1>5. n0 \in Int /\ n1 \in Int
  BY <1>1, <1>2 DEF n0, n1
<1>6. LesserOf(ChunkSize, n0 - done) \in Int /\ LesserOf(ChunkSize, n1 - done) \in Int
  BY <1>1, <1>5 DEF LesserOf
<1> QED BY <1>1, <1>2, <1>3, <1>4, <1>5, <1>6

(* A read that has failed stays known.                                     *)
LEMMA ErrStays == WindowInv /\ SearchInv /\ [Next]_vars => (ms.err => ms'.err)
<1> SUFFICES ASSUME WindowInv, SearchInv, [Next]_vars, ms.err PROVE ms'.err
  OBVIOUS
<1>1. ASSUME NEW o \in Nat, NEW l \in Int, ms' = PtrState(file, ms, o, l) PROVE ms'.err
  BY <1>1, CallGives
<1>2. CASE Start
  <2>1. LesserOf(B, fileSize - 0) \in Int
    BY CallNumbers DEF LesserOf
  <2> QED BY <1>1, <1>2, <2>1 DEF Start, ReadChunk
<1>3. CASE Probe
  <2>1. ms' = ms \/ ms' = PtrState(file, ms, offset, LesserOf(B, fileSize - offset))
    BY <1>3 DEF Probe
  <2> QED BY <1>1, <2>1, CallNumbers
<1>4. CASE Advance
  <2> DEFINE o == offset + BlockLen(token) - 1
  <2>1. o \in Nat /\ LesserOf(B, fileSize - o) \in Int
    BY CallNumbers DEF LesserOf
  <2>2. ms' = PtrState(file, ms, o, LesserOf(B, fileSize - o))
    BY <1>4 DEF Advance, ReadChunk
  <2> HIDE DEF o
  <2> QED BY <1>1, <2>1, <2>2
<1>5. CASE Roll
  <2> DEFINE backup == GreaterOf(offset - lastMatch, 0)
             more   == offset + k < fileSize
             length == k + (IF more THEN 1 ELSE 0) + backup
             o      == offset - backup
  <2>1. ms' = PtrState(file, ms, o, length)
    BY <1>5 DEF Roll
  <2>2. o \in Nat /\ length \in Int
    BY CallNumbers DEF GreaterOf
  <2> HIDE DEF o, length
  <2> QED BY <1>1, <2>1, <2>2
<1>6. CASE SendLiteral
  <2>1. ms' = PtrState(file, ms, lastMatch + done, LesserOf(ChunkSize, n0 - done))
    BY <1>6 DEF SendLiteral
  <2>2. lastMatch + done \in Nat
    BY CallNumbers
  <2> QED BY <1>1, <2>1, <2>2, CallNumbers
<1>7. CASE HashChunk
  <2>1. ms' = PtrState(file, ms, lastMatch + done, LesserOf(ChunkSize, n1 - done))
    BY <1>7 DEF HashChunk
  <2>2. lastMatch + done \in Nat
    BY CallNumbers
  <2> QED BY <1>1, <2>1, <2>2, CallNumbers
<1>8. CASE UNCHANGED ms
  BY <1>8
<1>9. Start \/ Probe \/ Advance \/ Roll \/ SendLiteral \/ HashChunk \/ UNCHANGED ms
  BY DEF Next, Search, Step, Rest, SendToken, Matched, Truncate, vars
<1> QED BY <1>2, <1>3, <1>4, <1>5, <1>6, <1>7, <1>8, <1>9

-----------------------------------------------------------------------------
(* The rolling checksum is that of the window, and while matched flushes,  *)
(* that of the window one place on.                                        *)
SumsOf(o) == /\ s1 = Sum1(SubSeq(source, o + 1, o + k))
             /\ s2 = Sum2(SubSeq(source, o + 1, o + k))

RollInv ==
  ~ms.err =>
    /\ pc \in {"probe", "roll"} => SumsOf(offset)
    /\ pc = "step" \/ (Calling /\ after = "step") => SumsOf(offset + 1)

(* A chunk that is read gives the sums of the window there.                *)
LEMMA ChunkSums ==
  ASSUME WindowInv, NEW o \in Nat, o <= fileSize, ReadChunk(o), ~ms'.err, UNCHANGED source
  PROVE  SumsOf(offset)'
<1> DEFINE n == LesserOf(B, fileSize - o)
           b == AsSeq(ptr(file, ms, o, n))
<1>1. fileSize \in Nat /\ B \in Nat
  BY Numbers DEF WindowInv
<1>2. n \in Int /\ n >= 0 /\ o + n <= fileSize
  BY <1>1 DEF LesserOf
<1>3. offset' = o /\ k' = n /\ s1' = Sum1(b) /\ s2' = Sum2(b) /\ ms' = PtrState(file, ms, o, n)
  BY DEF ReadChunk
<1> HIDE DEF n
<1>4. b = SubSeq(source, o + 1, o + n)
  BY <1>2, <1>3, CallReads
<1> HIDE DEF b
<1> QED BY <1>3, <1>4 DEF SumsOf, Sum1, Sum2, Partial1, Partial2

(* One step of the update.                                                 *)
LEMMA RollSums ==
  ASSUME WindowInv, SearchInv, PlaceInv, Roll, ~ms'.err, SumsOf(offset), pc' # "panic"
  PROVE  SumsOf(offset + 1)'
<1> DEFINE backup == GreaterOf(offset - lastMatch, 0)
           more   == offset + k < fileSize
           length == k + (IF more THEN 1 ELSE 0) + backup
           o      == offset - backup
           update == ptr(file, ms, o, length)
           oldest == update[backup]
           newest == IF more THEN update[backup + k] ELSE 0
           w == SubSeq(source, offset + 1, offset + k)
           v == SubSeq(source, (offset + 1) + 1, (offset + 1) + k')
<1>1. /\ ms' = PtrState(file, ms, o, length) /\ UNCHANGED <<source, offset>>
      /\ backup \in DOMAIN update
      /\ s1' = (s1 - oldest + newest) % Modulus
      /\ s2' = (s2 - k * oldest + (IF more THEN s1' ELSE 0)) % Modulus
      /\ k' = IF more THEN k ELSE k - 1
  BY DEF Roll, Shrunk, inputVars
<1>2. /\ offset \in Nat /\ k \in Int /\ lastMatch \in Nat /\ fileSize \in Nat /\ B \in Nat \ {0}
      /\ offset <= fileSize /\ fileSize = Len(source)
  BY CallNumbers DEF fileSize
<1>3. k = LesserOf(B, fileSize - offset)
  BY DEF SearchInv, Positioned, Roll
<1>4. k \in Nat /\ offset + k <= fileSize /\ (k = 0 => ~more)
  BY <1>2, <1>3 DEF LesserOf
<1>5. backup \in Nat /\ backup <= offset /\ o \in Nat /\ o + backup = offset
  BY <1>2 DEF GreaterOf
<1>6. /\ length \in Nat /\ o + length <= fileSize /\ (more => o + length = offset + k + 1)
      /\ (more => backup + k < length) /\ (~more => length = backup + k)
  BY <1>2, <1>4, <1>5
<1> HIDE DEF length, o, backup
<1>7. update = Slice(AsFile(source), o, length)
  <2>1. ~PtrState(file, ms, o, length).err /\ length \in Int /\ length >= 0
    BY <1>1, <1>6
  <2> QED BY <1>5, <2>1, CallGives
<1>8. source \in Seq(Byte) /\ Byte \subseteq Int
  BY MapAssumption DEF WindowInv, InputTypes
<1>9. \A i \in 0 .. length - 1 : update[i] = source[o + i + 1]
  BY <1>5, <1>6, <1>7, <1>8, SliceSeq
<1>10. backup \in 0 .. length - 1
  BY <1>1, <1>7 DEF Slice
<1>11. k >= 1
  BY <1>4, <1>5, <1>6, <1>10
<1>12. oldest = source[offset + 1]
  <2>1. o + backup + 1 = offset + 1
    BY <1>5
  <2> HIDE DEF update
  <2>2. update[backup] = source[o + backup + 1]
    BY <1>9, <1>10
  <2> QED BY <2>1, <2>2
<1>13. newest = IF more THEN source[offset + k + 1] ELSE 0
  <2> SUFFICES ASSUME more PROVE update[backup + k] = source[offset + k + 1]
    BY Zenon
  <2>1. backup + k \in 0 .. length - 1 /\ o + (backup + k) + 1 = offset + k + 1
    BY <1>2, <1>4, <1>5, <1>6
  <2> HIDE DEF update
  <2> QED BY <1>9, <2>1
<1> HIDE DEF update
<1> DEFINE n == k - 1
<1>14. n \in Nat /\ n + 1 = k
  BY <1>4, <1>11
<1>15. /\ w \in Seq(Byte) /\ Len(w) = n + 1
       /\ \A i \in 1 .. n + 1 : w[i] = source[offset + i]
  <2>1. offset + k \in Nat /\ offset <= offset + k /\ offset + k <= Len(source) /\ (offset + k) - offset = n + 1
    BY <1>2, <1>4, <1>14
  <2> DEFINE e == offset + k
  <2>2. e \in Nat /\ offset <= e /\ e <= Len(source) /\ e - offset = n + 1
    BY <2>1
  <2> HIDE DEF n, e
  <2>3. /\ SubSeq(source, offset + 1, e) \in Seq(Byte) /\ Len(SubSeq(source, offset + 1, e)) = n + 1
        /\ \A i \in 1 .. n + 1 : SubSeq(source, offset + 1, e)[i] = source[offset + i]
    BY <1>2, <1>8, <2>2, Part
  <2> QED BY <2>3 DEF e
<1>16. k' \in Nat /\ offset + 1 + k' <= fileSize /\ k' = IF more THEN n + 1 ELSE n
  BY <1>1, <1>2, <1>4, <1>11, <1>14
<1>17. /\ v \in Seq(Byte) /\ Len(v) = k'
       /\ \A i \in 1 .. k' : v[i] = source[(offset + 1) + i]
  <2> DEFINE z == k'
  <2>1. z \in Nat /\ offset + 1 + z <= fileSize
    BY <1>16
  <2> HIDE DEF z
  <2> DEFINE a == offset + 1
             e == (offset + 1) + z
  <2>2. a \in Nat /\ e \in Nat /\ a <= e /\ e <= Len(source) /\ e - a = z
    BY <1>2, <2>1
  <2> HIDE DEF a, e
  <2>3. /\ SubSeq(source, a + 1, e) \in Seq(Byte) /\ Len(SubSeq(source, a + 1, e)) = z
        /\ \A i \in 1 .. z : SubSeq(source, a + 1, e)[i] = source[a + i]
    BY <1>8, <2>2, Part
  <2> QED BY <2>3 DEF a, e, z
<1>18. w \in Seq(Int) /\ v \in Seq(Int)
  BY <1>15, <1>17, Ints
<1>19. s1 = Sum1(w) /\ s2 = Sum2(w)
  BY DEF SumsOf
<1> HIDE DEF w, v
<1>20. \A i \in 1 .. n : v[i] = w[i + 1]
  <2> SUFFICES ASSUME NEW i \in 1 .. n PROVE v[i] = w[i + 1]
    OBVIOUS
  <2>1. i \in 1 .. k' /\ i + 1 \in 1 .. n + 1 /\ (offset + 1) + i = offset + (i + 1)
    BY <1>2, <1>14, <1>16
  <2> QED BY <1>15, <1>17, <2>1
<1>21. w[1] = oldest
  <2>1. 1 \in 1 .. n + 1
    BY <1>14
  <2> QED BY <1>12, <1>15, <2>1
<1>22. Sum1(v) = s1' /\ Sum2(v) = s2'
  <2>1. CASE more
    <3>1. Len(v) = n + 1 /\ n + 1 \in 1 .. k' /\ (offset + 1) + (n + 1) = offset + k + 1
      BY <1>2, <1>14, <1>16, <1>17, <2>1
    <3>2. v[n + 1] = newest
      BY <1>13, <1>17, <2>1, <3>1
    <3>3. /\ Sum1(v) = (Sum1(w) - w[1] + v[n + 1]) % Modulus
          /\ Sum2(v) = (Sum2(w) - (n + 1) * w[1] + Sum1(v)) % Modulus
      BY <1>14, <1>15, <1>18, <1>20, <3>1, RolledOn
    <3>4. Sum1(v) = s1'
      BY <1>1, <1>19, <1>21, <3>2, <3>3
    <3>5. (Sum2(w) - (n + 1) * w[1] + Sum1(v)) = s2 - k * oldest + s1'
      BY <1>14, <1>19, <1>21, <3>4
    <3>6. s2' = (s2 - k * oldest + s1') % Modulus
      BY <1>1, <2>1
    <3> QED BY <3>3, <3>4, <3>5, <3>6
  <2>2. CASE ~more
    <3>1. Len(v) = n
      BY <1>16, <1>17, <2>2
    <3>2. /\ Sum1(v) = (Sum1(w) - w[1]) % Modulus
          /\ Sum2(v) = (Sum2(w) - (n + 1) * w[1]) % Modulus
      BY <1>14, <1>15, <1>18, <1>20, <3>1, RolledShorter
    <3>3. s1 \in Int /\ s2 \in Int /\ oldest \in Int /\ k * oldest \in Int
      <4>1. Modulus \in Nat
        BY SearchAssumption
      <4>2. w[1] \in Int
        BY <1>14, <1>15, <1>18, TotalTypes
      <4> HIDE DEF oldest
      <4>3. s1 \in Int /\ s2 \in Int
        BY <1>18, <1>19, <4>1, SumsRange
      <4> QED BY <1>2, <1>21, <4>2, <4>3
    <3>4. s1' = (s1 - oldest + 0) % Modulus /\ s2' = (s2 - k * oldest + 0) % Modulus
      BY <1>1, <2>2
    <3>5. s1 - oldest + 0 = s1 - oldest /\ s2 - k * oldest + 0 = s2 - k * oldest
      BY <3>3
    <3> QED BY <1>14, <1>19, <1>21, <3>2, <3>4, <3>5
  <2> QED BY <2>1, <2>2
<1>23. source' = source /\ offset' = offset
  BY <1>1
<1>24. SubSeq(source', (offset' + 1) + 1, (offset' + 1) + k') = v
  BY <1>23 DEF v
<1> QED BY <1>22, <1>24 DEF SumsOf

LEMMA RollStart == Init => RollInv
BY DEF Init, RollInv, Calling

LEMMA RollStep ==
  WindowInv /\ SearchInv /\ PlaceInv /\ RollInv /\ [Next]_vars => RollInv'
<1> SUFFICES ASSUME WindowInv, SearchInv, PlaceInv, RollInv, [Next]_vars, ~ms'.err
             PROVE  /\ (pc' \in {"probe", "roll"} => SumsOf(offset)')
                    /\ (pc' = "step" \/ (Calling' /\ after' = "step") => SumsOf(offset + 1)')
  BY DEF RollInv
<1>e. ~ms.err
  BY ErrStays
<1>s. /\ (pc \in {"probe", "roll"} => SumsOf(offset))
      /\ (pc = "step" \/ (Calling /\ after = "step") => SumsOf(offset + 1))
  BY <1>e DEF RollInv
<1>1. CASE Start
  <2>1. 0 \in Nat /\ 0 <= fileSize
    BY CallNumbers
  <2>2. ReadChunk(0) /\ UNCHANGED source /\ pc' = "probe"
    BY <1>1 DEF Start, inputVars
  <2> QED BY <2>1, <2>2, ChunkSums DEF Calling
<1>2. CASE Probe
  <2>1. pc = "probe" /\ UNCHANGED <<source, offset, k, s1, s2>>
    BY <1>2 DEF Probe, inputVars, searchVars
  <2>2. pc' = "roll" \/ (pc' = "literal" /\ after' = "advance")
    BY <1>2 DEF Probe, CallMatched
  <2>3. SumsOf(offset)'
    BY <1>s, <2>1 DEF SumsOf
  <2> QED BY <2>2, <2>3 DEF Calling
<1>3. CASE Advance
  <2> DEFINE o == offset + BlockLen(token) - 1
  <2>1. ReadChunk(o) /\ UNCHANGED source /\ pc' \in {"rest", "roll"}
    BY <1>3 DEF Advance, inputVars
  <2>2. o \in Nat /\ o <= fileSize
    <3>1. lastMatch = offset + BlockLen(token) /\ lastMatch <= fileSize
      BY <1>3 DEF Advance, SearchInv, Called, PlaceInv
    <3>2. PICK n \in Nat \ {0} : n = BlockLen(token)
      BY CallNumbers
    <3>3. offset \in Nat /\ fileSize \in Nat /\ lastMatch \in Nat
      BY CallNumbers
    <3>4. offset + n - 1 \in Nat /\ offset + n - 1 <= fileSize
      BY <3>1, <3>2, <3>3
    <3> QED BY <3>2, <3>4
  <2> HIDE DEF o
  <2> QED BY <2>1, <2>2, ChunkSums DEF Calling
<1>4. CASE Roll
  <2>1. pc' = "panic" \/ pc' = "step" \/ (pc' = "literal" /\ after' = "step")
    BY <1>4 DEF Roll, CallMatched
  <2>2. SumsOf(offset)
    BY <1>4, <1>s DEF Roll
  <2> QED BY <1>4, <2>1, <2>2, RollSums DEF Calling
<1>5. CASE Step
  <2>1. offset' = offset + 1 /\ UNCHANGED <<source, k, s1, s2>> /\ pc' \in {"rest", "probe"}
    BY <1>5 DEF Step, inputVars
  <2>2. SumsOf(offset + 1)
    BY <1>5, <1>s DEF Step
  <2>3. SumsOf(offset)'
    BY <2>1, <2>2 DEF SumsOf
  <2> QED BY <2>1, <2>3 DEF Calling
<1>6. CASE Rest
  BY <1>6 DEF Rest, CallMatched, Calling
<1>7. CASE SendLiteral \/ SendToken \/ HashChunk \/ Matched
  <2>1. UNCHANGED <<source, offset, k, s1, s2, after>> /\ Calling
    BY <1>7 DEF SendLiteral, SendToken, HashChunk, Matched, inputVars, searchVars, Calling
  <2>2. Calling' \/ pc' = after
    BY <1>7 DEF SendLiteral, SendToken, HashChunk, Matched, Calling
  <2>3. after = "step" => SumsOf(offset + 1)
    BY <1>s, <2>1
  <2>4. after = "step" => SumsOf(offset + 1)'
    BY <2>1, <2>3 DEF SumsOf
  <2>5. after \in {"step", "advance", "sum"}
    BY <2>1 DEF SearchInv, Called
  <2> QED BY <2>1, <2>2, <2>4, <2>5 DEF Calling
<1>8. CASE Truncate \/ UNCHANGED vars
  <2>1. UNCHANGED <<source, offset, k, s1, s2, after, pc>>
    BY <1>8 DEF Truncate, inputVars, searchVars, matchedVars, vars
  <2> QED BY <1>s, <2>1 DEF SumsOf, Calling
<1> QED
  BY <1>1, <1>2, <1>3, <1>4, <1>5, <1>6, <1>7, <1>8 DEF Next, Search

(* The rolling checksum that is looked up in the tag table is the checksum *)
(* of the window it stands for: after every update (match.go:161), at the  *)
(* end of the file where the window shrinks, after a match (match.go:143), *)
(* and where the sums wrap.                                                *)
THEOREM ChecksumRolls == Spec => []RollingIsDirect
<1>1. Init => WindowInv /\ SearchInv /\ PlaceInv /\ RollInv
  BY WindowInit, SearchStart, PlaceStart, RollStart
<1>2. WindowInv /\ SearchInv /\ PlaceInv /\ RollInv /\ [Next]_vars
        => (WindowInv /\ SearchInv /\ PlaceInv /\ RollInv)'
  BY WindowStep, SearchStep, PlaceStep, RollStep
<1>3. SearchInv /\ RollInv => RollingIsDirect
  BY DEF SearchInv, Positioned, RollInv, SumsOf, RollingIsDirect
<1>4. QED
  BY <1>1, <1>2, <1>3, PTL DEF Spec

-----------------------------------------------------------------------------
(* A block lies within the copy.                                           *)
LEMMA BlockWithin ==
  ASSUME InputTypes, NEW i \in 0 .. Count - 1
  PROVE  /\ i * B \in Nat /\ BlockLen(i) \in 1 .. B /\ i * B + BlockLen(i) <= Len(copy)
         /\ Block(i) \in Seq(Byte) /\ Len(Block(i)) = BlockLen(i)
<1> DEFINE L == Len(copy)
           r == head.RemainderLength
           c == head.ChecksumCount
<1>1. L \in Nat /\ B \in Nat \ {0} /\ copy \in Seq(Byte)
  BY LenProperties DEF InputTypes
<1>2. TrueHead(head, L) /\ head.BlockLength = B /\ c = Count
  BY <1>1 DEF TrueHead, head, Count
<1> HIDE DEF L
<1>3. /\ c \in Nat /\ r \in 0 .. B - 1
      /\ L = (IF r = 0 THEN c ELSE c - 1) * B + r
  BY <1>1, <1>2, TrueHeadNumbers
<1>4. BlockLen(i) = IF i = c - 1 /\ r # 0 THEN r ELSE B
  BY <1>2 DEF BlockLen, SumLen
<1> HIDE DEF r, c
<1>5. i \in Nat /\ i <= c - 1 /\ c \in Nat
  BY <1>2, <1>3
<1>6. BlockLen(i) \in 1 .. B
  BY <1>1, <1>3, <1>4
<1>7. i * B + BlockLen(i) <= L
  <2>m. \A x, y \in Nat : x <= y => (x * B <= y * B /\ x * B \in Nat /\ y * B \in Nat /\ (x + 1) * B = x * B + B)
    BY <1>1
  <2>1. CASE r = 0
    <3>1. i + 1 \in Nat /\ i + 1 <= c
      BY <1>5
    <3>2. (i + 1) * B <= c * B /\ (i + 1) * B = i * B + B /\ c * B \in Nat /\ i * B \in Nat
      BY <1>5, <2>m, <3>1
    <3>3. L = c * B + 0
      BY <1>3, <2>1
    <3> QED BY <1>1, <1>4, <2>1, <3>2, <3>3
  <2>2. CASE r # 0 /\ i = c - 1
    BY <1>1, <1>3, <1>4, <1>5, <2>2
  <2>3. CASE r # 0 /\ i # c - 1
    <3>1. i + 1 \in Nat /\ i + 1 <= c - 1 /\ c - 1 \in Nat
      BY <1>5, <2>3
    <3>2. (i + 1) * B <= (c - 1) * B /\ (i + 1) * B = i * B + B /\ (c - 1) * B \in Nat /\ i * B \in Nat
      BY <1>5, <2>m, <3>1
    <3>3. L = (c - 1) * B + r
      BY <1>3, <2>3
    <3> QED BY <1>1, <1>3, <1>4, <2>3, <3>2, <3>3
  <2> QED BY <2>1, <2>2, <2>3
<1>8. i * B \in Nat
  BY <1>1, <1>5
<1> DEFINE a == i * B
           n == BlockLen(i)
           e == i * B + BlockLen(i)
<1>9. a \in Nat /\ e \in Nat /\ a <= e /\ e <= Len(copy) /\ e - a = n
  BY <1>6, <1>7, <1>8 DEF L
<1>10. Block(i) = SubSeq(copy, a + 1, e)
  BY DEF Block
<1> HIDE DEF a, e, n
<1>11. SubSeq(copy, a + 1, e) \in Seq(Byte) /\ Len(SubSeq(copy, a + 1, e)) = n
  BY <1>1, <1>9, Part
<1> QED BY <1>6, <1>7, <1>8, <1>10, <1>11 DEF n, L

-----------------------------------------------------------------------------
(* What tokens are: the end token and literals of bytes, and references to *)
(* blocks that exist.                                                      *)
Token ==
  [t : {"data", "end"}, n : Int, d : Seq(Byte)] \cup [t : {"ref"}, n : 0 .. Count - 1, d : Seq(Byte)]
Pieces(w) == [i \in 1 .. Len(w) |-> Piece(w[i])]

LEMMA PieceBytes ==
  ASSUME InputTypes, NEW t \in Token
  PROVE  Piece(t) \in Seq(Byte)
<1>1. t.t = "data" => t.d \in Seq(Byte)
  BY DEF Token
<1>2. t.t = "ref" => t.n \in 0 .. Count - 1
  BY DEF Token
<1>3. <<>> \in Seq(Byte)
  BY EmptySeq
<1> QED BY <1>1, <1>2, <1>3, BlockWithin DEF Piece

(* How Joined goes on.                                                     *)
LEMMA JoinedIs ==
  ASSUME NEW w \in Seq(Seq(Byte))
  PROVE  \E r : /\ r[0] = <<>> /\ Joined(w) = r[Len(w)]
                /\ \A i \in 1 .. Len(w) : r[i] = r[i - 1] \o w[i]
<1> DEFINE n == Len(w)
           S == Seq(Byte)
           Is(d) == d = [i \in 0 .. n |-> IF i = 0 THEN <<>> ELSE d[i - 1] \o w[i]]
           T == [i \in 1 .. n |-> [s \in S |-> s \o w[i]]]
<1>1. n \in Nat /\ <<>> \in S /\ \A i \in 1 .. n : w[i] \in S
  BY LenProperties, EmptySeq, ElementOfSeq
<1>2. T \in [1 .. n -> [S -> S]]
  <2>1. \A i \in 1 .. n : \A s \in S : s \o w[i] \in S
    BY <1>1, ConcatProperties
  <2> HIDE DEF S
  <2> QED BY <2>1
<1>3. PICK p \in [0 .. n -> S] : Follows(p, n, <<>>, T)
  <2> HIDE DEF T, n, Is, S
  <2> QED BY <1>1, <1>2, Solution
<1>4. ASSUME NEW i \in 1 .. n PROVE p[i] = p[i - 1] \o w[i]
  <2>1. p[i - 1] \in S
    <3>1. i - 1 \in 0 .. n
      BY <1>1
    <3> HIDE DEF S, n, T, Is
    <3> QED BY <3>1
  <2> HIDE DEF S
  <2>2. T[i] = [s \in S |-> s \o w[i]]
    OBVIOUS
  <2>3. T[i][p[i - 1]] = p[i - 1] \o w[i]
    BY <2>1, <2>2, Zenon
  <2> HIDE DEF T
  <2>4. p[i] = T[i][p[i - 1]]
    BY <1>3 DEF Follows
  <2> QED BY <2>3, <2>4, Zenon
<1>5. Is(p)
  <2>1. \A i \in 0 .. n : i # 0 => i \in 1 .. n
    OBVIOUS
  <2>2. p[0] = <<>>
    BY <1>3 DEF Follows
  <2> HIDE DEF S
  <2> QED BY <1>3, <1>4, <2>1, <2>2
<1> DEFINE c == CHOOSE d : Is(d)
<1>6. Is(c)
  <2> HIDE DEF Is
  <2> QED BY <1>5
<1>7. Joined(w) = c[n]
  BY Zenon DEF Joined
<1> HIDE DEF c
<1> DEFINE Body(i) == IF i = 0 THEN <<>> ELSE c[i - 1] \o w[i]
<1>8. \A i \in 0 .. n : c[i] = Body(i)
  <2>1. c = [i \in 0 .. n |-> Body(i)]
    BY <1>6
  <2> HIDE DEF Body, Is
  <2> QED BY <2>1
<1>9. c[0] = <<>> /\ \A i \in 1 .. n : c[i] = c[i - 1] \o w[i]
  <2>1. 0 \in 0 .. n /\ \A i \in 1 .. n : i \in 0 .. n /\ i # 0
    BY <1>1
  <2> QED BY <1>8, <2>1
<1> QED BY <1>7, <1>9

LEMMA JoinedStart == Joined(<<>>) = <<>>
<1>1. Len(<<>>) = 0 /\ <<>> \in Seq(Seq(Byte))
  OBVIOUS
<1> QED BY <1>1, JoinedIs

(* One piece more.                                                         *)
LEMMA JoinedMore ==
  ASSUME NEW w \in Seq(Seq(Byte)), NEW u \in Seq(Seq(Byte)), NEW x \in Seq(Byte),
         Len(u) = Len(w) + 1, u[Len(w) + 1] = x, \A i \in 1 .. Len(w) : u[i] = w[i]
  PROVE  Joined(u) = Joined(w) \o x
<1> DEFINE n == Len(w)
<1>1. /\ n \in Nat /\ Len(u) = n + 1 /\ u[n + 1] = x
      /\ \A i \in 1 .. n : u[i] = w[i]
  BY LenProperties
<1>2. PICK c : /\ c[0] = <<>> /\ Joined(w) = c[n]
               /\ \A i \in 1 .. n : c[i] = c[i - 1] \o w[i]
  BY JoinedIs
<1>3. PICK d : /\ d[0] = <<>> /\ Joined(u) = d[n + 1]
               /\ \A i \in 1 .. n + 1 : d[i] = d[i - 1] \o u[i]
  <2>1. \E d : /\ d[0] = <<>> /\ Joined(u) = d[Len(u)]
               /\ \A i \in 1 .. Len(u) : d[i] = d[i - 1] \o u[i]
    BY JoinedIs
  <2> HIDE DEF n
  <2> QED BY <1>1, <2>1, Zenon
<1> HIDE DEF n
<1>4. ASSUME NEW i \in 1 .. n, d[i - 1] = c[i - 1] PROVE d[i] = c[i]
  <2>1. i \in 1 .. n + 1
    BY <1>1
  <2>2. d[i] = d[i - 1] \o u[i] /\ c[i] = c[i - 1] \o w[i] /\ u[i] = w[i]
    BY <1>1, <1>2, <1>3, <2>1, Zenon
  <2> QED BY <1>4, <2>2, Zenon
<1>5. d[n] = c[n]
  <2>1. d[0] = c[0] /\ n \in Nat
    BY <1>1, <1>2, <1>3
  <2>2. \A i \in 0 .. n : d[i] = c[i]
    <3>1. \A i \in 1 .. n : d[i - 1] = c[i - 1] => d[i] = c[i]
      BY <1>4
    <3> QED BY <2>1, <3>1, Alike, ZenonT(60)
  <2> QED BY <2>1, <2>2
<1>6. n + 1 \in 1 .. n + 1 /\ (n + 1) - 1 = n
  BY <1>1
<1>7. d[n + 1] = d[n] \o u[n + 1]
  BY <1>3, <1>6
<1> QED BY <1>1, <1>2, <1>3, <1>5, <1>7

LEMMA LongerSeq ==
  ASSUME NEW S, NEW w \in Seq(S), NEW m \in S
  PROVE  /\ Append(w, m) \in Seq(S) /\ Len(w) \in Nat /\ Len(Append(w, m)) = Len(w) + 1
         /\ Append(w, m)[Len(w) + 1] = m
         /\ \A i \in 1 .. Len(w) : Append(w, m)[i] = w[i]
BY AppendProperties, LenProperties

(* What one token more adds to what the other side builds.                 *)
LEMMA PiecesMore ==
  ASSUME InputTypes, NEW w \in Seq(Token), NEW t \in Token
  PROVE  Joined(Pieces(Append(w, t))) = Joined(Pieces(w)) \o Piece(t)
<1> DEFINE v == Append(w, t)
           n == Len(w)
<1>1. /\ v \in Seq(Token) /\ n \in Nat /\ Len(v) = n + 1 /\ v[n + 1] = t
      /\ \A i \in 1 .. n : v[i] = w[i]
  BY LongerSeq
<1> HIDE DEF v
<1>2. ASSUME NEW z \in Seq(Token)
      PROVE  /\ Pieces(z) \in Seq(Seq(Byte)) /\ Len(Pieces(z)) = Len(z)
             /\ \A i \in 1 .. Len(z) : Pieces(z)[i] = Piece(z[i])
  <2>1. Len(z) \in Nat /\ \A i \in 1 .. Len(z) : z[i] \in Token
    BY LenProperties, ElementOfSeq
  <2>2. \A i \in 1 .. Len(z) : Piece(z[i]) \in Seq(Byte)
    BY <2>1, PieceBytes
  <2> DEFINE y == [i \in 1 .. Len(z) |-> Piece(z[i])]
  <2>3. y \in [1 .. Len(z) -> Seq(Byte)] /\ \A i \in 1 .. Len(z) : y[i] = Piece(z[i])
    BY <2>2
  <2>4. Pieces(z) = y
    BY DEF Pieces
  <2> HIDE DEF y
  <2> DEFINE S == Seq(Byte)
  <2> HIDE DEF S
  <2>5. y \in [1 .. Len(z) -> S]
    BY <2>3 DEF S
  <2>6. y \in Seq(S) /\ Len(y) = Len(z)
    BY <2>1, <2>5
  <2> QED BY <2>3, <2>4, <2>6 DEF S
<1>3. Piece(t) \in Seq(Byte)
  BY PieceBytes
<1> DEFINE p == Pieces(w)
           q == Pieces(v)
<1>4. p \in Seq(Seq(Byte)) /\ Len(p) = n /\ \A i \in 1 .. n : p[i] = Piece(w[i])
  BY <1>2
<1>5. q \in Seq(Seq(Byte)) /\ Len(q) = n + 1 /\ \A i \in 1 .. n + 1 : q[i] = Piece(v[i])
  BY <1>1, <1>2
<1> HIDE DEF p, q, n
<1>6. Len(q) = Len(p) + 1 /\ q[Len(p) + 1] = Piece(t)
  BY <1>1, <1>4, <1>5
<1>7. \A i \in 1 .. Len(p) : q[i] = p[i]
  BY <1>1, <1>4, <1>5
<1>8. Joined(q) = Joined(p) \o Piece(t)
  BY <1>3, <1>4, <1>5, <1>6, <1>7, JoinedMore, ZenonT(60)
<1> QED BY <1>8 DEF p, q, v

-----------------------------------------------------------------------------
(* Every token written so far is one.                                      *)
TokensInv == tokens \in Seq(Token)

LEMMA InputsStay == [Next]_vars => UNCHANGED inputVars
BY DEF Next, Search, Start, Probe, Advance, Roll, Step, Rest, SendLiteral, SendToken, HashChunk,
       Matched, Truncate, vars

LEMMA TokenKept == ASSUME UNCHANGED inputVars PROVE Token' = Token
BY DEF inputVars, Token, Count, BlockCount

LEMMA RebuiltSame == ASSUME UNCHANGED inputVars, UNCHANGED tokens PROVE Rebuilt' = Rebuilt
BY DEF inputVars, Rebuilt, Piece, Block, BlockLen, SumLen, head, Count, BlockCount

LEMMA RebuiltMore ==
  ASSUME InputTypes, TokensInv, UNCHANGED inputVars, NEW t \in Token, tokens' = Append(tokens, t)
  PROVE  Rebuilt' = Rebuilt \o Piece(t)
<1>1. Rebuilt = Joined(Pieces(tokens))
  BY Zenon DEF Rebuilt, Pieces
<1>2. Rebuilt' = Joined(Pieces(tokens'))
  BY DEF inputVars, Rebuilt, Pieces, Piece, Block, BlockLen, SumLen, head, Count, BlockCount
<1>3. Joined(Pieces(Append(tokens, t))) = Joined(Pieces(tokens)) \o Piece(t)
  BY PiecesMore DEF TokensInv
<1> QED BY <1>1, <1>2, <1>3

LEMMA TokensStep == WindowInv /\ SearchInv /\ PlaceInv /\ TokensInv /\ [Next]_vars => TokensInv'
<1> SUFFICES ASSUME WindowInv, SearchInv, PlaceInv, TokensInv, [Next]_vars PROVE tokens' \in Seq(Token)
  BY InputsStay, TokenKept DEF TokensInv
<1>i. InputTypes
  BY DEF WindowInv
<1>1. CASE SendLiteral
  <2> DEFINE n == LesserOf(ChunkSize, n0 - done)
             b == ptr(file, ms, lastMatch + done, n)
  <2>1. n \in Int /\ lastMatch + done \in Nat
    BY CallNumbers
  <2>2. AsSeq(b) \in Seq(Byte)
    BY <2>1, CallReads
  <2>3. tokens' = Append(tokens, Literal(n, b))
    BY <1>1 DEF SendLiteral
  <2> HIDE DEF n, b
  <2>4. Literal(n, b) \in Token
    BY <2>1, <2>2 DEF Literal, Token
  <2> QED BY <2>3, <2>4, AppendProperties DEF TokensInv
<1>2. CASE SendToken
  <2>1. EndToken \in Token
    BY EmptySeq DEF EndToken, Token
  <2>2. token >= 0 => Reference(token) \in Token
    BY EmptySeq DEF Reference, Token, PlaceInv
  <2>3. token \in -2 .. Count - 1 /\ Count \in Nat
    BY <1>i, HasBlocks DEF PlaceInv
  <2>4. \/ tokens' = tokens
        \/ tokens' = Append(tokens, EndToken)
        \/ token >= 0 /\ tokens' = Append(tokens, Reference(token))
    BY <1>2, <2>3 DEF SendToken
  <2> QED BY <2>1, <2>2, <2>4, AppendProperties DEF TokensInv
<1>3. CASE UNCHANGED tokens
  BY <1>3 DEF TokensInv
<1>4. SendLiteral \/ SendToken \/ UNCHANGED tokens
  BY DEF Next, Search, Start, Probe, Advance, Roll, Step, Rest, HashChunk, Matched, Truncate, vars
<1> QED BY <1>1, <1>2, <1>3, <1>4

-----------------------------------------------------------------------------
(* Between calls of matched, what the tokens stand for and what was hashed *)
(* are the file up to lastMatch; during a call the literals come first,    *)
(* then the reference, then the bytes that are hashed.                     *)
FileTo(n) == SubSeq(source, 1, n)
Whole(t)  == t.t = "data" => Len(t.d) = t.n /\ t.n \in 1 .. ChunkSize

AllWhole     == \A i \in 1 .. Len(tokens) : Whole(tokens[i])
LiteralBuilt == done <= n0 /\ Rebuilt = FileTo(lastMatch + done) /\ hashed = FileTo(lastMatch)
HashBuilt    == Rebuilt = FileTo(MatchEnd) /\ hashed = FileTo(lastMatch + LesserOf(done, n1))
IdleBuilt    == Rebuilt = FileTo(lastMatch) /\ hashed = FileTo(lastMatch)
MatchFits    == Block(token) = SubSeq(source, upto + 1, upto + BlockLen(token))

BuiltInv ==
  ~ms.err =>
    /\ AllWhole
    /\ pc = "literal" => LiteralBuilt
    /\ pc = "hash" => HashBuilt
    /\ pc \notin {"literal", "hash", "panic"} => IdleBuilt
    /\ Calling /\ token >= 0 => MatchFits
    /\ pc = "sum" => lastMatch = fileSize

LEMMA BuiltStart == Init => TokensInv /\ BuiltInv
<1> SUFFICES ASSUME Init PROVE TokensInv /\ BuiltInv
  OBVIOUS
<1>1. tokens = <<>> /\ hashed = <<>> /\ lastMatch = 0 /\ pc = "start"
  BY DEF Init
<1>2. Len(tokens) = 0 /\ tokens \in Seq(Token)
  BY <1>1, EmptySeq
<1>3. Rebuilt = <<>>
  <2>1. [i \in 1 .. Len(tokens) |-> Piece(tokens[i])] = <<>>
    BY <1>2
  <2> QED BY <2>1, JoinedStart DEF Rebuilt
<1>4. FileTo(0) = <<>>
  <2>1. source \in Seq(Byte) /\ 0 <= Len(source)
    BY WindowInit, LenProperties DEF WindowInv, InputTypes
  <2>2. SubSeq(source, 0 + 1, 0) \in Seq(Byte) /\ Len(SubSeq(source, 0 + 1, 0)) = 0
    BY <2>1, Part
  <2>3. SubSeq(source, 0 + 1, 0) = <<>>
    BY <2>2, EmptySeq
  <2> QED BY <2>3 DEF FileTo
<1> QED BY <1>1, <1>2, <1>3, <1>4 DEF TokensInv, BuiltInv, AllWhole, IdleBuilt, Calling

(* What is read at the end of what is there makes it longer.               *)
LEMMA FileOn ==
  ASSUME WindowInv, NEW o \in Nat, NEW l \in Nat, o + l <= fileSize,
         ~PtrState(file, ms, o, l).err
  PROVE  FileTo(o) \o AsSeq(ptr(file, ms, o, l)) = FileTo(o + l)
<1> DEFINE e == o + l
<1>1. source \in Seq(Byte) /\ e \in Nat /\ o <= e /\ e <= Len(source)
  BY DEF WindowInv, InputTypes, fileSize
<1>2. AsSeq(ptr(file, ms, o, l)) = SubSeq(source, o + 1, e)
  <2>1. l \in Int /\ l >= 0
    OBVIOUS
  <2> QED BY <2>1, CallReads
<1> HIDE DEF e
<1>3. SubSeq(source, 1, o) \o SubSeq(source, o + 1, e) = SubSeq(source, 1, e)
  BY <1>1, Adjoining
<1> QED BY <1>2, <1>3 DEF FileTo, e

(* The lengths of a call of matched.                                       *)
LEMMA CallLengths ==
  ASSUME WindowInv, SearchInv, PlaceInv, Calling
  PROVE  /\ n0 \in Nat /\ n1 \in Nat /\ lastMatch + n0 = upto /\ lastMatch + n1 = MatchEnd
         /\ MatchEnd \in Nat /\ upto <= MatchEnd /\ MatchEnd <= fileSize
         /\ token < 0 => MatchEnd = upto
         /\ token >= 0 => after = "advance" /\ MatchEnd = upto + BlockLen(token)
<1>1. /\ offset \in Nat /\ lastMatch \in Nat /\ upto \in Nat /\ token \in Int /\ fileSize \in Nat
      /\ BlockLen(token) \in Nat
  BY CallNumbers
<1>2. lastMatch <= upto /\ upto <= fileSize
  BY DEF PlaceInv
<1>3. token >= 0 => after = "advance"
  BY DEF SearchInv, Called
<1>4. after = "advance" => upto = offset /\ BlockLen(token) <= fileSize - offset
  BY DEF SearchInv, Called
<1> QED BY <1>1, <1>2, <1>3, <1>4 DEF n0, n1, MatchEnd

(* What follows from the inputs alone stays.                               *)
LEMMA CallKept ==
  ASSUME UNCHANGED inputVars, UNCHANGED <<lastMatch, upto, token>>, token \in Int
  PROVE  /\ n0' = n0 /\ n1' = n1 /\ MatchEnd' = MatchEnd /\ fileSize' = fileSize
         /\ MatchFits' = MatchFits
  BY DEF inputVars, n0, n1, MatchEnd, MatchFits, Block, fileSize, BlockLen, SumLen, head, Count, BlockCount

LEMMA LiteralStep ==
  ASSUME WindowInv, SearchInv, PlaceInv, TokensInv, BuiltInv, SendLiteral, ~ms.err, ~ms'.err
  PROVE  AllWhole' /\ LiteralBuilt' /\ pc' = "literal"
<1> DEFINE o == lastMatch + done
           n == LesserOf(ChunkSize, n0 - done)
           b == ptr(file, ms, o, n)
           t == Literal(n, b)
<1>1. /\ pc = "literal" /\ pc' = "literal" /\ done < n0 /\ UNCHANGED <<lastMatch, upto, token, hashed>>
      /\ tokens' = Append(tokens, t) /\ ms' = PtrState(file, ms, o, n) /\ done' = done + n
      /\ UNCHANGED inputVars
  BY DEF SendLiteral
<1>2. AllWhole /\ LiteralBuilt
  BY <1>1 DEF BuiltInv
<1>3. /\ n0 \in Nat /\ lastMatch + n0 = upto /\ upto <= fileSize
      /\ lastMatch \in Nat /\ done \in Nat /\ fileSize \in Nat /\ ChunkSize \in Nat \ {0}
      /\ token \in Int
  BY <1>1, CallLengths, CallNumbers DEF Calling, PlaceInv
<1>4. n \in Nat /\ n \in 1 .. ChunkSize /\ done + n <= n0 /\ o \in Nat /\ o + n <= fileSize
  BY <1>1, <1>3 DEF LesserOf
<1>5. n0' = n0 /\ MatchEnd' = MatchEnd
  BY <1>1, <1>3, CallKept
<1>6. AsSeq(b) \in Seq(Byte) /\ Len(AsSeq(b)) = n
  <2>1. source \in Seq(Byte) /\ fileSize = Len(source)
    BY DEF WindowInv, InputTypes, fileSize
  <2>2. ~PtrState(file, ms, o, n).err
    BY <1>1
  <2> DEFINE e == o + n
  <2>3. e \in Nat /\ o <= e /\ e <= Len(source) /\ e - o = n /\ n \in Int /\ n >= 0
    BY <1>4, <2>1
  <2>4. AsSeq(b) \in Seq(Byte) /\ AsSeq(b) = SubSeq(source, o + 1, e)
    BY <1>4, <2>2, <2>3, CallReads
  <2> HIDE DEF o, n, b, e
  <2>5. Len(SubSeq(source, o + 1, e)) = n
    BY <1>4, <2>1, <2>3, Part
  <2> QED BY <2>4, <2>5
<1>7. FileTo(o) \o AsSeq(b) = FileTo(o + n)
  <2>1. ~PtrState(file, ms, o, n).err
    BY <1>1
  <2> QED BY <1>4, <2>1, FileOn
<1> HIDE DEF n, b, o
<1>8. t \in Token /\ Piece(t) = AsSeq(b) /\ Whole(t)
  BY <1>4, <1>6 DEF Token, Literal, Piece, Whole
<1> HIDE DEF t
<1>9. Rebuilt' = Rebuilt \o AsSeq(b)
  BY <1>1, <1>8, RebuiltMore DEF WindowInv
<1>10. Rebuilt' = FileTo(o + n)
  BY <1>2, <1>7, <1>9 DEF LiteralBuilt, o
<1>11. AllWhole'
  <2>1. /\ Len(tokens) \in Nat /\ Len(tokens') = Len(tokens) + 1 /\ tokens'[Len(tokens) + 1] = t
        /\ \A i \in 1 .. Len(tokens) : tokens'[i] = tokens[i]
    BY <1>1, <1>8, LongerSeq DEF TokensInv
  <2>2. \A i \in 1 .. Len(tokens') : Whole(tokens'[i])
    <3> SUFFICES ASSUME NEW i \in 1 .. Len(tokens') PROVE Whole(tokens'[i])
      OBVIOUS
    <3>1. i \in 1 .. Len(tokens) \/ i = Len(tokens) + 1
      BY <2>1
    <3> QED BY <1>2, <1>8, <2>1, <3>1 DEF AllWhole
  <2> QED BY <2>2 DEF AllWhole, Whole
<1>12. LiteralBuilt'
  <2>1. o + n = lastMatch' + done'
    BY <1>1, <1>3, <1>4 DEF o
  <2>2. FileTo(o + n) = FileTo(lastMatch + done)' /\ FileTo(lastMatch)' = FileTo(lastMatch)
    BY <1>1, <2>1 DEF FileTo, inputVars
  <2>3. done' <= n0'
    BY <1>1, <1>4, <1>5
  <2> QED BY <1>1, <1>2, <1>10, <2>2, <2>3 DEF LiteralBuilt
<1> QED BY <1>1, <1>11, <1>12

LEMMA TokenStep ==
  ASSUME WindowInv, SearchInv, PlaceInv, TokensInv, BuiltInv, SendToken, ~ms.err
  PROVE  AllWhole' /\ HashBuilt' /\ pc' = "hash"
<1>1. /\ pc = "literal" /\ pc' = "hash" /\ done >= n0 /\ UNCHANGED <<lastMatch, upto, token, hashed>>
      /\ done' = 0 /\ UNCHANGED inputVars
  BY DEF SendToken
<1>2. AllWhole /\ LiteralBuilt /\ (token >= 0 => MatchFits)
  BY <1>1 DEF BuiltInv, Calling
<1>3. /\ n0 \in Nat /\ n1 \in Nat /\ lastMatch + n0 = upto /\ upto <= fileSize
      /\ lastMatch \in Nat /\ done \in Nat /\ fileSize \in Nat /\ upto \in Nat
      /\ MatchEnd \in Nat /\ upto <= MatchEnd /\ MatchEnd <= fileSize
      /\ token < 0 => MatchEnd = upto
      /\ token >= 0 => MatchEnd = upto + BlockLen(token)
  BY <1>1, CallLengths, CallNumbers DEF Calling, PlaceInv
<1>0. token \in Int
  BY CallNumbers
<1>4. lastMatch + done = upto
  BY <1>1, <1>2, <1>3 DEF LiteralBuilt
<1>5. Rebuilt = FileTo(upto)
  BY <1>2, <1>4 DEF LiteralBuilt
<1>6. n1' = n1 /\ MatchEnd' = MatchEnd
  BY <1>0, <1>1, CallKept
<1>7. token \in -2 .. Count - 1 /\ Count \in Nat
  BY HasBlocks DEF PlaceInv, WindowInv
<1>8. \/ token = -2 /\ tokens' = tokens
      \/ token = -1 /\ tokens' = Append(tokens, EndToken)
      \/ token >= 0 /\ tokens' = Append(tokens, Reference(token))
  BY <1>7 DEF SendToken
<1>9. ASSUME NEW t \in Token, tokens' = Append(tokens, t), t.t # "data"
      PROVE  AllWhole' /\ Rebuilt' = Rebuilt \o Piece(t)
  <2>1. /\ Len(tokens) \in Nat /\ Len(tokens') = Len(tokens) + 1 /\ tokens'[Len(tokens) + 1] = t
        /\ \A i \in 1 .. Len(tokens) : tokens'[i] = tokens[i]
    BY <1>9, LongerSeq DEF TokensInv
  <2>2. \A i \in 1 .. Len(tokens') : Whole(tokens'[i])
    <3> SUFFICES ASSUME NEW i \in 1 .. Len(tokens') PROVE Whole(tokens'[i])
      OBVIOUS
    <3>1. i \in 1 .. Len(tokens) \/ i = Len(tokens) + 1
      BY <2>1
    <3> QED BY <1>2, <1>9, <2>1, <3>1 DEF AllWhole, Whole
  <2>3. Rebuilt' = Rebuilt \o Piece(t)
    BY <1>1, <1>9, RebuiltMore DEF WindowInv
  <2> QED BY <2>2, <2>3 DEF AllWhole, Whole
<1>10. AllWhole' /\ Rebuilt' = FileTo(MatchEnd)
  <2>1. CASE token = -2 /\ tokens' = tokens
    <3>1. Rebuilt' = Rebuilt
      BY <1>1, <2>1, RebuiltSame
    <3>2. MatchEnd = upto
      BY <1>3, <2>1
    <3>3. AllWhole'
      BY <1>2, <2>1 DEF AllWhole, Whole
    <3> QED BY <1>5, <3>1, <3>2, <3>3
  <2>2. CASE token = -1 /\ tokens' = Append(tokens, EndToken)
    <3>1. EndToken \in Token /\ EndToken.t # "data" /\ Piece(EndToken) = <<>>
      BY EmptySeq DEF EndToken, Token, Piece
    <3>2. AllWhole' /\ Rebuilt' = Rebuilt \o <<>>
      BY <1>9, <2>2, <3>1
    <3>3. Rebuilt \in Seq(Byte)
      <4>1. source \in Seq(Byte) /\ upto <= Len(source)
        BY <1>3 DEF WindowInv, InputTypes, fileSize
      <4>2. SubSeq(source, 0 + 1, upto) \in Seq(Byte)
        BY <1>3, <4>1, Part
      <4> QED BY <1>5, <4>2 DEF FileTo
    <3>4. Rebuilt' = Rebuilt
      BY <3>2, <3>3, ConcatEmptySeq
    <3>5. MatchEnd = upto
      BY <1>3, <2>2
    <3> QED BY <1>5, <3>2, <3>4, <3>5
  <2>3. CASE token >= 0 /\ tokens' = Append(tokens, Reference(token))
    <3>1. Reference(token) \in Token /\ Reference(token).t # "data" /\ Piece(Reference(token)) = Block(token)
      BY <1>7, <2>3, EmptySeq DEF Reference, Token, Piece
    <3>2. AllWhole' /\ Rebuilt' = Rebuilt \o Block(token)
      BY <1>9, <2>3, <3>1
    <3>3. MatchEnd = upto + BlockLen(token) /\ Block(token) = SubSeq(source, upto + 1, upto + BlockLen(token))
      BY <1>2, <1>3, <2>3 DEF MatchFits
    <3> DEFINE e == MatchEnd
    <3>4. source \in Seq(Byte) /\ e \in Nat /\ upto <= e /\ e <= Len(source)
      BY <1>3 DEF WindowInv, InputTypes, fileSize
    <3> HIDE DEF e
    <3>5. SubSeq(source, 1, upto) \o SubSeq(source, upto + 1, e) = SubSeq(source, 1, e)
      BY <1>3, <3>4, Adjoining
    <3>6. Block(token) = SubSeq(source, upto + 1, e)
      BY <3>3 DEF e
    <3>7. Rebuilt \o Block(token) = FileTo(e)
      BY <1>5, <3>5, <3>6 DEF FileTo
    <3> QED BY <3>2, <3>7 DEF e
  <2> QED BY <1>8, <2>1, <2>2, <2>3
<1>11. FileTo(MatchEnd)' = FileTo(MatchEnd)
  BY <1>1, <1>6 DEF FileTo, inputVars
<1>12. FileTo(lastMatch + LesserOf(done, n1))' = FileTo(lastMatch)
  <2>1. lastMatch' + LesserOf(done', n1') = lastMatch
    BY <1>1, <1>3, <1>6 DEF LesserOf
  <2>2. lastMatch' + LesserOf(done, n1)' = lastMatch
    BY <2>1 DEF LesserOf
  <2> QED BY <1>1, <2>2 DEF FileTo, inputVars
<1> QED BY <1>1, <1>2, <1>10, <1>11, <1>12 DEF HashBuilt, LiteralBuilt

-----------------------------------------------------------------------------
LEMMA HashStep ==
  ASSUME WindowInv, SearchInv, PlaceInv, BuiltInv, HashChunk, ~ms.err, ~ms'.err
  PROVE  AllWhole' /\ HashBuilt' /\ pc' = "hash"
<1> DEFINE o == lastMatch + done
           n == LesserOf(ChunkSize, n1 - done)
           b == AsSeq(ptr(file, ms, o, n))
<1>1. /\ pc = "hash" /\ pc' = "hash" /\ done < n1 /\ UNCHANGED <<lastMatch, upto, token, tokens>>
      /\ hashed' = hashed \o b /\ ms' = PtrState(file, ms, o, n) /\ done' = done + ChunkSize
      /\ UNCHANGED inputVars
  BY DEF HashChunk
<1>2. AllWhole /\ HashBuilt
  BY <1>1 DEF BuiltInv
<1>3. /\ n1 \in Nat /\ lastMatch + n1 = MatchEnd /\ MatchEnd <= fileSize
      /\ lastMatch \in Nat /\ done \in Nat /\ fileSize \in Nat /\ ChunkSize \in Nat \ {0}
      /\ token \in Int /\ MatchEnd \in Nat
  BY <1>1, CallLengths, CallNumbers DEF Calling
<1>4. n \in Nat /\ done + n <= n1 /\ o \in Nat /\ o + n <= fileSize
  BY <1>1, <1>3 DEF LesserOf
<1>5. n1' = n1 /\ MatchEnd' = MatchEnd
  BY <1>1, <1>3, CallKept
<1>6. FileTo(o) \o b = FileTo(o + n)
  <2>1. ~PtrState(file, ms, o, n).err
    BY <1>1
  <2> QED BY <1>4, <2>1, FileOn
<1>7. lastMatch + LesserOf(done, n1) = o
  BY <1>1, <1>3 DEF LesserOf
<1>8. lastMatch' + LesserOf(done', n1') = o + n
  <2>1. LesserOf(done + ChunkSize, n1) = done + LesserOf(ChunkSize, n1 - done)
    BY <1>1, <1>3 DEF LesserOf
  <2>2. LesserOf(done', n1') = done + n
    BY <1>1, <1>5, <2>1
  <2> DEFINE z == LesserOf(done', n1')
  <2> HIDE DEF n, z
  <2>3. lastMatch + (done + n) = (lastMatch + done) + n
    BY <1>3, <1>4
  <2>4. lastMatch' + z = o + n
    BY <1>1, <2>2, <2>3 DEF z
  <2> QED BY <2>4 DEF z
<1> HIDE DEF o, n, b
<1>9. hashed' = FileTo(o + n)
  BY <1>1, <1>2, <1>6, <1>7 DEF HashBuilt
<1>10. FileTo(lastMatch + LesserOf(done, n1))' = FileTo(o + n) /\ FileTo(MatchEnd)' = FileTo(MatchEnd)
  <2>1. lastMatch' + LesserOf(done, n1)' = o + n
    BY <1>8 DEF LesserOf
  <2> QED BY <1>1, <1>5, <2>1 DEF FileTo, inputVars
<1>11. Rebuilt' = Rebuilt
  BY <1>1, RebuiltSame
<1>12. AllWhole'
  BY <1>1, <1>2 DEF AllWhole, Whole
<1> QED BY <1>1, <1>2, <1>9, <1>10, <1>11, <1>12 DEF HashBuilt

LEMMA MatchedStep ==
  ASSUME WindowInv, SearchInv, PlaceInv, BuiltInv, Matched, ~ms.err
  PROVE  AllWhole' /\ IdleBuilt' /\ pc' \in {"step", "advance", "sum"}
         /\ (pc' = "sum" => lastMatch' = fileSize')
<1>1. /\ pc = "hash" /\ pc' = after /\ done >= n1 /\ lastMatch' = MatchEnd
      /\ UNCHANGED inputVars /\ UNCHANGED <<tokens, hashed>>
  BY DEF Matched
<1>2. AllWhole /\ HashBuilt
  BY <1>1 DEF BuiltInv
<1>3. n1 \in Nat /\ lastMatch + n1 = MatchEnd /\ lastMatch \in Nat /\ done \in Nat
  BY <1>1, CallLengths, CallNumbers DEF Calling
<1>4. lastMatch + LesserOf(done, n1) = MatchEnd
  BY <1>1, <1>3 DEF LesserOf
<1>5. Rebuilt' = Rebuilt
  BY <1>1, RebuiltSame
<1>6. FileTo(lastMatch)' = FileTo(MatchEnd)
  BY <1>1 DEF FileTo, inputVars
<1>7. IdleBuilt'
  BY <1>1, <1>2, <1>4, <1>5, <1>6 DEF HashBuilt, IdleBuilt
<1>8. AllWhole'
  BY <1>1, <1>2 DEF AllWhole, Whole
<1>9. after \in {"step", "advance", "sum"} /\ (after = "sum" => token = -1 /\ upto = fileSize)
  BY <1>1 DEF SearchInv, Called, Calling
<1>10. after = "sum" => MatchEnd = fileSize
  BY <1>9 DEF MatchEnd
<1>11. fileSize' = fileSize
  BY <1>1, NumbersKept
<1> QED BY <1>1, <1>7, <1>8, <1>9, <1>10, <1>11

(* Where a call of matched begins.                                         *)
LEMMA CallBuilt ==
  ASSUME WindowInv, WindowInv', PlaceInv', IdleBuilt, UNCHANGED inputVars, UNCHANGED <<tokens, hashed>>,
         NEW o, NEW i, NEW next, CallMatched(o, i, next)
  PROVE  LiteralBuilt'
<1>1. done' = 0 /\ pc' = "literal" /\ lastMatch' = lastMatch
  BY DEF CallMatched
<1>2. lastMatch' <= upto'
  BY <1>1 DEF PlaceInv, Calling
<1>3. upto' \in Nat /\ lastMatch' \in Nat /\ lastMatch \in Nat
  BY DEF WindowInv, SearchTypes
<1>4. done' <= n0'
  <2>1. \A x, y \in Nat : x <= y => 0 <= y - x
    OBVIOUS
  <2>2. n0' = upto' - lastMatch'
    BY DEF n0
  <2> QED BY <1>1, <1>2, <1>3, <2>1, <2>2
<1>5. Rebuilt' = Rebuilt
  BY RebuiltSame
<1>6. lastMatch' + done' = lastMatch
  BY <1>1, <1>3
<1>7. FileTo(lastMatch + done)' = FileTo(lastMatch) /\ FileTo(lastMatch)' = FileTo(lastMatch)
  BY <1>1, <1>6 DEF FileTo, inputVars
<1> QED BY <1>4, <1>5, <1>7 DEF LiteralBuilt, IdleBuilt

(* What Probe has compared is a block of the copy that is in the file.     *)
LEMMA ProbeFits ==
  ASSUME WindowInv, SearchInv, Probe, ~ms'.err, NEW i \in SameSum,
         Block(i) = AsSeq(Here), CallMatched(offset, i, "advance")
  PROVE  MatchFits'
<1> DEFINE l == LesserOf(B, fileSize - offset)
<1>1. /\ UNCHANGED inputVars /\ upto' = offset /\ token' = i
      /\ ms' = PtrState(file, ms, offset, l)
  BY DEF Probe, CallMatched
<1>2. i \in 0 .. Count - 1 /\ BlockLen(i) = l
  BY DEF SameSum
<1>3. offset \in Nat /\ offset <= fileSize /\ fileSize \in Nat /\ B \in Nat /\ l \in Nat
  BY CallNumbers
<1>4. offset + l <= fileSize
  BY <1>3 DEF LesserOf
<1>5. AsSeq(Here) = SubSeq(source, offset + 1, offset + l)
  <2>1. l \in Int /\ l >= 0 /\ ~PtrState(file, ms, offset, l).err
    BY <1>1, <1>3
  <2>2. Here = ptr(file, ms, offset, l)
    BY DEF Here
  <2> HIDE DEF l
  <2> QED BY <1>3, <1>4, <2>1, <2>2, CallReads
<1> HIDE DEF l
<1>6. Block(i) = SubSeq(source, offset + 1, offset + BlockLen(i))
  BY <1>2, <1>5
<1>7. Block(token)' = Block(i) /\ BlockLen(token)' = BlockLen(i)
  BY <1>1 DEF inputVars, Block, BlockLen, SumLen, head, Count, BlockCount
<1>8. SubSeq(source, upto + 1, upto + BlockLen(token))' = SubSeq(source, offset + 1, offset + BlockLen(i))
  BY <1>1, <1>7 DEF inputVars
<1> QED BY <1>6, <1>7, <1>8 DEF MatchFits

LEMMA BuiltStep ==
  WindowInv /\ SearchInv /\ PlaceInv /\ TokensInv /\ BuiltInv /\ [Next]_vars => BuiltInv'
<1> SUFFICES ASSUME WindowInv, SearchInv, PlaceInv, TokensInv, BuiltInv, [Next]_vars, ~ms'.err
             PROVE  /\ AllWhole'
                    /\ (pc' = "literal" => LiteralBuilt')
                    /\ (pc' = "hash" => HashBuilt')
                    /\ (pc' \notin {"literal", "hash", "panic"} => IdleBuilt')
                    /\ (Calling' /\ token' >= 0 => MatchFits')
                    /\ (pc' = "sum" => lastMatch' = fileSize')
  BY DEF BuiltInv
<1>e. ~ms.err
  BY ErrStays
<1>p. PlaceInv' /\ WindowInv' /\ UNCHANGED inputVars /\ fileSize' = fileSize
  BY PlaceStep, WindowStep, InputsStay, NumbersKept
<1>s. /\ AllWhole
      /\ (pc = "literal" => LiteralBuilt)
      /\ (pc = "hash" => HashBuilt)
      /\ (pc \notin {"literal", "hash", "panic"} => IdleBuilt)
      /\ (Calling /\ token >= 0 => MatchFits)
      /\ (pc = "sum" => lastMatch = fileSize)
  BY <1>e DEF BuiltInv
<1>t. token \in Int
  BY CallNumbers
(* Outside calls of matched nothing that is built changes.                 *)
<1>q. ASSUME UNCHANGED <<tokens, hashed>>
      PROVE  AllWhole' /\ Rebuilt' = Rebuilt /\ (UNCHANGED lastMatch /\ IdleBuilt => IdleBuilt')
  <2>1. Rebuilt' = Rebuilt
    BY <1>p, <1>q, RebuiltSame
  <2>2. AllWhole'
    BY <1>q, <1>s DEF AllWhole, Whole
  <2>3. ASSUME UNCHANGED lastMatch, IdleBuilt PROVE IdleBuilt'
    <3>1. FileTo(lastMatch)' = FileTo(lastMatch)
      BY <1>p, <2>3 DEF FileTo, inputVars
    <3> QED BY <1>q, <2>1, <2>3, <3>1 DEF IdleBuilt
  <2> QED BY <2>1, <2>2, <2>3
<1>1. CASE Start \/ Advance \/ Step
  <2>1. /\ UNCHANGED <<tokens, hashed, lastMatch>> /\ pc \in {"start", "advance", "step"}
        /\ pc' \in {"probe", "rest", "roll"}
    BY <1>1 DEF Start, Advance, Step, matchedVars
  <2> QED BY <1>q, <1>s, <2>1 DEF Calling
<1>2. CASE Probe
  <2>1. pc = "probe" /\ UNCHANGED <<tokens, hashed>>
    BY <1>2 DEF Probe
  <2>2. CASE pc' = "roll" /\ UNCHANGED matchedVars
    <3>1. UNCHANGED lastMatch
      BY <2>2 DEF matchedVars
    <3> QED BY <1>q, <1>s, <2>1, <2>2, <3>1 DEF Calling
  <2>3. CASE \E i \in SameSum : Block(i) = AsSeq(Here) /\ CallMatched(offset, i, "advance")
    <3>1. PICK i \in SameSum : Block(i) = AsSeq(Here) /\ CallMatched(offset, i, "advance")
      BY <2>3
    <3>2. LiteralBuilt'
      BY <1>p, <1>s, <2>1, <3>1, CallBuilt
    <3>3. MatchFits'
      BY <1>2, <3>1, ProbeFits
    <3>4. pc' = "literal"
      BY <3>1 DEF CallMatched
    <3> QED BY <1>q, <2>1, <3>2, <3>3, <3>4
  <2>4. \/ pc' = "roll" /\ UNCHANGED matchedVars
        \/ \E i \in SameSum : Block(i) = AsSeq(Here) /\ CallMatched(offset, i, "advance")
    BY <1>2 DEF Probe
  <2> QED BY <2>2, <2>3, <2>4
<1>3. CASE Roll
  <2>1. pc = "roll" /\ UNCHANGED <<tokens, hashed>>
    BY <1>3 DEF Roll
  <2>2. CASE pc' \in {"panic", "step"} /\ UNCHANGED matchedVars
    <3>1. UNCHANGED lastMatch
      BY <2>2 DEF matchedVars
    <3> QED BY <1>q, <1>s, <2>1, <2>2, <3>1 DEF Calling
  <2>3. CASE CallMatched(FlushTo, -2, "step")
    <3>1. LiteralBuilt'
      BY <1>p, <1>s, <2>1, <2>3, CallBuilt
    <3>2. pc' = "literal" /\ token' = -2
      BY <2>3 DEF CallMatched
    <3>3. ~(token' >= 0)
      BY <3>2
    <3> QED BY <1>q, <2>1, <3>1, <3>2, <3>3
  <2>4. \/ pc' \in {"panic", "step"} /\ UNCHANGED matchedVars
        \/ CallMatched(FlushTo, -2, "step")
    BY <1>3 DEF Roll
  <2> QED BY <2>2, <2>3, <2>4
<1>4. CASE Rest
  <2>1. pc = "rest" /\ UNCHANGED <<tokens, hashed>> /\ CallMatched(fileSize, -1, "sum")
    BY <1>4 DEF Rest
  <2>2. LiteralBuilt'
    BY <1>p, <1>s, <2>1, CallBuilt
  <2>3. pc' = "literal" /\ token' = -1
    BY <2>1 DEF CallMatched
  <2>4. ~(token' >= 0)
    BY <2>3
  <2> QED BY <1>q, <2>1, <2>2, <2>3, <2>4
<1>5. CASE SendLiteral \/ SendToken \/ HashChunk
  <2>1. Calling /\ UNCHANGED <<lastMatch, upto, token>>
    BY <1>5 DEF SendLiteral, SendToken, HashChunk, Calling
  <2>2. MatchFits' = MatchFits
    BY <1>p, <1>t, <2>1, CallKept
  <2>3. AllWhole' /\ ((LiteralBuilt' /\ pc' = "literal") \/ (HashBuilt' /\ pc' = "hash"))
    BY <1>5, <1>e, LiteralStep, TokenStep, HashStep
  <2> QED BY <1>s, <2>1, <2>2, <2>3
<1>6. CASE Matched
  <2>1. AllWhole' /\ IdleBuilt' /\ pc' \in {"step", "advance", "sum"}
        /\ (pc' = "sum" => lastMatch' = fileSize')
    BY <1>6, <1>e, MatchedStep
  <2> QED BY <2>1 DEF Calling
<1>7. CASE Truncate \/ UNCHANGED vars
  <2>1. UNCHANGED <<pc, lastMatch, upto, token, done, tokens, hashed>>
    BY <1>7 DEF Truncate, vars, matchedVars
  <2>2. MatchFits' = MatchFits /\ n0' = n0 /\ n1' = n1 /\ MatchEnd' = MatchEnd
    BY <1>p, <1>t, <2>1, CallKept
  <2>3. Rebuilt' = Rebuilt /\ AllWhole' /\ (IdleBuilt => IdleBuilt')
    BY <1>q, <2>1
  <2>4. /\ FileTo(lastMatch + done)' = FileTo(lastMatch + done) /\ FileTo(lastMatch)' = FileTo(lastMatch)
        /\ FileTo(MatchEnd)' = FileTo(MatchEnd)
        /\ FileTo(lastMatch + LesserOf(done, n1))' = FileTo(lastMatch + LesserOf(done, n1))
    BY <1>p, <2>1, <2>2 DEF FileTo, inputVars, LesserOf
  <2>5. (LiteralBuilt => LiteralBuilt') /\ (HashBuilt => HashBuilt')
    BY <2>1, <2>2, <2>3, <2>4 DEF LiteralBuilt, HashBuilt
  <2> QED BY <1>p, <1>s, <2>1, <2>2, <2>3, <2>5 DEF Calling
<1> QED
  BY <1>1, <1>2, <1>3, <1>4, <1>5, <1>6, <1>7 DEF Next, Search

(* What the other side builds from the tokens is the file, and what was    *)
(* hashed for the md4 is the same: after every call of matched up to       *)
(* lastMatch (match.go:216), at the end as a whole, whatever was flushed,  *)
(* however the literals were cut (token.go:4) and whichever blocks were    *)
(* found.                                                                  *)
THEOREM TokensRebuild == Spec => []TokensRebuildTheFile
<1> DEFINE Inv == WindowInv /\ SearchInv /\ PlaceInv /\ TokensInv /\ BuiltInv
<1>1. Init => Inv
  BY WindowInit, SearchStart, PlaceStart, BuiltStart
<1>2. Inv /\ [Next]_vars => Inv'
  BY WindowStep, SearchStep, PlaceStep, TokensStep, BuiltStep
<1>3. Inv => TokensRebuildTheFile
  <2> SUFFICES ASSUME Inv PROVE TokensRebuildTheFile
    OBVIOUS
  <2>1. pc \notin {"literal", "hash", "panic"} /\ ~ms.err =>
          Rebuilt = SubSeq(source, 1, lastMatch) /\ hashed = Rebuilt
    BY DEF BuiltInv, IdleBuilt, FileTo
  <2>2. ASSUME pc = "sum", ~ms.err PROVE Rebuilt = source
    <3>1. source \in Seq(Byte) /\ lastMatch = Len(source)
      BY <2>2 DEF WindowInv, InputTypes, BuiltInv, fileSize
    <3>2. SubSeq(source, 1, Len(source)) = source
      BY <3>1, SubSeqFull
    <3> QED BY <2>1, <2>2, <3>1, <3>2
  <2>3. ~ms.err => \A i \in 1 .. Len(tokens) :
          tokens[i].t = "data" => Len(tokens[i].d) = tokens[i].n /\ tokens[i].n \in 1 .. ChunkSize
    BY DEF BuiltInv, AllWhole, Whole
  <2> QED BY <2>1, <2>2, <2>3 DEF TokensRebuildTheFile
<1> HIDE DEF Inv
<1>4. QED
  BY <1>1, <1>2, <1>3, PTL DEF Spec

-----------------------------------------------------------------------------
(* Up to which place every occurrence of a block has been seen.            *)
Passed ==
  IF pc \in {"start", "panic"} THEN 0
  ELSE IF pc = "probe" \/ (Calling /\ after = "advance") THEN offset
  ELSE IF pc \in {"roll", "step"} \/ (Calling /\ after = "step") THEN offset + 1
  ELSE IF pc = "advance" THEN offset + BlockLen(token)
  ELSE fileSize

(* Where a block of n bytes is looked for; a block that is there is met by *)
(* a reference.                                                            *)
Places(n) == IF n = B THEN 0 .. fileSize - n ELSE {fileSize - n} \cap Nat
Met(o, i) ==
  SubSeq(source, o + 1, o + BlockLen(i)) = Block(i)
    => (o .. o + BlockLen(i) - 1) \cap covered # {}
AllMet(p) == \A i \in 0 .. Count - 1 : \A o \in Places(BlockLen(i)) : o < p => Met(o, i)

MissInv ==
  ~ms.err =>
    /\ AllMet(Passed)
    /\ pc = "advance" \/ (pc = "hash" /\ after = "advance") =>
         upto .. upto + BlockLen(token) - 1 \subseteq covered /\ upto = offset

(* No block is shorter than the last.                                      *)
LEMMA LastShortest ==
  ASSUME InputTypes, NEW i \in 0 .. Count - 1
  PROVE  BlockLen(Count - 1) <= BlockLen(i)
<1> DEFINE r == head.RemainderLength
<1>1. B \in Nat \ {0} /\ r \in 0 .. B - 1 /\ Count \in Nat \ {0}
  <2>1. B \in Nat \ {0} /\ Len(copy) \in Nat
    BY LenProperties DEF InputTypes
  <2>2. Len(copy) % B \in 0 .. B - 1
    BY <2>1
  <2> QED BY <2>1, <2>2, HasBlocks DEF head
<1>2. \A j \in Int : BlockLen(j) = IF j = Count - 1 /\ r # 0 THEN r ELSE B
  BY DEF BlockLen, SumLen, head
<1> HIDE DEF r
<1> QED BY <1>1, <1>2

(* Places are in the file and before the end of the search.                *)
LEMMA PlacesEnd ==
  ASSUME InputTypes, NEW i \in 0 .. Count - 1, NEW o \in Places(BlockLen(i))
  PROVE  o \in Nat /\ o + BlockLen(i) <= fileSize /\ o < fileSize /\ o < end
         /\ BlockLen(i) = LesserOf(B, fileSize - o)
<1>1. /\ BlockLen(i) \in 1 .. B /\ fileSize \in Nat /\ B \in Nat \ {0}
      /\ BlockLen(Count - 1) \in Nat /\ BlockLen(Count - 1) <= BlockLen(i)
  <2>1. Count - 1 \in Int
    BY HasBlocks
  <2> QED BY <2>1, BlockWithin, LastShortest, Numbers
<1>2. end = fileSize + 1 - BlockLen(Count - 1)
  BY DEF end
<1> DEFINE n == BlockLen(i)
           l == BlockLen(Count - 1)
<1>3. n \in 1 .. B /\ l \in Nat /\ l <= n
  BY <1>1
<1>4. o \in (IF n = B THEN 0 .. fileSize - n ELSE {fileSize - n} \cap Nat)
  BY DEF Places
<1> HIDE DEF n, l
<1>5. o \in Nat /\ o + n <= fileSize /\ (n # B => o = fileSize - n)
  BY <1>1, <1>3, <1>4
<1>6. n = LesserOf(B, fileSize - o)
  BY <1>1, <1>3, <1>5 DEF LesserOf
<1>7. o < fileSize /\ o < fileSize + 1 - l
  BY <1>1, <1>3, <1>5
<1> QED BY <1>2, <1>5, <1>6, <1>7 DEF n, l

(* At the end of the search no place is left.                              *)
LEMMA EndMet ==
  ASSUME InputTypes, NEW p \in Int, p >= end, AllMet(p), NEW q
  PROVE  AllMet(q)
<1> SUFFICES ASSUME NEW i \in 0 .. Count - 1, NEW o \in Places(BlockLen(i)) PROVE Met(o, i)
  BY DEF AllMet
<1>1. o \in Nat /\ o < end /\ end \in Int
  BY PlacesEnd, Numbers
<1>2. o < p
  BY <1>1
<1> QED BY <1>2 DEF AllMet

(* Where no block was found there is none.                                 *)
LEMMA ProbeMet ==
  ASSUME WindowInv, SearchInv, RollInv, Probe, ~ms.err, ~ms'.err, AllMet(offset),
         {i \in SameSum : Block(i) = AsSeq(Here)} = {}
  PROVE  AllMet(offset + 1)
<1> SUFFICES ASSUME NEW i \in 0 .. Count - 1, NEW o \in Places(BlockLen(i)), o < offset + 1,
                    SubSeq(source, o + 1, o + BlockLen(i)) = Block(i)
             PROVE  (o .. o + BlockLen(i) - 1) \cap covered # {}
  BY DEF AllMet, Met
<1>1. o \in Nat /\ o + BlockLen(i) <= fileSize /\ BlockLen(i) = LesserOf(B, fileSize - o)
  BY PlacesEnd DEF WindowInv
<1>2. offset \in Nat
  BY CallNumbers
<1>3. CASE o < offset
  BY <1>3 DEF AllMet, Met
<1>4. CASE o = offset
  <2>1. k = BlockLen(i)
    BY <1>1, <1>4 DEF SearchInv, Positioned, Probe
  <2>2. s1 = Sum1(Block(i)) /\ s2 = Sum2(Block(i))
    BY <1>4, <2>1 DEF RollInv, SumsOf, Probe
  <2>3. i \in SameSum
    BY <1>1, <1>4, <2>2 DEF SameSum
  <2> DEFINE l == LesserOf(B, fileSize - offset)
  <2>4. ms' = PtrState(file, ms, offset, l)
    BY <2>3 DEF Probe
  <2>5. l = BlockLen(i) /\ l \in Nat
    BY <1>1, <1>4, CallNumbers
  <2>6. AsSeq(Here) = SubSeq(source, offset + 1, offset + l)
    <3>1. l \in Int /\ l >= 0 /\ ~PtrState(file, ms, offset, l).err /\ offset + l <= fileSize
      BY <1>1, <1>4, <2>4, <2>5
    <3>2. Here = ptr(file, ms, offset, l)
      BY DEF Here
    <3> HIDE DEF l
    <3> QED BY <1>2, <3>1, <3>2, CallReads
  <2> HIDE DEF l
  <2>7. AsSeq(Here) = Block(i)
    BY <1>4, <2>5, <2>6
  <2> QED BY <2>3, <2>7
<1> QED BY <1>1, <1>2, <1>3, <1>4

(* A match meets whatever begins within it.                                *)
LEMMA MatchMet ==
  ASSUME WindowInv, AllMet(offset), upto = offset, NEW n \in Nat,
         upto .. upto + n - 1 \subseteq covered
  PROVE  AllMet(offset + n)
<1> SUFFICES ASSUME NEW i \in 0 .. Count - 1, NEW o \in Places(BlockLen(i)), o < offset + n
             PROVE  Met(o, i)
  BY DEF AllMet
<1>1. o \in Nat /\ offset \in Nat /\ BlockLen(i) \in Nat \ {0}
  BY PlacesEnd, BlockWithin DEF WindowInv, SearchTypes
<1>2. CASE o < offset
  BY <1>2 DEF AllMet
<1>3. CASE o >= offset
  <2>1. o \in upto .. upto + n - 1
    BY <1>1, <1>3
  <2>2. o \in o .. o + BlockLen(i) - 1
    <3>1. PICK l \in Nat \ {0} : l = BlockLen(i)
      BY <1>1
    <3>2. o \in o .. o + l - 1
      BY <1>1
    <3> QED BY <3>1, <3>2
  <2>3. o \in covered
    BY <2>1
  <2> QED BY <2>2, <2>3 DEF Met
<1> QED BY <1>1, <1>2, <1>3

LEMMA MissStart == Init => MissInv
<1> SUFFICES ASSUME Init PROVE MissInv
  OBVIOUS
<1>1. Passed = 0 /\ pc = "start" /\ InputTypes
  BY WindowInit DEF Init, Passed, WindowInv
<1>2. AllMet(0)
  <2> SUFFICES ASSUME NEW i \in 0 .. Count - 1, NEW o \in Places(BlockLen(i)), o < 0 PROVE FALSE
    BY DEF AllMet
  <2>1. o \in Nat
    BY <1>1, PlacesEnd
  <2> QED BY <2>1
<1> QED BY <1>1, <1>2 DEF MissInv

(* What was met is met as more is covered.                                 *)
LEMMA MetKept ==
  ASSUME UNCHANGED inputVars, covered \subseteq covered', NEW p, AllMet(p), Passed' = p
  PROVE  AllMet(Passed)'
<1>1. Count' = Count
  BY DEF inputVars, Count, BlockCount
<1>2. \A i \in 0 .. Count - 1 : Places(BlockLen(i))' = Places(BlockLen(i))
  BY DEF inputVars, Places, fileSize, BlockLen, SumLen, head, Count, BlockCount
<1>3. \A i \in 0 .. Count - 1 : \A o : Met(o, i) => Met(o, i)'
  <2> SUFFICES ASSUME NEW i \in 0 .. Count - 1, NEW o, Met(o, i) PROVE Met(o, i)'
    OBVIOUS
  <2>1. BlockLen(i)' = BlockLen(i) /\ Block(i)' = Block(i)
    BY DEF inputVars, Block, BlockLen, SumLen, head, Count, BlockCount
  <2>2. SubSeq(source, o + 1, o + BlockLen(i))' = SubSeq(source, o + 1, o + BlockLen(i))
    BY <2>1 DEF inputVars
  <2> QED BY <2>1, <2>2 DEF Met
<1> QED BY <1>1, <1>2, <1>3 DEF AllMet

LEMMA MissStep ==
  WindowInv /\ SearchInv /\ PlaceInv /\ RollInv /\ MissInv /\ [Next]_vars => MissInv'
<1> SUFFICES ASSUME WindowInv, SearchInv, PlaceInv, RollInv, MissInv, [Next]_vars, ~ms'.err
             PROVE  /\ AllMet(Passed)'
                    /\ (pc' = "advance" \/ (pc' = "hash" /\ after' = "advance") =>
                          (upto .. upto + BlockLen(token) - 1)' \subseteq covered' /\ upto' = offset')
  BY DEF MissInv
<1>e. ~ms.err
  BY ErrStays
<1>u. UNCHANGED inputVars /\ fileSize' = fileSize /\ end' = end /\ InputTypes
  BY InputsStay, NumbersKept DEF WindowInv
<1>s. /\ AllMet(Passed)
      /\ (pc = "advance" \/ (pc = "hash" /\ after = "advance") =>
            upto .. upto + BlockLen(token) - 1 \subseteq covered /\ upto = offset)
  BY <1>e DEF MissInv
<1>t. /\ offset \in Nat /\ token \in Int /\ fileSize \in Nat /\ BlockLen(token) \in Nat \ {0}
      /\ end \in Int /\ end <= fileSize /\ upto \in Nat
  BY CallNumbers, Numbers DEF WindowInv
<1>c. Calling => after \in {"step", "advance", "sum"}
  BY DEF SearchInv, Called
<1>1. CASE Start
  <2>1. UNCHANGED covered /\ pc = "start" /\ pc' = "probe" /\ offset' = 0
    BY <1>1 DEF Start, ReadChunk
  <2>2. AllMet(0)
    BY <1>s, <2>1 DEF Passed
  <2>3. Passed' = 0
    BY <2>1 DEF Passed
  <2>4. AllMet(Passed)'
    BY <1>u, <2>1, <2>2, <2>3, MetKept
  <2> QED BY <2>1, <2>4
<1>2. CASE Probe
  <2>1. UNCHANGED <<covered, offset>> /\ pc = "probe"
    BY <1>2 DEF Probe, searchVars
  <2>2. AllMet(offset)
    BY <1>s, <2>1 DEF Passed
  <2>3. CASE {i \in SameSum : Block(i) = AsSeq(Here)} = {} /\ pc' = "roll"
    <3>1. AllMet(offset + 1)
      BY <1>2, <1>e, <2>2, <2>3, ProbeMet
    <3>2. Passed' = offset + 1
      BY <2>1, <2>3 DEF Passed, Calling
    <3>3. AllMet(Passed)'
      BY <1>u, <2>1, <3>1, <3>2, MetKept
    <3> QED BY <2>3, <3>3
  <2>4. CASE pc' = "literal" /\ after' = "advance"
    <3>1. Passed' = offset
      BY <2>1, <2>4 DEF Passed, Calling
    <3>2. AllMet(Passed)'
      BY <1>u, <2>1, <2>2, <3>1, MetKept
    <3> QED BY <2>4, <3>2
  <2>5. \/ {i \in SameSum : Block(i) = AsSeq(Here)} = {} /\ pc' = "roll"
        \/ pc' = "literal" /\ after' = "advance"
    BY <1>2 DEF Probe, CallMatched
  <2> QED BY <2>3, <2>4, <2>5
<1>3. CASE Advance
  <2> DEFINE p == offset + BlockLen(token)
  <2>1. /\ UNCHANGED covered /\ pc = "advance" /\ offset' = offset + BlockLen(token) - 1
        /\ pc' = (IF offset' >= end THEN "rest" ELSE "roll")
    BY <1>3 DEF Advance, ReadChunk
  <2>2. AllMet(p)
    <3>1. Passed = p
      BY <2>1 DEF Passed, Calling
    <3> HIDE DEF p
    <3> QED BY <1>s, <3>1
  <2>3. p \in Nat /\ offset' = p - 1
    <3>1. PICK n \in Nat \ {0} : n = BlockLen(token)
      BY <1>t
    <3>2. offset + n \in Nat /\ offset + n - 1 = (offset + n) - 1
      BY <1>t
    <3> QED BY <2>1, <3>1, <3>2
  <2> HIDE DEF p
  <2>4. CASE offset' >= end
    <3>1. p >= end
      BY <1>t, <2>3, <2>4
    <3>2. AllMet(fileSize)
      BY <1>u, <2>2, <2>3, <3>1, EndMet
    <3>3. Passed' = fileSize /\ pc' = "rest"
      BY <1>u, <2>1, <2>4 DEF Passed, Calling
    <3>4. AllMet(Passed)'
      BY <1>u, <2>1, <3>2, <3>3, MetKept
    <3> QED BY <3>3, <3>4
  <2>5. CASE ~(offset' >= end)
    <3>1. Passed' = p /\ pc' = "roll"
      <4>1. pc' = "roll"
        BY <2>1, <2>5
      <4>2. Passed' = offset' + 1
        BY <4>1 DEF Passed, Calling
      <4> QED BY <2>3, <4>1, <4>2
    <3>2. AllMet(Passed)'
      BY <1>u, <2>1, <2>2, <3>1, MetKept
    <3> QED BY <3>1, <3>2
  <2> QED BY <2>4, <2>5
<1>4. CASE Roll
  <2>1. UNCHANGED covered /\ pc = "roll"
    BY <1>4 DEF Roll
  <2>2. AllMet(offset + 1)
    BY <1>s, <2>1 DEF Passed, Calling
  <2>3. CASE pc' = "panic"
    <3>1. Passed' = 0
      BY <2>3 DEF Passed
    <3>2. AllMet(0)
      <4> SUFFICES ASSUME NEW i \in 0 .. Count - 1, NEW o \in Places(BlockLen(i)), o < 0 PROVE FALSE
        BY DEF AllMet
      <4>1. o \in Nat
        BY <1>u, PlacesEnd
      <4> QED BY <4>1
    <3>3. AllMet(Passed)'
      BY <1>u, <2>1, <3>1, <3>2, MetKept
    <3> QED BY <2>3, <3>3
  <2>4. CASE UNCHANGED offset /\ (pc' = "step" \/ (pc' = "literal" /\ after' = "step"))
    <3>1. Passed' = offset + 1
      BY <2>4 DEF Passed, Calling
    <3>2. AllMet(Passed)'
      BY <1>u, <2>1, <2>2, <3>1, MetKept
    <3> QED BY <2>4, <3>2
  <2>5. pc' = "panic" \/ (UNCHANGED offset /\ (pc' = "step" \/ (pc' = "literal" /\ after' = "step")))
    BY <1>4 DEF Roll, CallMatched
  <2> QED BY <2>3, <2>4, <2>5
<1>5. CASE Step
  <2>1. /\ UNCHANGED covered /\ pc = "step" /\ offset' = offset + 1
        /\ pc' = (IF offset' >= end THEN "rest" ELSE "probe")
    BY <1>5 DEF Step
  <2>2. AllMet(offset + 1)
    BY <1>s, <2>1 DEF Passed, Calling
  <2>3. CASE offset' >= end
    <3>1. AllMet(fileSize)
      BY <1>t, <1>u, <2>1, <2>2, <2>3, EndMet
    <3>2. Passed' = fileSize /\ pc' = "rest"
      BY <1>u, <2>1, <2>3 DEF Passed, Calling
    <3>3. AllMet(Passed)'
      BY <1>u, <2>1, <3>1, <3>2, MetKept
    <3> QED BY <3>2, <3>3
  <2>4. CASE ~(offset' >= end)
    <3>1. Passed' = offset + 1 /\ pc' = "probe"
      BY <2>1, <2>4 DEF Passed, Calling
    <3>2. AllMet(Passed)'
      BY <1>u, <2>1, <2>2, <3>1, MetKept
    <3> QED BY <3>1, <3>2
  <2> QED BY <2>3, <2>4
<1>6. CASE Rest
  <2>1. UNCHANGED covered /\ pc = "rest" /\ pc' = "literal" /\ after' = "sum"
    BY <1>6 DEF Rest, CallMatched
  <2>2. AllMet(fileSize)
    BY <1>s, <2>1 DEF Passed, Calling
  <2>3. Passed' = fileSize
    BY <1>u, <2>1 DEF Passed, Calling
  <2>4. AllMet(Passed)'
    BY <1>u, <2>1, <2>2, <2>3, MetKept
  <2> QED BY <2>1, <2>4
<1>7. CASE SendLiteral \/ SendToken \/ HashChunk
  <2>1. /\ Calling /\ Calling' /\ UNCHANGED <<offset, upto, token, after>> /\ covered \subseteq covered'
        /\ (pc' = "literal" => pc = "literal")
    BY <1>7 DEF SendLiteral, SendToken, HashChunk, searchVars, Calling
  <2>2. Passed' = Passed
    BY <1>c, <1>u, <2>1 DEF Passed, Calling
  <2>3. AllMet(Passed)'
    BY <1>s, <1>u, <2>1, <2>2, MetKept
  <2>4. BlockLen(token)' = BlockLen(token)
    BY <1>t, <1>u, <2>1, NumbersKept
  <2>5. ASSUME pc' = "hash", after' = "advance"
        PROVE  upto .. upto + BlockLen(token) - 1 \subseteq covered' /\ upto = offset
    <3>1. CASE pc = "hash"
      BY <1>s, <2>1, <2>5, <3>1
    <3>2. CASE SendToken
      <4>1. token >= 0 /\ upto = offset
        BY <2>1, <2>5 DEF SearchInv, Called
      <4>2. covered' = covered \cup (upto .. upto + BlockLen(token) - 1)
        BY <3>2, <4>1 DEF SendToken
      <4> QED BY <4>1, <4>2
    <3> QED BY <1>7, <2>5, <3>1, <3>2 DEF SendLiteral, HashChunk
  <2>6. (upto .. upto + BlockLen(token) - 1)' = upto .. upto + BlockLen(token) - 1
    BY <2>1, <2>4
  <2> QED BY <2>1, <2>3, <2>5, <2>6 DEF Calling
<1>8. CASE Matched
  <2>1. /\ UNCHANGED <<covered, offset, upto, token, after>> /\ pc = "hash" /\ pc' = after
    BY <1>8 DEF Matched, searchVars
  <2>4. BlockLen(token)' = BlockLen(token)
    BY <1>t, <1>u, <2>1, NumbersKept
  <2>2. CASE after = "advance"
    <3>1. AllMet(offset) /\ upto .. upto + BlockLen(token) - 1 \subseteq covered /\ upto = offset
      BY <1>s, <2>1, <2>2 DEF Passed, Calling
    <3>2. BlockLen(token) \in Nat
      BY <1>t
    <3>3. AllMet(offset + BlockLen(token))
      BY <3>1, <3>2, MatchMet
    <3>4. Passed' = offset + BlockLen(token)
      BY <2>1, <2>2, <2>4 DEF Passed, Calling
    <3>5. AllMet(Passed)'
      BY <1>u, <2>1, <3>3, <3>4, MetKept
    <3>6. (upto .. upto + BlockLen(token) - 1)' = upto .. upto + BlockLen(token) - 1
      BY <2>1, <2>4
    <3> QED BY <2>1, <3>1, <3>5, <3>6
  <2>3. CASE after \in {"step", "sum"}
    <3>1. Passed' = Passed
      BY <1>u, <2>1, <2>3 DEF Passed, Calling
    <3>2. AllMet(Passed)'
      BY <1>s, <1>u, <2>1, <3>1, MetKept
    <3> QED BY <2>1, <2>3, <3>2
  <2> QED BY <1>c, <2>1, <2>2, <2>3 DEF Calling
<1>9. CASE Truncate \/ UNCHANGED vars
  <2>1. UNCHANGED <<pc, offset, upto, token, after, covered>>
    BY <1>9 DEF Truncate, vars, searchVars, matchedVars
  <2>2. BlockLen(token)' = BlockLen(token)
    BY <1>t, <1>u, <2>1, NumbersKept
  <2>3. Passed' = Passed
    BY <1>u, <2>1, <2>2 DEF Passed, Calling
  <2>4. AllMet(Passed)'
    BY <1>s, <1>u, <2>1, <2>3, MetKept
  <2>5. (upto .. upto + BlockLen(token) - 1)' = upto .. upto + BlockLen(token) - 1
    BY <2>1, <2>2
  <2> QED BY <1>s, <2>1, <2>4, <2>5
<1> QED
  BY <1>1, <1>2, <1>3, <1>4, <1>5, <1>6, <1>7, <1>8, <1>9 DEF Next, Search

(* Wherever a block of the other side's copy occurs in the file, part of   *)
(* that place is sent as a reference: hashSearch (match.go:85) skips no    *)
(* place, neither after a match nor at the end of the file, and the rolling*)
(* checksum never hides a block.                                           *)
THEOREM BlocksAreFound == Spec => []NoBlockMissed
<1> DEFINE Inv == WindowInv /\ SearchInv /\ PlaceInv /\ RollInv /\ MissInv
<1>1. Init => Inv
  BY WindowInit, SearchStart, PlaceStart, RollStart, MissStart
<1>2. Inv /\ [Next]_vars => Inv'
  BY WindowStep, SearchStep, PlaceStep, RollStep, MissStep
<1>3. Inv => NoBlockMissed
  <2> SUFFICES ASSUME Inv, pc = "sum", ~ms.err, NEW i \in 0 .. Count - 1,
                      NEW o \in Places(BlockLen(i)),
                      SubSeq(source, o + 1, o + BlockLen(i)) = Block(i)
               PROVE  (o .. o + BlockLen(i) - 1) \cap covered # {}
    BY Zenon DEF NoBlockMissed, Places
  <2>1. o < fileSize
    BY PlacesEnd DEF WindowInv
  <2>2. AllMet(fileSize)
    BY DEF MissInv, Passed, Calling
  <2> QED BY <2>1, <2>2 DEF AllMet, Met
<1> HIDE DEF Inv
<1>4. QED
  BY <1>1, <1>2, <1>3, PTL DEF Spec
=============================================================================
