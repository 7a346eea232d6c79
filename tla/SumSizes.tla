------------------------------ MODULE SumSizes ------------------------------
(***************************************************************************)
(* How a file is cut into blocks.  A head tells three numbers; the         *)
(* generator that makes it, the sender that reads the sums behind it and   *)
(* the receiver that is given references each derive the blocks from it in *)
(* their own way.                                                          *)
(*                                                                         *)
(* The length of the strong checksum is always 16 and is left out.         *)
(* math.Sqrt is external: a float64 may come out rounded up by one.        *)
(***************************************************************************)
EXTENDS Integers

CONSTANTS
  BlockSize,  (* the shortest block length: blockSize = 700                *)
  MaxBlockLen,(* the longest that ReadFrom takes: maxBlockLen = 2^29       *)
  Half        (* of the range of an int32: 2^31                            *)

ASSUME SumAssumption ==
  /\ BlockSize \in Nat \ {0} /\ MaxBlockLen \in Nat /\ Half \in Nat
  /\ BlockSize <= MaxBlockLen /\ MaxBlockLen + 3 < Half

Int32(n) == ((n + Half) % (2 * Half)) - Half

-----------------------------------------------------------------------------
BlockCount(len, b) == (len + (b - 1)) \div b

(* External: what math.Sqrt may return for len, as an integer.             *)
IsRoot(r, len) == (r = 0 \/ (r - 1) * (r - 1) <= len) /\ len < (r + 1) * (r + 1)

SumSizesSqroot(len, root) ==
  LET b == IF Int32(root) > BlockSize THEN Int32(root) ELSE BlockSize
  IN  [ChecksumCount   |-> Int32(BlockCount(len, b)),
       RemainderLength |-> Int32(len % b),
       BlockLength     |-> b]

(* SumHead.ReadFrom takes it.                                              *)
ReadFrom(head) ==
  /\ head.ChecksumCount >= 0
  /\ head.BlockLength \in 0 .. MaxBlockLen
  /\ head.RemainderLength \in 0 .. head.BlockLength

(* receiveSums and receiveData: the length of block i, from 0.             *)
SumLen(head, i) ==
  IF i = head.ChecksumCount - 1 /\ head.RemainderLength # 0
  THEN head.RemainderLength ELSE head.BlockLength

(* receiveSums: the offset of each block, from the lengths before it.      *)
SumOffset(head) ==
  LET at[i \in 0 .. head.ChecksumCount] ==
        IF i = 0 THEN 0 ELSE at[i - 1] + SumLen(head, i - 1)
  IN  at

(* receiveData: where block i is read from the local copy.                 *)
CopyOffset(head, i) == i * head.BlockLength

(* generateAndSendSums: what it reads when so much of the file remains.    *)
GeneratorReads(head, remaining) ==
  IF head.BlockLength < remaining THEN head.BlockLength ELSE remaining

Remaining(head, len) ==
  LET at[i \in 0 .. head.ChecksumCount] ==
        IF i = 0 THEN len ELSE at[i - 1] - GeneratorReads(head, at[i - 1])
  IN  at

-----------------------------------------------------------------------------
(* The blocks that references stand for lie in the file without gaps or    *)
(* overlap, none empty, and the last ends where it ends.                   *)
Covers(head, len) ==
  /\ head.ChecksumCount = 0 <=> len = 0
  /\ \A i \in 0 .. head.ChecksumCount - 1 :
       /\ SumLen(head, i) \in 1 .. head.BlockLength
       /\ CopyOffset(head, i) + SumLen(head, i) =
            IF i = head.ChecksumCount - 1 THEN len ELSE CopyOffset(head, i + 1)

(* Generator, sender and receiver mean the same bytes by block i.          *)
SidesAgree(head, len) ==
  \A i \in 0 .. head.ChecksumCount - 1 :
    /\ SumOffset(head)[i] = CopyOffset(head, i)
    /\ len - Remaining(head, len)[i] = CopyOffset(head, i)
    /\ GeneratorReads(head, Remaining(head, len)[i]) = SumLen(head, i)
=============================================================================
