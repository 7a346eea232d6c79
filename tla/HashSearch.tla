----------------------------- MODULE HashSearch -----------------------------
(***************************************************************************)
(* The sender's block search, hashSearch and matched of                    *)
(* rsyncsender/match.go with sendToken: it slides a window over the file,  *)
(* updates a rolling checksum, and writes literal data and references to   *)
(* the blocks of the other side's copy.  File reads go through MapStruct.  *)
(*                                                                         *)
(* The strong checksum and the md4 are abstracted to the bytes they hash.  *)
(* The tag table only narrows the search to the blocks with the same       *)
(* rolling checksum, in an order that sort.Slice leaves open, so any block *)
(* that passes all comparisons may be the one that is found.               *)
(***************************************************************************)
EXTENDS MapStruct, SumSizes, Sequences

CONSTANTS
  Files,        (* the files that may be searched: sequences of bytes      *)
  Copies,       (* the other side's copies, none empty: sequences of bytes *)
  BlockLengths, (* the block lengths its head may name                     *)
  Modulus,      (* of both halves of the rolling checksum: 2^16 in the code*)
  ChunkSize,    (* longest literal: chunkSize                              *)
  ReadSize,     (* smallest read size given to mapFile: 256 * 1024         *)
  Shrinks       (* may the file be truncated while it is searched?         *)

ASSUME SearchAssumption ==
  /\ Files \subseteq Seq(Byte)
  /\ Copies \subseteq Seq(Byte) \ {<<>>}
  /\ BlockLengths \subseteq Nat \ {0}
  /\ Modulus \in Nat \ {0} /\ ChunkSize \in Nat \ {0} /\ ReadSize \in Nat \ {0}
  /\ Shrinks \in BOOLEAN

VARIABLES
  source,     (* the file's bytes when it was opened (history)             *)
  file,       (* the file: its size and bytes now                          *)
  copy, B,    (* the other side's copy and the block length                *)
  ms,         (* the mapStruct                                             *)
  pc,         (* where hashSearch and matched are                          *)
  offset, k, s1, s2,         (* of hashSearch                              *)
  lastMatch,                 (* st.lastMatch                               *)
  upto, token, done, after,  (* matched: arguments offset and i, loop      *)
                             (* variable, and what follows its return      *)
  tokens,     (* written to the connection                                 *)
  hashed,     (* written to the md4 state                                  *)
  covered     (* history: offsets that references stand for                *)

searchVars  == <<offset, k, s1, s2>>
matchedVars == <<lastMatch, upto, token, done, after>>
inputVars   == <<source, copy, B>>
vars == <<inputVars, file, ms, pc, searchVars, matchedVars, tokens, hashed, covered>>

-----------------------------------------------------------------------------
(* Sequences start at 1, files and buffers at 0.                           *)
AsFile(s)    == [i \in 0 .. Len(s) - 1 |-> s[i + 1]]
AsSeq(b)     == [i \in {j + 1 : j \in DOMAIN b} |-> b[i - 1]]

(* The head and sums of the copy: block count, and block i from 0.         *)
fileSize     == Len(source)
Count        == BlockCount(Len(copy), B)
head         == [ChecksumCount |-> Count, RemainderLength |-> Len(copy) % B, BlockLength |-> B]
BlockLen(i)  == SumLen(head, i)
Block(i)     == SubSeq(copy, i * B + 1, i * B + BlockLen(i))
(* Variant: the search stops one place too early.                          *)
endTooEarly  == fileSize - BlockLen(Count - 1)
(* Variant: the search goes on to the last byte.                           *)
endTooLate   == fileSize + 1
end          == fileSize + 1 - BlockLen(Count - 1)

(* Checksum1: the sum of the bytes, and the sum of its partial sums.       *)
Partial1(b) ==
  LET p[n \in 0 .. Len(b)] == IF n = 0 THEN 0 ELSE p[n - 1] + b[n] IN p
Partial2(b) ==
  LET p == Partial1(b)
      q[n \in 0 .. Len(b)] == IF n = 0 THEN 0 ELSE q[n - 1] + p[n]
  IN  q
Sum1(b) == Partial1(b)[Len(b)] % Modulus
Sum2(b) == Partial2(b)[Len(b)] % Modulus

-----------------------------------------------------------------------------
(* readChunk at offset o.                                                  *)
ReadChunk(o) ==
  LET n == LesserOf(B, fileSize - o)
      b == AsSeq(ptr(file, ms, o, n))
  IN  /\ offset' = o /\ k' = n
      /\ s1' = Sum1(b) /\ s2' = Sum2(b)
      /\ ms' = PtrState(file, ms, o, n)

Start ==
  /\ pc = "start"
  /\ ReadChunk(0)
  /\ pc' = "probe"
  /\ UNCHANGED <<inputVars, file, matchedVars, tokens, hashed, covered>>

(* Blocks that agree in the rolling checksum and in length.                *)
SameSum ==
  {i \in 0 .. Count - 1 :
     /\ Sum1(Block(i)) = s1 /\ Sum2(Block(i)) = s2
     /\ BlockLen(i) = LesserOf(B, fileSize - offset)}

Here == ptr(file, ms, offset, LesserOf(B, fileSize - offset))

(* matched(offset o, token i), then go on at pc next.                      *)
CallMatched(o, i, next) ==
  /\ upto' = o /\ token' = i /\ done' = 0 /\ after' = next
  /\ pc' = "literal"
  /\ UNCHANGED lastMatch

Probe ==
  /\ pc = "probe"
  /\ LET alike == {i \in SameSum : Block(i) = AsSeq(Here)}
     IN  \/ /\ \E i \in alike : CallMatched(offset, i, "advance")
         \/ /\ alike = {}
            /\ pc' = "roll" /\ UNCHANGED matchedVars
  /\ ms' = IF SameSum = {} THEN ms
           ELSE PtrState(file, ms, offset, LesserOf(B, fileSize - offset))
  /\ UNCHANGED <<inputVars, file, searchVars, tokens, hashed, covered>>

(* After a match: start over one byte before the end of the block.         *)
Advance ==
  /\ pc = "advance"
  /\ ReadChunk(offset + BlockLen(token) - 1)
  /\ pc' = IF offset' >= end THEN "rest" ELSE "roll"
  /\ UNCHANGED <<inputVars, file, matchedVars, tokens, hashed, covered>>

(* Variant: at the end of the file the window keeps its length.            *)
ShrunkNever(more) == k

(* Variant: the window gets shorter with every byte.                       *)
ShrunkAlways(more) == k - 1

(* The window gets shorter where the file ends.                            *)
Shrunk(more) == IF more THEN k ELSE k - 1

(* Variant: the flush hands on everything before the window's end.         *)
FlushAll == offset

(* How much a flush hands on.                                              *)
FlushTo == offset - B

(* Variant: nothing is flushed.                                            *)
FlushNever(backup) == backup < 0

(* Too much unmatched data has come together, and more is to come.         *)
FlushNow(backup) == backup >= B + ChunkSize /\ end - offset > ChunkSize

(* Remove the oldest byte from the checksum and add the next one.  update  *)
(* is sliced at backup and indexed at 0 and k: on a slice that is too short*)
(* the program panics.                                                     *)
Roll ==
  /\ pc = "roll"
  /\ LET backup == GreaterOf(offset - lastMatch, 0)
         more   == offset + k < fileSize
         length == k + (IF more THEN 1 ELSE 0) + backup
         update == ptr(file, ms, offset - backup, length)
     IN  /\ ms' = PtrState(file, ms, offset - backup, length)
         /\ \/ /\ backup \notin DOMAIN update
               /\ pc' = "panic"
               /\ UNCHANGED <<searchVars, matchedVars>>
            \/ /\ backup \in DOMAIN update
               /\ LET oldest == update[backup]
                      newest == IF more THEN update[backup + k] ELSE 0
                  IN  /\ s1' = (s1 - oldest + newest) % Modulus
                      /\ s2' = (s2 - k * oldest + (IF more THEN s1' ELSE 0)) % Modulus
               /\ k' = Shrunk(more)
               /\ UNCHANGED offset
               /\ \/ FlushNow(backup) /\ CallMatched(FlushTo, -2, "step")
                  \/ ~FlushNow(backup) /\ pc' = "step" /\ UNCHANGED matchedVars
  /\ UNCHANGED <<inputVars, file, tokens, hashed, covered>>

Step ==
  /\ pc = "step"
  /\ offset' = offset + 1
  /\ pc' = IF offset' >= end THEN "rest" ELSE "probe"
  /\ UNCHANGED <<inputVars, file, ms, k, s1, s2, matchedVars, tokens, hashed, covered>>

(* The rest of the file, and the end token.                                *)
Rest ==
  /\ pc = "rest"
  /\ CallMatched(fileSize, -1, "sum")
  /\ UNCHANGED <<inputVars, file, ms, searchVars, tokens, hashed, covered>>

-----------------------------------------------------------------------------
(* matched and simpleSendToken.  A literal announces its length and is     *)
(* followed by the slice that ptr returned.                                *)
Literal(n, b) == [t |-> "data", n |-> n, d |-> AsSeq(b)]
Reference(i)  == [t |-> "ref", n |-> i, d |-> <<>>]
EndToken      == [t |-> "end", n |-> 0, d |-> <<>>]

n0 == upto - lastMatch                                 (* n before the hash *)
n1 == n0 + (IF token >= 0 THEN BlockLen(token) ELSE 0) (* n of the hash     *)

SendLiteral ==
  /\ pc = "literal" /\ done < n0
  /\ LET n == LesserOf(ChunkSize, n0 - done) IN
       /\ tokens' = Append(tokens, Literal(n, ptr(file, ms, lastMatch + done, n)))
       /\ ms' = PtrState(file, ms, lastMatch + done, n)
       /\ done' = done + n
  /\ UNCHANGED <<inputVars, file, pc, searchVars, lastMatch, upto, token, after,
                 hashed, covered>>

SendToken ==
  /\ pc = "literal" /\ done >= n0
  /\ tokens' = CASE token = -2 -> tokens
                 [] token = -1 -> Append(tokens, EndToken)
                 [] OTHER      -> Append(tokens, Reference(token))
  /\ covered' = IF token >= 0 THEN covered \cup (upto .. upto + BlockLen(token) - 1)
                ELSE covered
  /\ done' = 0 /\ pc' = "hash"
  /\ UNCHANGED <<inputVars, file, ms, searchVars, lastMatch, upto, token, after, hashed>>

HashChunk ==
  /\ pc = "hash" /\ done < n1
  /\ LET n == LesserOf(ChunkSize, n1 - done) IN
       /\ hashed' = hashed \o AsSeq(ptr(file, ms, lastMatch + done, n))
       /\ ms' = PtrState(file, ms, lastMatch + done, n)
       /\ done' = done + ChunkSize
  /\ UNCHANGED <<inputVars, file, pc, searchVars, lastMatch, upto, token, after,
                 tokens, covered>>

(* Variant: a match is remembered by its first byte.                       *)
MatchEndAtStart == upto

(* The first byte that no token stands for yet.                            *)
MatchEnd == IF token >= 0 THEN upto + BlockLen(token) ELSE upto

Matched ==
  /\ pc = "hash" /\ done >= n1
  /\ lastMatch' = MatchEnd
  /\ pc' = after
  /\ UNCHANGED <<inputVars, file, ms, searchVars, upto, token, done, after, tokens,
                 hashed, covered>>

(* External: another program truncates the file while it is searched.      *)
(* Bound: once.  Before the first read, to nothing, it stands for any file *)
(* with a length and without a readable byte, such as a directory.         *)
Truncate ==
  /\ Shrinks /\ pc \notin {"sum", "panic"} /\ file.size = fileSize
  /\ \E n \in 0 .. fileSize - 1 :
       file' = [size |-> n, at |-> Slice(file.at, 0, n)]
  /\ UNCHANGED <<inputVars, ms, pc, searchVars, matchedVars, tokens, hashed, covered>>

-----------------------------------------------------------------------------
Init ==
  /\ source \in Files /\ copy \in Copies /\ B \in BlockLengths
  /\ file = [size |-> fileSize, at |-> AsFile(source)]
  /\ ms = mapFile(fileSize, GreaterOf(3 * B, ReadSize), B)
  /\ pc = "start"
  /\ offset = 0 /\ k = 0 /\ s1 = 0 /\ s2 = 0
  /\ lastMatch = 0 /\ upto = 0 /\ token = -1 /\ done = 0 /\ after = "start"
  /\ tokens = <<>> /\ hashed = <<>> /\ covered = {}

Search ==
  \/ Start \/ Probe \/ Advance \/ Roll \/ Step \/ Rest
  \/ SendLiteral \/ SendToken \/ HashChunk \/ Matched

Next == Search \/ Truncate

Spec == Init /\ [][Next]_vars

-----------------------------------------------------------------------------
(* The ranges of what the search keeps.                                    *)
TypeOK ==
  /\ pc \in {"start", "probe", "literal", "hash", "advance", "roll", "step",
             "rest", "sum", "panic"}
  /\ offset \in 0 .. fileSize /\ k \in 0 .. B
  /\ s1 \in 0 .. Modulus - 1 /\ s2 \in 0 .. Modulus - 1
  /\ lastMatch \in 0 .. fileSize /\ upto \in 0 .. fileSize
  /\ token \in -2 .. Count - 1
  /\ hashed \in Seq(Byte)

(* What the other side makes of a token: receiveData copies literals, and  *)
(* for a reference the block at i * BlockLength of its copy.               *)
Piece(t) == CASE t.t = "data" -> t.d [] t.t = "ref" -> Block(t.n) [] OTHER -> <<>>

Joined(parts) ==
  LET r[n \in 0 .. Len(parts)] == IF n = 0 THEN <<>> ELSE r[n - 1] \o parts[n]
  IN  r[Len(parts)]

Rebuilt == Joined([i \in 1 .. Len(tokens) |-> Piece(tokens[i])])

(* Between two calls of matched, what the tokens stand for and what was    *)
(* hashed are both the file up to lastMatch; at the end they are the file, *)
(* and every literal is as long as announced.  So the md4 that is sent is  *)
(* the md4 of what the other side builds.                                  *)
TokensRebuildTheFile ==
  /\ pc \notin {"literal", "hash", "panic"} /\ ~ms.err =>
       /\ Rebuilt = SubSeq(source, 1, lastMatch)
       /\ hashed = Rebuilt
  /\ pc = "sum" /\ ~ms.err =>
       /\ Rebuilt = source
       /\ \A i \in 1 .. Len(tokens) :
            tokens[i].t = "data" => /\ Len(tokens[i].d) = tokens[i].n
                                    /\ tokens[i].n \in 1 .. ChunkSize

(* The checksum that is rolled along is that of the window it stands for,  *)
(* after matches, at the end of the file and where the sums wrap.          *)
RollingIsDirect ==
  pc = "probe" /\ ~ms.err =>
    LET window == SubSeq(source, offset + 1, offset + k)
    IN  k = LesserOf(B, fileSize - offset) /\ s1 = Sum1(window) /\ s2 = Sum2(window)

(* No block of the other side's copy is sent as literal data: wherever it  *)
(* occurs in the file, part of the place is covered by some reference.  A  *)
(* short last block counts where the code looks for it, at the very end.   *)
NoBlockMissed ==
  pc = "sum" /\ ~ms.err =>
    \A i \in 0 .. Count - 1 :
      LET n == BlockLen(i)
          places == IF n = B THEN 0 .. fileSize - n ELSE {fileSize - n} \cap Nat
      IN  \A o \in places :
            SubSeq(source, o + 1, o + n) = Block(i) => (o .. o + n - 1) \cap covered # {}

(* The unmatched data that has come together stays bounded by the flush.   *)
BacklogBounded == offset - lastMatch <= B + 2 * ChunkSize

(* The window shows the file as it was, as long as no read has failed.     *)
WindowFaithful == ~ms.err => Faithful(ms, AsFile(source))

(* The slice of the rolling update is too short only after a failed read,  *)
(* or when the file is empty.                                              *)
PanicNeedsCause == pc = "panic" => ms.err \/ source = <<>>

(* A file of zero bytes that fits into the default window is answered in   *)
(* full, by literals and references with their md4, however many of its    *)
(* reads fail (fileio.go:100-109), be it all of them as on a directory: the*)
(* length is what Stat told, the bytes are the window's.                   *)
UnreadableIsZeros ==
  (\A i \in 1 .. fileSize : source[i] = 0) /\ fileSize <= ms.defWindowSize =>
    /\ pc = "sum" => Rebuilt = source /\ hashed = source
    /\ pc = "panic" => source = <<>>

(* "file has changed mid-transfer" (fileio.go:108): a read of the window   *)
(* fails only when the file has changed.                                   *)
ReadFailsOnlyIfChanged == ms.err => file.size # fileSize

=============================================================================
