------------------------------ MODULE Receiver ------------------------------
(***************************************************************************)
(* The receiving side of one transfer: Do of package rsyncreceiver and     *)
(* the part of ClientRun that follows it.  Once the file list is known, Do *)
(* runs two goroutines over one connection:                                *)
(*                                                                         *)
(*   generator  walks the list, asks the remote sender for each file that  *)
(*              looks stale, and sends the block sums of the local copy;   *)
(*   receiver   reads the sender's answers, rebuilds each file from literal*)
(*              data and blocks of the local copy, and streams the result  *)
(*              through an io.Pipe into a third goroutine, Files.Put.      *)
(*                                                                         *)
(* The connection is one bounded FIFO per direction: a writer blocks when  *)
(* it is full.  One message stands for one Conn write group of the code.   *)
(* File contents are sequences of blocks; hashing is abstracted to the     *)
(* content it hashes, so sums collide only when contents are equal.        *)
(* The file system (utils.FS) and the remote sender are external.          *)
(***************************************************************************)
EXTENDS Integers, Sequences, FiniteSets

CONSTANTS
  NFiles,     (* entries of the sorted file list; indices start at 0       *)
  Chunk,      (* contents of one block                                     *)
  NoFile,     (* "no such file", also "nothing stored"                     *)
  Source,     (* the sender's files: [File -> Seq(Chunk)]                  *)
  Regular,    (* the entries whose mode is a regular file                  *)
  Disks,      (* possible initial local stores: [File -> Content or NoFile]*)
  SameTime,   (* entries whose local mtime equals the one in the list      *)
  Edits,      (* what another program may write over a local file          *)
  OutCap,     (* capacity, receiving side to sender                        *)
  InCap,      (* capacity, sender to receiving side                        *)
  Sessions,   (* the options a session may run with, see Options           *)
  Faults      (* which external failures may happen, see Fault             *)

File    == 0 .. NFiles - 1
Content == Seq(Chunk)

(* "open": Files.Read fails though the file exists   "read": a block of an *)
(* open file cannot be read   "put": Put returns without storing the file  *)
(* "remove": Remove fails   "edit": another program replaces a local file  *)
(* "vanish": the sender skips a file it cannot open   "crash": the sender  *)
(* goes away.                                                              *)
Fault == {"open", "read", "put", "remove", "edit", "vanish", "crash"}

(* rt.Opts and what else is fixed before Do starts.  noReport is its last  *)
(* argument, IOErrors the flag at the end of the file list.  SkipBy is     *)
(* "never" under AlwaysChecksum or IgnoreTimes, "size" under SizeOnly,     *)
(* else "quick".  InPlace tells whether Put overwrites the file that open  *)
(* handles still read, or replaces it: utils.FS leaves that open.          *)
Options ==
  [DryRun : BOOLEAN, DeleteMode : BOOLEAN, noReport : BOOLEAN, IOErrors : Int,
   SkipBy : {"never", "size", "quick"}, InPlace : BOOLEAN]

Done == -1  (* the index that ends a phase and says goodbye                *)

ASSUME ReceiverAssumption ==
  /\ NFiles \in Nat
  /\ NoFile \notin Content
  /\ Source \in [File -> Content]
  /\ Regular \subseteq File /\ SameTime \subseteq File
  /\ Disks \subseteq [File -> Content \cup {NoFile}]
  /\ Edits \subseteq Content \cup {NoFile}
  /\ OutCap \in Nat \ {0} /\ InCap \in Nat \ {0}
  /\ Sessions \subseteq Options
  /\ Faults \subseteq Fault

VARIABLES
  opts,       (* the options of this session                               *)
  main,       (* where Do and ClientRun are                                *)
  sel,        (* the second errgroup function: select over ctx and errChan *)
  gen,        (* where GenerateFiles is                                    *)
  genIdx,     (* the entry it works on                                     *)
  genSnap,    (* the content of its open handle, NoFile without one        *)
  genSum,     (* the next block to sum                                     *)
  recv,       (* where RecvFiles, recvFile1 and receiveData are            *)
  phase,      (* RecvFiles' phase                                          *)
  cur,        (* the entry being received                                  *)
  base,       (* the content of localFile, NoFile for nil                  *)
  hash,       (* what has been written to the md4 state                    *)
  put,        (* where the Files.Put goroutine of the entry is             *)
  acc,        (* what it has read from the pipe                            *)
  pipe,       (* the write the pipe holds, <<>> when none is pending       *)
  eof,        (* the write end of the pipe is closed                       *)
  out, in,    (* the connection                                            *)
  closed,     (* the caller has closed it after ClientRun returned         *)
  peer, peerPhase, peerCur, peerNeed, peerSums, peerPos,  (* remote sender *)
  local,      (* the local store                                           *)
  strays,     (* local files that the list does not name exist             *)
  edited,     (* entries another program has replaced                      *)
  requested, vanished, putErr, stored    (* history, see below             *)

mainVars == <<main, sel, closed, strays>>
genVars  == <<gen, genIdx, genSnap, genSum>>
recvVars == <<recv, phase, cur, base, hash>>
putVars  == <<put, acc, pipe, eof>>
peerVars == <<peer, peerPhase, peerCur, peerNeed, peerSums, peerPos>>
diskVars == <<local, edited>>
(* requested: the entries the generator asked for; vanished: those the     *)
(* sender skipped; putErr: those whose Put returned without storing;       *)
(* stored: the content the last completed Put of an entry stored.          *)
histVars == <<requested, vanished, putErr, stored>>
vars == <<opts, mainVars, genVars, recvVars, putVars, out, in, peerVars, diskVars,
          histVars>>

-----------------------------------------------------------------------------
(* Messages.                                                               *)
Idx(i)      == [t |-> "idx", v |-> i]
SumHead(n)  == [t |-> "head", v |-> n]
BlockSum(c) == [t |-> "sum", v |-> c]
Data(c)     == [t |-> "data", v |-> c]
Ref(j)      == [t |-> "ref", v |-> j]
EndToken    == [t |-> "end", v |-> 0]
FileSum(c)  == [t |-> "filesum", v |-> c]
Stats       == [t |-> "stats", v |-> 0]
ErrorMsg    == [t |-> "error", v |-> 0]

Msg == [t : {"idx"}, v : File \cup {Done}]
         \cup [t : {"head"}, v : Nat] \cup [t : {"ref"}, v : Nat \ {0}]
         \cup [t : {"sum", "data"}, v : Chunk]
         \cup [t : {"filesum"}, v : Content]
         \cup [t : {"end", "stats", "error"}, v : {0}]

PeerGone == peer \in {"gone", "stopped"}

(* A write to the sender returns once the connection has room, or fails    *)
(* once the sender is gone.                                                *)
WriteOK(m) == Len(out) < OutCap /\ out' = Append(out, m)
WriteErr   == PeerGone /\ UNCHANGED out

(* A read finds a message of the type the code is about to decode, or      *)
(* fails: at end of stream, or because our side has closed the connection. *)
ReadOK(type) == ~closed /\ in # <<>> /\ Head(in).t \in type /\ in' = Tail(in)
ReadErr      == (closed \/ (PeerGone /\ in = <<>>)) /\ UNCHANGED in

(* What a handle opened on entry f, when its content was snap, reads now:  *)
(* a store that replaces files keeps the old content alive, one that       *)
(* overwrites them in place does not.                                      *)
View(snap, f) == IF opts.InPlace /\ local[f] # NoFile THEN local[f] ELSE snap

-----------------------------------------------------------------------------
(* Do and ClientRun.                                                       *)

(* Do deletes first, then starts both goroutines.                          *)
DoStart ==
  /\ main = "delete"
  /\ \/ /\ strays' = (strays /\ ~(opts.DeleteMode /\ opts.IOErrors <= 0))
        /\ main' = "wait" /\ sel' = "run" /\ gen' = "next" /\ recv' = "idx"
     \/ /\ opts.DeleteMode /\ opts.IOErrors <= 0 /\ "remove" \in Faults
        /\ main' = "senderr"
        /\ UNCHANGED <<strays, sel, gen, recv>>
  /\ UNCHANGED <<opts, closed, genIdx, genSnap, genSum, phase, cur, base, hash,
                 putVars, out, in, peerVars, diskVars, histVars>>

(* Variant: the select does not listen to ctx.                             *)
SelectCtxIgnored == FALSE /\ UNCHANGED vars

(* The errgroup cancels ctx as soon as the generator fails.                *)
SelectCtx ==
  /\ sel = "run" /\ gen = "err"
  /\ sel' = "err"
  /\ UNCHANGED <<opts, main, closed, strays, genVars, recvVars, putVars, out, in,
                 peerVars, diskVars, histVars>>

(* errChan hands over what RecvFiles returned.                             *)
SelectRecv ==
  /\ sel = "run" /\ recv \in {"ok", "err"}
  /\ sel' = recv
  /\ UNCHANGED <<opts, main, closed, strays, genVars, recvVars, putVars, out, in,
                 peerVars, diskVars, histVars>>

(* eg.Wait returns only when both functions have returned.                 *)
GroupDone == gen \in {"ok", "err"} /\ sel \in {"ok", "err"}

DoWait ==
  /\ main = "wait" /\ GroupDone
  /\ main' = IF gen = "err" \/ sel = "err" THEN "senderr"
             ELSE IF opts.noReport THEN "goodbye" ELSE "report"
  /\ UNCHANGED <<opts, sel, closed, strays, genVars, recvVars, putVars, out, in,
                 peerVars, diskVars, histVars>>

DoReport ==
  /\ main = "report"
  /\ \/ ReadOK({"stats"}) /\ main' = "goodbye"
     \/ ReadErr /\ main' = "senderr"
  /\ UNCHANGED <<opts, sel, closed, strays, genVars, recvVars, putVars, out,
                 peerVars, diskVars, histVars>>

DoGoodbye ==
  /\ main = "goodbye"
  /\ \/ WriteOK(Idx(Done)) /\ main' = "ok"
     \/ WriteErr /\ main' = "senderr"
  /\ UNCHANGED <<opts, sel, closed, strays, genVars, recvVars, putVars, in,
                 peerVars, diskVars, histVars>>

(* The deferred function of ClientRun reports the error to the sender; the *)
(* result of that write is ignored.                                        *)
SendError ==
  /\ main = "senderr"
  /\ WriteOK(ErrorMsg) \/ WriteErr
  /\ main' = "failed"
  /\ UNCHANGED <<opts, sel, closed, strays, genVars, recvVars, putVars, in,
                 peerVars, diskVars, histVars>>

(* External: whoever called ClientRun closes the connection.               *)
CloseConn ==
  /\ main \in {"ok", "failed"} /\ ~closed
  /\ closed' = TRUE
  /\ UNCHANGED <<opts, main, sel, strays, genVars, recvVars, putVars, out, in,
                 peerVars, diskVars, histVars>>

-----------------------------------------------------------------------------
(* GenerateFiles.                                                          *)

SkipFile(f) ==
  /\ opts.SkipBy # "never"
  /\ Len(local[f]) = Len(Source[f])
  /\ opts.SkipBy = "size" \/ f \in SameTime \ edited

(* Variant: the walk over the list runs past its end.                      *)
GenSkipPastEnd ==
  /\ gen = "next"
  /\ genIdx \in Regular => local[genIdx] # NoFile /\ SkipFile(genIdx)
  /\ genIdx' = genIdx + 1
  /\ UNCHANGED <<opts, mainVars, gen, genSnap, genSum, recvVars, putVars, out, in,
                 peerVars, diskVars, histVars>>

(* Nothing is written for an entry that is not regular or is up to date.   *)
GenSkip ==
  /\ gen = "next" /\ genIdx < NFiles
  /\ genIdx \in Regular => local[genIdx] # NoFile /\ SkipFile(genIdx)
  /\ genIdx' = genIdx + 1
  /\ UNCHANGED <<opts, mainVars, gen, genSnap, genSum, recvVars, putVars, out, in,
                 peerVars, diskVars, histVars>>

(* The local copy is opened, or the whole file is asked for.               *)
GenOpen(snap) ==
  \/ local[genIdx] # NoFile /\ ~SkipFile(genIdx) /\ snap = local[genIdx]
  \/ (local[genIdx] = NoFile \/ "open" \in Faults) /\ snap = NoFile

GenRequest ==
  /\ gen = "next" /\ genIdx < NFiles /\ genIdx \in Regular
  /\ \E snap \in {local[genIdx], NoFile} :
       /\ GenOpen(snap)
       /\ \/ /\ WriteOK(Idx(genIdx))
             /\ requested' = requested \cup {genIdx}
             /\ IF opts.DryRun
                  THEN genIdx' = genIdx + 1 /\ UNCHANGED <<gen, genSnap>>
                  ELSE gen' = "head" /\ genSnap' = snap /\ UNCHANGED genIdx
          \/ WriteErr /\ gen' = "err" /\ UNCHANGED <<genIdx, genSnap, requested>>
  /\ UNCHANGED <<opts, mainVars, genSum, recvVars, putVars, in, peerVars, diskVars,
                 vanished, putErr, stored>>

(* An empty SumHead for a whole file, or the block count of the local copy *)
(* as it was when it was opened.                                           *)
Blocks(snap) == IF snap = NoFile THEN 0 ELSE Len(snap)

GenHead ==
  /\ gen = "head"
  /\ \/ /\ WriteOK(SumHead(Blocks(genSnap)))
        /\ genSum' = 1
        /\ IF Blocks(genSnap) = 0
             THEN gen' = "next" /\ genIdx' = genIdx + 1
             ELSE gen' = "sums" /\ UNCHANGED genIdx
     \/ WriteErr /\ gen' = "err" /\ UNCHANGED <<genIdx, genSum>>
  /\ UNCHANGED <<opts, mainVars, genSnap, recvVars, putVars, in, peerVars, diskVars,
                 histVars>>

GenSum ==
  /\ gen = "sums"
  /\ genSum <= Len(View(genSnap, genIdx))
  /\ \/ /\ WriteOK(BlockSum(View(genSnap, genIdx)[genSum]))
        /\ genSum' = genSum + 1
        /\ IF genSum = Blocks(genSnap)
             THEN gen' = "next" /\ genIdx' = genIdx + 1
             ELSE UNCHANGED <<gen, genIdx>>
     \/ WriteErr /\ gen' = "err" /\ UNCHANGED <<genIdx, genSum>>
  /\ UNCHANGED <<opts, mainVars, genSnap, recvVars, putVars, in, peerVars, diskVars,
                 histVars>>

(* Variant: an unreadable local copy only ends the work on its entry.      *)
GenReadFailsContinues ==
  /\ gen = "sums"
  /\ genSum > Len(View(genSnap, genIdx)) \/ "read" \in Faults
  /\ gen' = "next" /\ genIdx' = genIdx + 1
  /\ UNCHANGED <<opts, mainVars, genSnap, genSum, recvVars, putVars, out, in,
                 peerVars, diskVars, histVars>>

(* io.ReadFull fails: the file has become shorter, or cannot be read.      *)
GenReadFails ==
  /\ gen = "sums"
  /\ genSum > Len(View(genSnap, genIdx)) \/ "read" \in Faults
  /\ gen' = "err"
  /\ UNCHANGED <<opts, mainVars, genIdx, genSnap, genSum, recvVars, putVars, out, in,
                 peerVars, diskVars, histVars>>

(* After the last entry the generator writes -1 twice.                     *)
GenPhase ==
  /\ (gen = "next" /\ genIdx = NFiles) \/ gen = "phase1"
  /\ \/ WriteOK(Idx(Done)) /\ gen' = (IF gen = "next" THEN "phase1" ELSE "ok")
     \/ WriteErr /\ gen' = "err"
  /\ UNCHANGED <<opts, mainVars, genIdx, genSnap, genSum, recvVars, putVars, in,
                 peerVars, diskVars, histVars>>

Generator ==
  GenSkip \/ GenRequest \/ GenHead \/ GenSum \/ GenReadFails \/ GenPhase

-----------------------------------------------------------------------------
(* RecvFiles, recvFile1 and receiveData.                                   *)

(* Variant: the first -1 ends the loop.                                    *)
RecvIdxOnePhase ==
  /\ recv = "idx" /\ ReadOK({"idx"})
  /\ LET i == Head(in).v IN
       \/ i = Done /\ recv' = "ok" /\ UNCHANGED cur
       \/ i # Done /\ cur' = i /\ recv' = IF opts.DryRun THEN "idx" ELSE "open"
  /\ UNCHANGED <<opts, mainVars, genVars, phase, base, hash, putVars, out, peerVars,
                 diskVars, histVars>>

RecvIdx ==
  /\ recv = "idx" /\ ReadOK({"idx"})
  /\ LET i == Head(in).v IN
       \/ i = Done /\ phase = 0 /\ phase' = 1 /\ UNCHANGED <<recv, cur>>
       \/ i = Done /\ phase = 1 /\ recv' = "ok" /\ UNCHANGED <<phase, cur>>
       \/ /\ i # Done
          /\ cur' = i
          /\ recv' = IF opts.DryRun THEN "idx" ELSE "open"
          /\ UNCHANGED phase
  /\ UNCHANGED <<opts, mainVars, genVars, base, hash, putVars, out, peerVars,
                 diskVars, histVars>>

(* A local copy that cannot be opened is not an error yet.                 *)
RecvOpen ==
  /\ recv = "open"
  /\ \/ base' = local[cur]
     \/ "open" \in Faults /\ base' = NoFile
  /\ recv' = "head"
  /\ UNCHANGED <<opts, mainVars, genVars, phase, cur, hash, putVars, out, in,
                 peerVars, diskVars, histVars>>

(* With the head read, Put starts on a new pipe.                           *)
RecvHead ==
  /\ recv = "head" /\ ReadOK({"head"})
  /\ recv' = "token" /\ hash' = <<>>
  /\ put' = "start" /\ acc' = <<>> /\ pipe' = <<>> /\ eof' = FALSE
  /\ UNCHANGED <<opts, mainVars, genVars, phase, cur, base, out, peerVars, diskVars,
                 histVars>>

(* Both kinds of token feed the hash and then the pipe.                    *)
Feed(c) ==
  /\ hash' = Append(hash, c) /\ pipe' = <<c>>
  /\ recv' = "write"

RecvData ==
  /\ recv = "token" /\ ReadOK({"data"})
  /\ Feed(Head(in).v)
  /\ UNCHANGED <<opts, mainVars, genVars, phase, cur, base, put, acc, eof, out,
                 peerVars, diskVars, histVars>>

(* localFile.ReadAt succeeds when the handle still has that block.         *)
Readable(j) == base # NoFile /\ j <= Len(View(base, cur))

RecvRef ==
  /\ recv = "token" /\ ReadOK({"ref"})
  /\ LET j == Head(in).v IN
       \/ Readable(j) /\ Feed(View(base, cur)[j])
       \/ /\ ~Readable(j) \/ "read" \in Faults
          /\ recv' = "err" /\ UNCHANGED <<hash, pipe>>
  /\ UNCHANGED <<opts, mainVars, genVars, phase, cur, base, put, acc, eof, out,
                 peerVars, diskVars, histVars>>

(* w.Write returns when the reader has taken the data, or with             *)
(* ErrClosedPipe, which is ignored, when Put has returned.                 *)
RecvWritten ==
  /\ recv = "write" /\ (pipe = <<>> \/ put = "returned")
  /\ pipe' = <<>> /\ recv' = "token"
  /\ UNCHANGED <<opts, mainVars, genVars, phase, cur, base, hash, put, acc, eof, out,
                 in, peerVars, diskVars, histVars>>

RecvEnd ==
  /\ recv = "token" /\ ReadOK({"end"})
  /\ eof' = TRUE /\ recv' = "wait"
  /\ UNCHANGED <<opts, mainVars, genVars, phase, cur, base, hash, put, acc, pipe,
                 out, peerVars, diskVars, histVars>>

(* Variant: the receiver does not wait for Put.                            *)
RecvNoWait ==
  /\ recv = "wait"
  /\ recv' = "sum"
  /\ UNCHANGED <<opts, mainVars, genVars, phase, cur, base, hash, putVars, out, in,
                 peerVars, diskVars, histVars>>

(* wg.Wait.                                                                *)
RecvWait ==
  /\ recv = "wait" /\ put = "returned"
  /\ recv' = "sum"
  /\ UNCHANGED <<opts, mainVars, genVars, phase, cur, base, hash, putVars, out, in,
                 peerVars, diskVars, histVars>>

(* Variant: the md4 is not compared.                                       *)
MatchesAlways(sum) == sum \in Content

(* The md4 of what was received against the one the sender computed.       *)
Matches(sum) == sum = hash

RecvSum ==
  /\ recv = "sum" /\ ReadOK({"filesum"})
  /\ recv' = IF Matches(Head(in).v) THEN "idx" ELSE "err"
  /\ UNCHANGED <<opts, mainVars, genVars, phase, cur, base, hash, putVars, out,
                 peerVars, diskVars, histVars>>

(* Variant: the pipe is closed on every return, as a deferred Close would. *)
ClosePipe == eof' = TRUE

(* Variant: a failed read is tried again.                                  *)
RecvReadErrRetries ==
  /\ recv \in {"idx", "head", "token", "sum"} /\ ReadErr
  /\ UNCHANGED vars

(* A failed read ends RecvFiles; the pipe and Put are left as they are.    *)
LeavePut == UNCHANGED eof

RecvReadErr ==
  /\ recv \in {"idx", "head", "token", "sum"} /\ ReadErr
  /\ recv' = "err"
  /\ LeavePut
  /\ UNCHANGED <<opts, mainVars, genVars, phase, cur, base, hash, put, acc, pipe, out,
                 peerVars, diskVars, histVars>>

RecvFiles ==
  \/ RecvIdx \/ RecvOpen \/ RecvHead \/ RecvData \/ RecvRef \/ RecvWritten
  \/ RecvEnd \/ RecvWait \/ RecvSum \/ RecvReadErr

-----------------------------------------------------------------------------
(* External: Files.Put reads the pipe to its end and stores what it read.  *)
(* When it returns, the goroutine releases wg and closes the read end.     *)

PutStart ==
  /\ put = "start"
  /\ put' = "reading"
  /\ local' = IF opts.InPlace THEN [local EXCEPT ![cur] = <<>>] ELSE local
  /\ UNCHANGED <<opts, mainVars, genVars, recvVars, acc, pipe, eof, out, in,
                 peerVars, edited, histVars>>

PutRead ==
  /\ put = "reading" /\ pipe # <<>>
  /\ acc' = acc \o pipe /\ pipe' = <<>>
  /\ local' = IF opts.InPlace THEN [local EXCEPT ![cur] = acc \o pipe] ELSE local
  /\ UNCHANGED <<opts, mainVars, genVars, recvVars, put, eof, out, in, peerVars,
                 edited, histVars>>

PutStore ==
  /\ put = "reading" /\ pipe = <<>> /\ eof
  /\ put' = "returned"
  /\ local' = [local EXCEPT ![cur] = acc]
  /\ stored' = [stored EXCEPT ![cur] = acc]
  /\ UNCHANGED <<opts, mainVars, genVars, recvVars, acc, pipe, eof, out, in,
                 peerVars, edited, requested, vanished, putErr>>

PutFails ==
  /\ put \in {"start", "reading"} /\ "put" \in Faults
  /\ put' = "returned"
  /\ putErr' = putErr \cup {cur}
  /\ UNCHANGED <<opts, mainVars, genVars, recvVars, acc, pipe, eof, out, in,
                 peerVars, diskVars, requested, vanished, stored>>

Put == PutStart \/ PutRead \/ PutStore \/ PutFails

(* External: another program replaces a local file before it is stored.    *)
(* Bound: once per behaviour.                                              *)
Edit(f) ==
  /\ "edit" \in Faults /\ edited = {}
  /\ ~(f = cur /\ put # "none")
  /\ stored[f] = NoFile
  /\ \E c \in Edits : local' = [local EXCEPT ![f] = c]
  /\ edited' = {f}
  /\ UNCHANGED <<opts, mainVars, genVars, recvVars, putVars, out, in, peerVars,
                 histVars>>


-----------------------------------------------------------------------------
(* External: the remote sender.  It answers the indices it reads in order, *)
(* one at a time, as SendFiles does.                                       *)

PeerRead(type) == out # <<>> /\ Head(out).t \in type /\ out' = Tail(out)
PeerWrite(m)   == ~closed /\ Len(in) < InCap /\ in' = Append(in, m)

PeerReadIdx ==
  /\ peer = "idx" /\ PeerRead({"idx"})
  /\ LET i == Head(out).v IN
       \/ /\ i = Done
          /\ peer' = IF peerPhase = 0 THEN "ack" ELSE "final"
          /\ UNCHANGED peerCur
       \/ /\ i # Done
          /\ peer' = IF opts.DryRun THEN "echo" ELSE "head"
          /\ peerCur' = i
  /\ UNCHANGED <<opts, mainVars, genVars, recvVars, putVars, in, peerPhase, peerNeed,
                 peerSums, peerPos, diskVars, histVars>>

PeerReadHead ==
  /\ peer = "head" /\ PeerRead({"head"})
  /\ peerNeed' = Head(out).v /\ peerSums' = <<>>
  /\ peer' = IF Head(out).v = 0 THEN "answer" ELSE "sums"
  /\ UNCHANGED <<opts, mainVars, genVars, recvVars, putVars, in, peerPhase, peerCur,
                 peerPos, diskVars, histVars>>

PeerReadSum ==
  /\ peer = "sums" /\ PeerRead({"sum"})
  /\ peerSums' = Append(peerSums, Head(out).v)
  /\ peerNeed' = peerNeed - 1
  /\ peer' = IF peerNeed = 1 THEN "answer" ELSE "sums"
  /\ UNCHANGED <<opts, mainVars, genVars, recvVars, putVars, in, peerPhase, peerCur,
                 peerPos, diskVars, histVars>>

PeerReadBye ==
  /\ peer = "bye" /\ PeerRead({"idx"})
  /\ peer' = "stopped"
  /\ UNCHANGED <<opts, mainVars, genVars, recvVars, putVars, in, peerPhase, peerCur,
                 peerNeed, peerSums, peerPos, diskVars, histVars>>

(* A file the sender cannot open is skipped before anything is written.    *)
PeerVanish ==
  /\ peer = "answer" /\ "vanish" \in Faults
  /\ peer' = "idx"
  /\ vanished' = vanished \cup {peerCur}
  /\ UNCHANGED <<opts, mainVars, genVars, recvVars, putVars, out, in, peerPhase,
                 peerCur, peerNeed, peerSums, peerPos, diskVars, requested,
                 putErr, stored>>

(* A file is sent as literals and blocks whose sum the receiver has sent.  *)
PeerTokens ==
  LET c == Source[peerCur][peerPos] IN
    {Data(c)} \cup {Ref(j) : j \in {k \in 1 .. Len(peerSums) : peerSums[k] = c}}

PeerSays(at, m, next) == peer = at /\ PeerWrite(m) /\ peer' = next

PeerSend ==
  /\ \/ PeerSays("ack", Idx(Done), "idx")
     \/ PeerSays("final", Idx(Done), IF opts.noReport THEN "bye" ELSE "stats")
     \/ PeerSays("stats", Stats, "bye")
     \/ PeerSays("echo", Idx(peerCur), "idx")
     \/ PeerSays("answer", Idx(peerCur), "rhead")
     \/ PeerSays("rhead", SumHead(Len(peerSums)), "tokens")
     \/ /\ peer = "tokens" /\ peerPos <= Len(Source[peerCur])
        /\ \E m \in PeerTokens : PeerSays("tokens", m, "tokens")
     \/ /\ peer = "tokens" /\ peerPos > Len(Source[peerCur])
        /\ PeerSays("tokens", EndToken, "rsum")
     \/ PeerSays("rsum", FileSum(Source[peerCur]), "idx")
  /\ peerPhase' = IF peer = "ack" THEN 1 ELSE peerPhase
  /\ peerPos' = IF peer = "tokens" THEN peerPos + 1 ELSE 1
  /\ UNCHANGED <<opts, mainVars, genVars, recvVars, putVars, out, peerCur, peerNeed,
                 peerSums, diskVars, histVars>>

(* It goes away when it reads an error message or the connection ends.     *)
PeerLeaves ==
  /\ ~PeerGone
  /\ \/ closed /\ (out = <<>> \/ peer \notin {"idx", "head", "sums", "bye"})
     \/ peer \in {"idx", "head", "sums", "bye"} /\ out # <<>> /\ Head(out) = ErrorMsg
  /\ peer' = "gone"
  /\ UNCHANGED <<opts, mainVars, genVars, recvVars, putVars, out, in, peerPhase,
                 peerCur, peerNeed, peerSums, peerPos, diskVars, histVars>>

(* It goes away at any time for a reason of its own.                       *)
PeerCrash ==
  /\ ~PeerGone /\ "crash" \in Faults
  /\ peer' = "gone"
  /\ UNCHANGED <<opts, mainVars, genVars, recvVars, putVars, out, in, peerPhase,
                 peerCur, peerNeed, peerSums, peerPos, diskVars, histVars>>

Peer ==
  \/ PeerReadIdx \/ PeerReadHead \/ PeerReadSum \/ PeerReadBye
  \/ PeerVanish \/ PeerSend \/ PeerLeaves

-----------------------------------------------------------------------------
Init ==
  /\ opts \in Sessions
  /\ main = "delete" /\ sel = "idle" /\ closed = FALSE /\ strays = TRUE
  /\ gen = "idle" /\ genIdx = 0 /\ genSnap = NoFile /\ genSum = 1
  /\ recv = "idle" /\ phase = 0 /\ cur = Done /\ base = NoFile /\ hash = <<>>
  /\ put = "none" /\ acc = <<>> /\ pipe = <<>> /\ eof = FALSE
  /\ out = <<>> /\ in = <<>>
  /\ peer = "idx" /\ peerPhase = 0 /\ peerCur = Done /\ peerNeed = 0
  /\ peerSums = <<>> /\ peerPos = 1
  /\ local \in Disks /\ edited = {}
  /\ requested = {} /\ vanished = {} /\ putErr = {}
  /\ stored = [f \in File |-> NoFile]

Main   == DoStart \/ DoWait \/ DoReport \/ DoGoodbye \/ SendError
Select == SelectCtx \/ SelectRecv

Moves == Main \/ Select \/ CloseConn \/ Generator \/ RecvFiles \/ Put \/ Peer

Next == Moves \/ PeerCrash \/ \E f \in Regular : Edit(f)

Spec == Init /\ [][Next]_vars

(* The Go scheduler runs every goroutine that can run; the sender and the  *)
(* network keep working until they fail for good.                          *)
Fairness ==
  /\ WF_vars(Main) /\ WF_vars(Select) /\ WF_vars(CloseConn)
  /\ WF_vars(Generator) /\ WF_vars(RecvFiles) /\ WF_vars(Put) /\ WF_vars(Peer)

FairSpec == Spec /\ Fairness

-----------------------------------------------------------------------------
(* The range of every variable.                                            *)
MainTypes ==
  /\ opts \in Sessions
  /\ main \in {"delete", "wait", "report", "goodbye", "senderr", "ok", "failed"}
  /\ sel \in {"idle", "run", "ok", "err"}
  /\ closed \in BOOLEAN /\ strays \in BOOLEAN

GenTypes ==
  /\ gen \in {"idle", "next", "head", "sums", "phase1", "ok", "err"}
  /\ genIdx \in 0 .. NFiles
  /\ genSnap \in Content \cup {NoFile}
  /\ genSum \in Nat \ {0}

RecvTypes ==
  /\ recv \in {"idle", "idx", "open", "head", "token", "write", "wait", "sum",
               "ok", "err"}
  /\ phase \in {0, 1}
  /\ cur \in File \cup {Done}
  /\ base \in Content \cup {NoFile}
  /\ hash \in Content

PutTypes ==
  /\ put \in {"none", "start", "reading", "returned"}
  /\ acc \in Content /\ pipe \in Content /\ eof \in BOOLEAN

PeerTypes ==
  /\ peer \in {"idx", "ack", "final", "stats", "echo", "head", "sums", "answer",
               "rhead", "tokens", "rsum", "bye", "gone", "stopped"}
  /\ peerPhase \in {0, 1} /\ peerCur \in File \cup {Done}
  /\ peerNeed \in Nat /\ peerSums \in Content /\ peerPos \in Nat \ {0}

StoreTypes ==
  /\ local \in [File -> Content \cup {NoFile}]
  /\ stored \in [File -> Content \cup {NoFile}]
  /\ edited \subseteq File /\ requested \subseteq File
  /\ vanished \subseteq File /\ putErr \subseteq File

TypeOK ==
  /\ MainTypes /\ GenTypes /\ RecvTypes /\ PutTypes /\ PeerTypes /\ StoreTypes
  /\ out \in Seq(Msg) /\ in \in Seq(Msg)

(* Each reader finds in the connection the message it decodes next: index, *)
(* head, tokens and file sum on our side, index, head and block sums on    *)
(* the sender's, whatever was skipped, vanished or failed in between.      *)
InSync ==
  LET Finds(q, type) == q # <<>> => Head(q).t \in type IN
    /\ recv = "idx"      => Finds(in, {"idx"})
    /\ recv = "head"     => Finds(in, {"head"})
    /\ recv = "token"    => Finds(in, {"data", "ref", "end"})
    /\ recv = "sum"      => Finds(in, {"filesum"})
    /\ main = "report"   => Finds(in, {"stats"})
    /\ peer \in {"idx", "bye"} => Finds(out, {"idx", "error"})
    /\ peer = "head"     => Finds(out, {"head", "error"})
    /\ peer = "sums"     => Finds(out, {"sum", "error"})

(* When Do reports success nothing of the transfer is still going on: both *)
(* goroutines are done, no Put is pending, all that the sender wrote was   *)
(* read, and of what was written to it at most the goodbye is on its way.  *)
SuccessIsQuiet ==
  main = "ok" => /\ gen = "ok" /\ recv = "ok" /\ put \in {"none", "returned"}
                 /\ in = <<>> /\ out \in {<<>>, <<Idx(Done)>>}

(* What Put stores is the file of the entry, and only once the end token   *)
(* has been read: all that was hashed, nothing less.  A transfer that      *)
(* breaks off leaves no truncated file behind.                             *)
NoPartialCommit ==
  [][stored' # stored =>
       recv = "wait" /\ stored' = [stored EXCEPT ![cur] = hash]]_vars

(* recvFile1 moves on to the next index only when the file whose checksum  *)
(* it has accepted is the one in the store, unless its Put failed: the     *)
(* receiver ignores what Put returns.                                      *)
VerifiedIsStored ==
  [][recv = "sum" /\ recv' = "idx" =>
       stored[cur] = Head(in).v \/ cur \in putErr]_vars

(* If nothing can move before Do has returned, then RecvFiles has failed   *)
(* and nobody reads what the sender writes: the one way to hang.           *)
OnlyAnAbandonedReadHangs ==
  ~ENABLED Moves =>
    \/ main \in {"ok", "failed"}
    \/ recv = "err" /\ Len(in) = InCap /\ Len(out) = OutCap

Ended == main \in {"ok", "failed"}

(* As long as the connection to the sender does not stay full, Do returns. *)
DoReturns == []<>(Len(out) < OutCap) => <>Ended

(* Whatever the connection holds, Do returns once the sender has gone.     *)
EndsOnceSenderGone == PeerGone ~> Ended

(* Do delivers: it implements the promise of module Delivery.  An entry is *)
(* excused when the sender skipped it or its Put returned an error.        *)
Promise == INSTANCE Delivery WITH
  Entry <- File, Contents <- Content, Nothing <- NoFile, Wanted <- Source,
  listing <- opts.DryRun,
  result <- CASE main = "ok" -> "ok"
              [] main \in {"senderr", "failed"} -> "failed"
              [] OTHER -> "running",
  requested <- requested,
  excused <- vanished \cup putErr,
  stored <- stored

Delivers == Promise!Delivery

=============================================================================
