------------------------------- MODULE Sender -------------------------------
(***************************************************************************)
(* The sending side of one transfer once the file list is sent: SendFiles, *)
(* receiveSums and sendFile of rsyncsender/sender.go, hashSearch as far as *)
(* it gets on "/", the end of Do and the deferred error message of         *)
(* ClientRun.  One goroutine reads requests, answers each before it reads  *)
(* the next, and skips what it cannot open.                                *)
(*                                                                         *)
(* The client that asks and the file system (utils.FS) are external.  One  *)
(* message stands for one Conn write group, a block for one Read of the    *)
(* file, and the md4 for the content it hashes.                            *)
(***************************************************************************)
EXTENDS Integers, Sequences, SequencesExt

CONSTANTS
  NFiles,     (* entries of the sorted file list                           *)
  Chunk,      (* contents of one block                                     *)
  Zero,       (* the content of a block of zero bytes                      *)
  NoFile,     (* "no such file"                                            *)
  Stores,     (* possible file systems: [File -> Content or NoFile]        *)
  Edits,      (* what another program may write over a file                *)
  MaxRequests,(* bound: files the client asks for in one session           *)
  InCap,      (* capacity of the connection from the client                *)
  DryRuns,    (* the values of opts.DryRun                                 *)
  RootSizes,  (* the lengths, in blocks, that Stat may tell of "/"         *)
  RootWindow, (* how much of it the search's window holds at least         *)
  Faults      (* which external failures may happen, see Fault             *)

File    == 0 .. NFiles - 1
Content == Seq(Chunk)
Done    == -1

(* "open": Files.Read fails with a PathError   "other": a call of the file *)
(* system fails with another error   "read": a read of an open file fails  *)
(* with a PathError   "root": "/" cannot be opened   "edit": another       *)
(* program replaces a file   "crash": the client goes away.                *)
Fault == {"open", "other", "read", "root", "edit", "crash"}

ASSUME SenderAssumption ==
  /\ NFiles \in Nat
  /\ NoFile \notin Content /\ Zero \in Chunk
  /\ Stores \subseteq [File -> Content \cup {NoFile}]
  /\ Edits \subseteq Content \cup {NoFile}
  /\ MaxRequests \in Nat /\ InCap \in Nat \ {0}
  /\ DryRuns \subseteq BOOLEAN
  /\ RootSizes \subseteq Nat /\ RootWindow \in Nat
  /\ Faults \subseteq Fault

VARIABLES
  dryRun,
  pc,         (* where SendFiles, sendFile, Do and ClientRun are           *)
  phase,      (* of SendFiles                                              *)
  fileIndex,
  need,       (* block sums that receiveSums still has to read             *)
  sums,       (* len(head.Sums)                                            *)
  zeros,      (* which of them are those of zero bytes                     *)
  snap, pos,  (* the content opened, and the next block to read            *)
  h,          (* written to the md4 state                                  *)
  in,         (* the connection from the client                            *)
  written,    (* all that was written to it                                *)
  client, clientAsks,    (* external: where it is, what it has asked for   *)
  files, edited,         (* external: the file system                      *)
  requests, skipped, torn, (* history: indices read; which of them were    *)
                         (* passed over with "continue", and which of these*)
                         (* when their answer had begun                    *)
  searched               (* history: where in written an answer begins that*)
                         (* hashSearch gives                               *)

sendVars   == <<phase, fileIndex, need, sums, zeros, snap, pos, h>>
clientVars == <<client, clientAsks>>
fileVars   == <<files, edited>>
histVars   == <<requests, skipped, torn, searched>>
vars == <<dryRun, pc, sendVars, in, written, clientVars, fileVars, histVars>>

-----------------------------------------------------------------------------
Idx(i)     == [t |-> "idx", v |-> i]
SumHead(n) == [t |-> "head", v |-> n]
BlockSum(z) == [t |-> "sum", v |-> z]
Data(c)    == [t |-> "data", v |-> c]
Ref(i)     == [t |-> "ref", v |-> i]
EndToken   == [t |-> "end", v |-> 0]
FileSum(c) == [t |-> "filesum", v |-> c]
Stats      == [t |-> "stats", v |-> 0]
ErrorMsg   == [t |-> "error", v |-> 0]

ReadOK(type) == in # <<>> /\ Head(in).t = type /\ in' = Tail(in)
ReadErr      == in = <<>> /\ client = "gone" /\ UNCHANGED in

(* A write fails, sooner or later, once the client is gone.                *)
WriteOK(m) == written' = Append(written, m)
WriteErr   == client = "gone" /\ UNCHANGED written

(* Every error but a PathError leaves SendFiles, Do and ClientRun.         *)
Writes(at, m, next) ==
  /\ pc = at
  /\ \/ WriteOK(m) /\ pc' = next
     \/ WriteErr /\ pc' = "senderr"

-----------------------------------------------------------------------------
(* SendFiles.                                                              *)

(* Variant: the phase is counted before it is looked at.                   *)
ReadIndexCounts ==
  /\ pc = "idx" /\ ReadOK("idx")
  /\ LET i == Head(in).v IN
       /\ fileIndex' = i
       /\ pc' = CASE i = Done /\ phase = 0 -> "ack"
                  [] i = Done /\ phase = 1 -> "final"
                  [] i # Done /\ dryRun    -> "echo"
                  [] OTHER                 -> "head"
       /\ phase' = IF i = Done THEN phase + 1 ELSE phase
       /\ requests' = Append(requests, i)
  /\ UNCHANGED <<dryRun, need, sums, zeros, snap, pos, h, written, clientVars, fileVars,
                 skipped, torn, searched>>

ReadIndex ==
  /\ pc = "idx" /\ ReadOK("idx")
  /\ LET i == Head(in).v IN
       /\ fileIndex' = i
       /\ pc' = CASE i = Done /\ phase = 0 -> "ack"
                  [] i = Done /\ phase = 1 -> "final"
                  [] i # Done /\ dryRun    -> "echo"
                  [] OTHER                 -> "head"
       /\ phase' = IF i = Done THEN 1 ELSE phase
       /\ requests' = Append(requests, i)
  /\ UNCHANGED <<dryRun, need, sums, zeros, snap, pos, h, written, clientVars, fileVars,
                 skipped, torn, searched>>

(* Variant: the end of the first phase is not acknowledged.                *)
AcknowledgeNever ==
  /\ pc = "ack" /\ pc' = "idx"
  /\ UNCHANGED <<dryRun, sendVars, in, written, clientVars, fileVars, histVars>>

Acknowledge ==
  /\ Writes("ack", Idx(Done), "idx")
  /\ UNCHANGED <<dryRun, sendVars, in, clientVars, fileVars, histVars>>

EchoIndex ==
  /\ Writes("echo", Idx(fileIndex), "idx")
  /\ UNCHANGED <<dryRun, sendVars, in, clientVars, fileVars, histVars>>

(* receiveSums, to its end before anything is opened.                      *)
ReadHead ==
  /\ pc = "head" /\ ReadOK("head")
  /\ sums' = Head(in).v /\ need' = Head(in).v /\ zeros' = {}
  /\ pc' = IF Head(in).v = 0 THEN "open" ELSE "sums"
  /\ UNCHANGED <<dryRun, phase, fileIndex, snap, pos, h, written, clientVars, fileVars,
                 histVars>>

(* A sum tells whether the client's block may be one of zero bytes.        *)
Zeros == IF Head(in).v THEN zeros \cup {sums - need} ELSE zeros

(* Variant: the sums of the last block are left in the connection.         *)
ReadSumButLast ==
  /\ pc = "sums" /\ ReadOK("sum")
  /\ need' = need - 1 /\ zeros' = Zeros
  /\ pc' = IF need <= 2 THEN "open" ELSE "sums"
  /\ UNCHANGED <<dryRun, phase, fileIndex, sums, snap, pos, h, written, clientVars,
                 fileVars, histVars>>

ReadSum ==
  /\ pc = "sums" /\ ReadOK("sum")
  /\ need' = need - 1 /\ zeros' = Zeros
  /\ pc' = IF need = 1 THEN "open" ELSE "sums"
  /\ UNCHANGED <<dryRun, phase, fileIndex, sums, snap, pos, h, written, clientVars,
                 fileVars, histVars>>

(* Variant: a failed read is tried again.                                  *)
ReadFailsRetries ==
  /\ pc \in {"idx", "head", "sums", "bye"} /\ ReadErr
  /\ UNCHANGED vars

ReadFails ==
  /\ pc \in {"idx", "head", "sums", "bye"} /\ ReadErr
  /\ pc' = "senderr"
  /\ UNCHANGED <<dryRun, sendVars, written, clientVars, fileVars, histVars>>

(* A PathError, from wherever it comes, is taken for a failed open.        *)
Continue ==
  /\ pc' = "idx"
  /\ skipped' = skipped \cup {Len(requests)}
  /\ torn' = IF pc = "data" THEN torn \cup {Len(requests)} ELSE torn

-----------------------------------------------------------------------------
(* sendFile, without block sums.                                           *)
Open ==
  /\ pc = "open" /\ sums = 0
  /\ \/ /\ files[fileIndex] # NoFile
        /\ snap' = files[fileIndex]
        /\ pc' = "reply" /\ UNCHANGED <<skipped, torn>>
     \/ /\ files[fileIndex] = NoFile \/ "open" \in Faults
        /\ Continue /\ UNCHANGED snap
     \/ /\ "other" \in Faults
        /\ pc' = "senderr" /\ UNCHANGED <<snap, skipped, torn>>
  /\ UNCHANGED <<dryRun, phase, fileIndex, need, sums, zeros, pos, h, in, written, clientVars,
                 fileVars, requests, searched>>

(* hashSearch, with block sums.  SendFileList has set the Path of every    *)
(* entry to "/": a directory opens and has a length, but its reads fail.   *)
(* Of that length, the window shows the zero bytes it was made of.         *)
OpenRoot ==
  /\ pc = "open" /\ sums > 0
  /\ \/ /\ \E n \in RootSizes : snap' = [i \in 1 .. n |-> Zero]
        /\ pc' = "reply" /\ UNCHANGED <<skipped, torn>>
     \/ "root" \in Faults /\ Continue /\ UNCHANGED snap
  /\ UNCHANGED <<dryRun, phase, fileIndex, need, sums, zeros, pos, h, in, written, clientVars,
                 fileVars, requests, searched>>

(* Both begin an answer alike, hashSearch with the head it was given.      *)
Reply ==
  /\ Writes("reply", Idx(fileIndex), "rhead")
  /\ searched' = IF sums > 0 /\ pc' = "rhead" THEN searched \cup {Len(written')} ELSE searched
  /\ UNCHANGED <<dryRun, sendVars, in, clientVars, fileVars, requests, skipped, torn>>

ReplyHead ==
  /\ Writes("rhead", SumHead(IF sums > 0 THEN sums ELSE Len(snap)), "data")
  /\ pos' = 1 /\ h' = <<>>
  /\ UNCHANGED <<dryRun, phase, fileIndex, need, sums, zeros, snap, in, clientVars, fileVars,
                 histVars>>

(* What the open handle reads now: the file may be overwritten in place.   *)
Readable ==
  {snap} \cup (IF sums > 0 \/ files[fileIndex] = NoFile THEN {} ELSE {files[fileIndex]})

SendBlock ==
  /\ pc = "data" /\ sums = 0
  /\ \E c \in Readable :
       /\ pos <= Len(c)
       /\ h' = Append(h, c[pos])
       /\ Writes("data", Data(c[pos]), "data")
  /\ pos' = pos + 1
  /\ UNCHANGED <<dryRun, phase, fileIndex, need, sums, zeros, snap, in, clientVars, fileVars,
                 histVars>>

(* Variant: what a reference stands for is left out of the md4.            *)
SearchRootUnhashed ==
  /\ pc = "data" /\ sums > 0 /\ pos <= Len(snap)
  /\ \/ Writes("data", Data(Zero), "data") /\ h' = Append(h, Zero)
     \/ \E i \in zeros : Writes("data", Ref(i), "data") /\ h' = h
  /\ pos' = pos + 1
  /\ UNCHANGED <<dryRun, phase, fileIndex, need, sums, zeros, snap, in, clientVars, fileVars,
                 histVars>>

(* The search sends zero bytes, or a reference to a block that is made of  *)
(* them, and hashes them (HashSearch has the search itself).               *)
SearchRoot ==
  /\ pc = "data" /\ sums > 0 /\ pos <= Len(snap)
  /\ \/ Writes("data", Data(Zero), "data")
     \/ \E i \in zeros : Writes("data", Ref(i), "data")
  /\ h' = Append(h, Zero) /\ pos' = pos + 1
  /\ UNCHANGED <<dryRun, phase, fileIndex, need, sums, zeros, snap, in, clientVars, fileVars,
                 histVars>>

(* The rolling update indexes an empty slice: there is nothing at all, or  *)
(* it asks for what is behind the window and the read fails again.  Unless *)
(* a match has moved the window there, the latter happens before a literal *)
(* is sent; both are left open.                                            *)
SearchPanics ==
  /\ pc = "data" /\ sums > 0
  /\ snap = <<>> \/ Len(snap) > RootWindow
  /\ pc' = "panic"
  /\ UNCHANGED <<dryRun, sendVars, in, written, clientVars, fileVars, histVars>>

(* Variant: a file without data has no end token either.                   *)
SendEndUnlessEmpty ==
  /\ pc = "data" /\ (sums > 0 => snap # <<>>)
  /\ \E c \in Readable : pos > Len(c)
  /\ IF h = <<>> THEN pc' = "filesum" /\ UNCHANGED written
     ELSE Writes("data", EndToken, "filesum")
  /\ UNCHANGED <<dryRun, sendVars, in, clientVars, fileVars, histVars>>

(* Both end it alike.                                                      *)
SendEnd ==
  /\ pc = "data" /\ (sums > 0 => snap # <<>>)
  /\ \E c \in Readable : pos > Len(c)
  /\ Writes("data", EndToken, "filesum")
  /\ UNCHANGED <<dryRun, sendVars, in, clientVars, fileVars, histVars>>

(* hashSearch drops the errors of its reads.                               *)
ReadBlockFails ==
  /\ pc = "data" /\ sums = 0
  /\ \/ "read" \in Faults /\ Continue
     \/ "other" \in Faults /\ pc' = "senderr" /\ UNCHANGED <<skipped, torn>>
  /\ UNCHANGED <<dryRun, sendVars, in, written, clientVars, fileVars, requests, searched>>

SendSum ==
  /\ Writes("filesum", FileSum(h), "idx")
  /\ UNCHANGED <<dryRun, sendVars, in, clientVars, fileVars, histVars>>

-----------------------------------------------------------------------------
(* The end of SendFiles, and of Do.                                        *)
Finish ==
  /\ \/ Writes("final", Idx(Done), "stats")
     \/ Writes("stats", Stats, "bye")
  /\ UNCHANGED <<dryRun, sendVars, in, clientVars, fileVars, histVars>>

ReadBye ==
  /\ pc = "bye" /\ ReadOK("idx")
  /\ pc' = IF Head(in).v = Done THEN "ok" ELSE "senderr"
  /\ UNCHANGED <<dryRun, sendVars, written, clientVars, fileVars, histVars>>

(* The deferred function of ClientRun; its own failure is ignored.         *)
SendError ==
  /\ pc = "senderr"
  /\ WriteOK(ErrorMsg) \/ WriteErr
  /\ pc' = "failed"
  /\ UNCHANGED <<dryRun, sendVars, in, clientVars, fileVars, histVars>>

Do ==
  \/ ReadIndex \/ Acknowledge \/ EchoIndex \/ ReadHead \/ ReadSum \/ ReadFails
  \/ Open \/ OpenRoot \/ Reply \/ ReplyHead \/ SendBlock \/ SearchRoot \/ SearchPanics
  \/ SendEnd \/ ReadBlockFails \/ SendSum \/ Finish \/ ReadBye \/ SendError

-----------------------------------------------------------------------------
(* External: the client asks for files in two phases, in the second again  *)
(* for some it could not use, and says goodbye once it has the statistics. *)
ClientWrite(m) == Len(in) < InCap /\ in' = Append(in, m)

ClientAsk ==
  /\ client \in {"phase0", "phase1"} /\ clientAsks.n < MaxRequests /\ clientAsks.sums = -1
  /\ \E i \in File, n \in {0, 2} :
       /\ ClientWrite(Idx(i))
       /\ clientAsks' = [n |-> clientAsks.n + 1, sums |-> IF dryRun THEN -1 ELSE n]
  /\ UNCHANGED <<dryRun, pc, sendVars, written, client, fileVars, histVars>>

(* The head and the sums that follow the index, as one write.  Any of the  *)
(* blocks it has may be made of zero bytes.                                *)
ClientSums ==
  /\ client \in {"phase0", "phase1"} /\ clientAsks.sums >= 0
  /\ \E zero \in [1 .. clientAsks.sums -> BOOLEAN] :
       in' = in \o <<SumHead(clientAsks.sums)>>
                \o [j \in 1 .. clientAsks.sums |-> BlockSum(zero[j])]
  /\ clientAsks' = [clientAsks EXCEPT !.sums = -1]
  /\ UNCHANGED <<dryRun, pc, sendVars, written, client, fileVars, histVars>>

ClientDone ==
  /\ \/ client = "phase0" /\ client' = "phase1"
     \/ client = "phase1" /\ client' = "stats"
     \/ /\ client = "stats" /\ client' = "end"
        /\ written # <<>> /\ Last(written) = Stats
  /\ clientAsks.sums = -1
  /\ ClientWrite(Idx(Done))
  /\ UNCHANGED <<dryRun, pc, sendVars, written, clientAsks, fileVars, histVars>>

(* It goes away when it reads an error message, when the sender is gone,   *)
(* or at any time for a reason of its own.                                 *)
ClientLeaves ==
  /\ client # "gone"
  /\ pc \in {"failed", "panic"} \/ "crash" \in Faults
  /\ client' = "gone"
  /\ UNCHANGED <<dryRun, pc, sendVars, in, written, clientAsks, fileVars, histVars>>

(* External: another program replaces a file.  Bound: once.                *)
Edit ==
  /\ "edit" \in Faults /\ ~edited
  /\ \E f \in File, c \in Edits : files' = [files EXCEPT ![f] = c]
  /\ edited' = TRUE
  /\ UNCHANGED <<dryRun, pc, sendVars, in, written, clientVars, histVars>>

-----------------------------------------------------------------------------
Init ==
  /\ dryRun \in DryRuns
  /\ pc = "idx" /\ phase = 0 /\ fileIndex = Done /\ need = 0 /\ sums = 0 /\ zeros = {}
  /\ snap = <<>> /\ pos = 1 /\ h = <<>>
  /\ in = <<>> /\ written = <<>>
  /\ client = "phase0" /\ clientAsks = [n |-> 0, sums |-> -1]
  /\ files \in Stores /\ edited = FALSE
  /\ requests = <<>> /\ skipped = {} /\ torn = {} /\ searched = {}

Client == ClientAsk \/ ClientSums \/ ClientDone

Next == Do \/ Client \/ ClientLeaves \/ Edit

Spec == Init /\ [][Next]_vars

(* The sender's goroutine runs, the client works on or goes away, and what *)
(* it keeps doing is to finish, not to ask for more.                       *)
FairSpec == Spec /\ WF_vars(Do) /\ WF_vars(ClientSums \/ ClientDone)

-----------------------------------------------------------------------------
Ended == pc \in {"ok", "failed", "panic"}

(* The range of every variable but the histories of what is written.       *)
TypeOK ==
  /\ pc \in {"idx", "ack", "echo", "head", "sums", "open", "reply", "rhead", "data",
             "filesum", "panic", "final", "stats", "bye", "senderr", "ok", "failed"}
  /\ phase \in {0, 1} /\ fileIndex \in File \cup {Done}
  /\ need \in 0 .. sums /\ sums \in Nat /\ zeros \subseteq 0 .. sums - 1
  /\ pc \in {"reply", "rhead", "data", "filesum"} => fileIndex # Done
  /\ snap \in Content /\ pos \in 1 .. Len(h) + 2 /\ h \in Content
  /\ client \in {"phase0", "phase1", "stats", "end", "gone"}
  /\ files \in [File -> Content \cup {NoFile}]
  /\ torn \subseteq skipped /\ skipped \subseteq 1 .. Len(requests)

(* Each read of the sender finds what it decodes next.                     *)
RequestsDecode ==
  in # <<>> =>
    /\ pc \in {"idx", "bye"} => Head(in).t = "idx"
    /\ pc = "head" => Head(in).t = "head"
    /\ pc = "sums" => Head(in).t = "sum"

(* How RecvFiles on the other side decodes the stream, in a dry run or not:*)
(* from state s it goes on with message m, and is "lost" when it meets one *)
(* it does not expect.                                                     *)
Decode(dry, s, m) ==
  CASE m.t = "error" -> "error"
    [] s = "idx" /\ m.t = "idx" ->
         IF m.v = Done THEN "idx1" ELSE IF dry THEN "idx" ELSE "head"
    [] s = "idx1" /\ m.t = "idx" ->
         IF m.v = Done THEN "stats" ELSE IF dry THEN "idx1" ELSE "head1"
    [] s = "head" /\ m.t = "head"    -> "token"
    [] s = "head1" /\ m.t = "head"   -> "token1"
    [] s = "token" /\ m.t \in {"data", "ref"}  -> "token"
    [] s = "token1" /\ m.t \in {"data", "ref"} -> "token1"
    [] s = "token" /\ m.t = "end"    -> "sum"
    [] s = "token1" /\ m.t = "end"   -> "sum1"
    [] s = "sum" /\ m.t = "filesum"  -> "idx"
    [] s = "sum1" /\ m.t = "filesum" -> "idx1"
    [] s = "stats" /\ m.t = "stats"  -> "bye"
    [] OTHER -> "lost"

(* The state after the messages w.                                         *)
Decoded(dry, w) ==
  LET d[n \in 0 .. Len(w)] == IF n = 0 THEN "idx" ELSE Decode(dry, d[n - 1], w[n])
  IN  d[Len(w)]

(* Until an answer breaks off in the middle of a file, the receiving side  *)
(* can decode all that is written, through both phases, whatever vanishes  *)
(* or fails to open; and between two answers it expects an index again.    *)
RepliesDecode ==
  torn = {} =>
    LET state == Decoded(dryRun, written)
    IN  /\ state # "lost"
        /\ pc = "idx" => state = (IF phase = 0 THEN "idx" ELSE "idx1")
        /\ pc = "ok" => state = "bye"

(* The indices among the messages w.                                       *)
Indices(w) ==
  LET seen[n \in 0 .. Len(w)] ==
        IF n = 0 THEN <<>>
        ELSE IF w[n].t = "idx" THEN Append(seen[n - 1], w[n].v) ELSE seen[n - 1]
  IN  seen[Len(w)]

(* The first n of the indices r, without those whose number is in out.     *)
Kept(r, out, n) ==
  LET kept[i \in 0 .. n] ==
        IF i = 0 THEN <<>> ELSE IF i \in out THEN kept[i - 1] ELSE Append(kept[i - 1], r[i])
  IN  kept[n]

(* The indices come back in the order in which they were asked for, the    *)
(* ends of the phases among them, each once; those left out are the ones   *)
(* that could not be opened and at most the last, still unanswered.        *)
AnswersInOrder ==
  LET n == Len(requests)
  IN  \/ Indices(written) = Kept(requests, skipped \ torn, n)
      \/ /\ n > 0 /\ pc # "idx"
         /\ Indices(written) = Kept(requests, skipped \ torn, n - 1)

(* The ends of the answers.                                                *)
FileSums == {j \in 1 .. Len(written) : written[j].t = "filesum"}

(* Where the answer begins to which message j belongs, and the data in it, *)
(* up to the end token before j.  A reference stands for zero bytes.       *)
Start(j) ==
  CHOOSE i \in 1 .. j :
    written[i].t = "idx" /\ \A k \in i + 1 .. j : written[k].t # "idx"

Shows(m) == IF m.t = "ref" THEN Zero ELSE m.v

Answered(j) == [i \in 1 .. j - Start(j) - 3 |-> Shows(written[Start(j) + 1 + i])]

(* The sum that ends an answer is that of the data of this answer, with or *)
(* without references.  Without another program's edits they are the file  *)
(* when it was sent without block sums, and nothing but zero bytes when it *)
(* was searched.                                                           *)
SumsCoverTheAnswer ==
  \A j \in FileSums :
    /\ written[j].v = Answered(j)
    /\ IF Start(j) \in searched THEN \A i \in DOMAIN Answered(j) : Answered(j)[i] = Zero
       ELSE ~edited => Answered(j) = files[written[Start(j)].v]

(* "fast path: send the whole file" (sender.go:82): the other path only    *)
(* saves data, the answer stands for the same file.                        *)
SearchSendsTheFile ==
  \A j \in FileSums : ~edited => Answered(j) = files[written[Start(j)].v]

(* "OpenFile() failed. Log the error (server side only) and proceed."      *)
(* (sender.go:89): what is passed over could not be opened, so nothing of  *)
(* its answer was written.                                                 *)
SkippedBeforeOpening == torn = {}

(* SendFiles reads on until the client has ended both phases, or fails     *)
(* once the client has gone: ClientRun returns, or the search has panicked.*)
SessionEnds == <>Ended

=============================================================================
