--------------------------- MODULE ReceiverProofs ---------------------------
(***************************************************************************)
(* Proofs about Receiver, for every file list, content, buffer size, kind  *)
(* of session and combination of failures.                                 *)
(*                                                                         *)
(* The first half is about storing.  Its inductive invariant has three     *)
(* parts: TypeOK; Placed, which says at which control points an index or a *)
(* handle is meaningful; and Streaming, which ties the md4 state, the      *)
(* pipe, what Put has read and the control of the receiver together.       *)
(* NoPartialCommit and VerifiedIsStored follow from it in one step.        *)
(*                                                                         *)
(* The second half is about what passes between the two goroutines of Do   *)
(* and the sender: each reader finds what it decodes (InSync), a success   *)
(* leaves nothing behind (SuccessIsQuiet), and Do implements Delivery.     *)
(***************************************************************************)
EXTENDS Receiver, Induction, SequenceTheorems, TLAPS

(* An entry is being worked on exactly where the code has one in hand.     *)
GenPlaced ==
  /\ gen \in {"head", "sums"} => genIdx \in File
  /\ gen = "sums" => genSnap # NoFile

RecvPlaced ==
  /\ recv \in {"open", "head", "token", "write", "wait", "sum"} => cur \in File
  /\ put # "none" => cur \in File

PeerPlaced ==
  /\ peer \in {"echo", "head", "sums", "answer", "rhead", "tokens", "rsum"}
       => peerCur \in File
  /\ peer = "sums" => peerNeed > 0

Placed == GenPlaced /\ RecvPlaced /\ PeerPlaced

PutActive == put \in {"start", "reading"}

-----------------------------------------------------------------------------
(* Messages.                                                               *)

(* Every constructor makes a message.                                      *)
LEMMA MsgMade ==
  /\ \A i \in File \cup {Done} : Idx(i) \in Msg
  /\ \A n \in Nat : SumHead(n) \in Msg /\ (n > 0 => Ref(n) \in Msg)
  /\ \A c \in Chunk : BlockSum(c) \in Msg /\ Data(c) \in Msg
  /\ \A c \in Content : FileSum(c) \in Msg
  /\ EndToken \in Msg /\ Stats \in Msg /\ ErrorMsg \in Msg
BY DEF Msg, Idx, SumHead, Ref, BlockSum, Data, FileSum, EndToken, Stats, ErrorMsg

(* The tag of a message tells what it carries.                             *)
LEMMA MsgRead ==
  ASSUME NEW m \in Msg
  PROVE  /\ m.t = "idx" => m.v \in File \cup {Done}
         /\ m.t \in {"head", "ref"} => m.v \in Nat
         /\ m.t = "ref" => m.v > 0
         /\ m.t \in {"sum", "data"} => m.v \in Chunk
         /\ m.t = "filesum" => m.v \in Content
BY DEF Msg

(* A queue of messages stays one when it is written and read.              *)
LEMMA Queue ==
  ASSUME NEW q \in Seq(Msg)
  PROVE  /\ \A m \in Msg : Append(q, m) \in Seq(Msg)
         /\ q # <<>> => Head(q) \in Msg /\ Tail(q) \in Seq(Msg)
BY HeadTailProperties, AppendProperties

(* What the operations on contents return.                                 *)
LEMMA Contents ==
  /\ <<>> \in Content
  /\ \A c \in Chunk : <<c>> \in Content
  /\ \A s \in Content, c \in Chunk : Append(s, c) \in Content
  /\ \A s, t \in Content : s \o t \in Content
  /\ \A s \in Content : Len(s) \in Nat /\ \A j \in 1 .. Len(s) : s[j] \in Chunk
BY DEF Content

(* A step that leaves a component alone keeps its types and placement.     *)
LEMMA Frame ==
  /\ MainTypes /\ UNCHANGED <<opts, mainVars>> => MainTypes'
  /\ GenTypes /\ GenPlaced /\ UNCHANGED genVars => GenTypes' /\ GenPlaced'
  /\ RecvTypes /\ RecvPlaced /\ UNCHANGED <<recvVars, put>>
       => RecvTypes' /\ RecvPlaced'
  /\ PutTypes /\ UNCHANGED putVars => PutTypes'
  /\ PeerTypes /\ PeerPlaced /\ UNCHANGED peerVars => PeerTypes' /\ PeerPlaced'
  /\ StoreTypes /\ UNCHANGED <<diskVars, histVars>> => StoreTypes'
BY DEF MainTypes, GenTypes, RecvTypes, PutTypes, PeerTypes, StoreTypes,
       GenPlaced, RecvPlaced, PeerPlaced, mainVars, genVars, recvVars, putVars,
       peerVars, diskVars, histVars

(* Every step keeps the types and the placement.                           *)
LEMMA TypeStep == TypeOK /\ Placed /\ [Next]_vars => TypeOK' /\ Placed'
<1> SUFFICES ASSUME TypeOK, Placed, [Next]_vars PROVE TypeOK' /\ Placed'
  OBVIOUS
<1> USE DEF TypeOK, Placed
<1>1. CASE DoStart
  <2>1. MainTypes'
    BY <1>1, Queue, MsgRead, Contents, ReceiverAssumption
    DEF DoStart, MainTypes, RecvTypes, mainVars
  <2>2. GenTypes' /\ GenPlaced'
    BY <1>1, Queue, MsgRead, Contents, ReceiverAssumption
    DEF DoStart, GenTypes, GenPlaced, StoreTypes, genVars, File
  <2>3. RecvTypes' /\ RecvPlaced'
    BY <1>1, Queue, MsgRead, Contents, ReceiverAssumption
    DEF DoStart, RecvTypes, RecvPlaced, PutTypes, StoreTypes, recvVars, putVars
  <2> QED
    BY <2>1, <2>2, <2>3, <1>1, Frame DEF DoStart, putVars
<1>2. CASE DoWait
  <2>1. MainTypes'
    BY <1>2, Queue, MsgRead, Contents, ReceiverAssumption
    DEF DoWait, MainTypes, RecvTypes, mainVars
  <2> QED
    BY <2>1, <1>2, Frame DEF DoWait, putVars
<1>3. CASE DoReport
  <2>1. MainTypes'
    BY <1>3, Queue, MsgRead, Contents, ReceiverAssumption
    DEF DoReport, ReadOK, ReadErr, MainTypes, RecvTypes, mainVars
  <2>2. in' \in Seq(Msg)
    BY <1>3, Queue, MsgMade, Contents, ReceiverAssumption
    DEF DoReport, ReadOK, ReadErr, PeerTypes, PeerPlaced, GenTypes, GenPlaced
  <2> QED
    BY <2>1, <2>2, <1>3, Frame DEF DoReport, ReadOK, ReadErr, putVars
<1>4. CASE DoGoodbye
  <2>1. MainTypes'
    BY <1>4, Queue, MsgRead, Contents, ReceiverAssumption
    DEF DoGoodbye, WriteOK, WriteErr, MainTypes, RecvTypes, mainVars
  <2>2. out' \in Seq(Msg)
    BY <1>4, Queue, MsgMade, Contents, ReceiverAssumption
    DEF DoGoodbye, WriteOK, WriteErr, PeerTypes, PeerPlaced, GenTypes, GenPlaced
  <2> QED
    BY <2>1, <2>2, <1>4, Frame DEF DoGoodbye, WriteOK, WriteErr, putVars
<1>5. CASE SendError
  <2>1. MainTypes'
    BY <1>5, Queue, MsgRead, Contents, ReceiverAssumption
    DEF SendError, WriteOK, WriteErr, MainTypes, RecvTypes, mainVars
  <2>2. out' \in Seq(Msg)
    BY <1>5, Queue, MsgMade, Contents, ReceiverAssumption
    DEF SendError, WriteOK, WriteErr, PeerTypes, PeerPlaced, GenTypes, GenPlaced
  <2> QED
    BY <2>1, <2>2, <1>5, Frame DEF SendError, WriteOK, WriteErr, putVars
<1>6. CASE SelectCtx
  <2>1. MainTypes'
    BY <1>6, Queue, MsgRead, Contents, ReceiverAssumption
    DEF SelectCtx, MainTypes, RecvTypes, mainVars
  <2> QED
    BY <2>1, <1>6, Frame DEF SelectCtx, putVars
<1>7. CASE SelectRecv
  <2>1. MainTypes'
    BY <1>7, Queue, MsgRead, Contents, ReceiverAssumption
    DEF SelectRecv, MainTypes, RecvTypes, mainVars
  <2> QED
    BY <2>1, <1>7, Frame DEF SelectRecv, putVars
<1>8. CASE CloseConn
  <2>1. MainTypes'
    BY <1>8, Queue, MsgRead, Contents, ReceiverAssumption
    DEF CloseConn, MainTypes, RecvTypes, mainVars
  <2> QED
    BY <2>1, <1>8, Frame DEF CloseConn, putVars
<1>9. CASE GenSkip
  <2>1. GenTypes' /\ GenPlaced'
    BY <1>9, Queue, MsgRead, Contents, ReceiverAssumption
    DEF GenSkip, GenTypes, GenPlaced, StoreTypes, genVars, File
  <2> QED
    BY <2>1, <1>9, Frame DEF GenSkip, putVars
<1>10. CASE GenRequest
  <2>1. PICK snap \in {local[genIdx], NoFile} :
          /\ GenOpen(snap)
          /\ \/ /\ WriteOK(Idx(genIdx))
                /\ requested' = requested \cup {genIdx}
                /\ IF opts.DryRun
                     THEN genIdx' = genIdx + 1 /\ UNCHANGED <<gen, genSnap>>
                     ELSE gen' = "head" /\ genSnap' = snap /\ UNCHANGED genIdx
             \/ WriteErr /\ gen' = "err" /\ UNCHANGED <<genIdx, genSnap, requested>>
    BY <1>10 DEF GenRequest
  <2>2. genIdx \in File /\ genIdx + 1 \in 0 .. NFiles
    BY <1>10, ReceiverAssumption DEF GenRequest, GenTypes, File
  <2>3. snap \in Content \cup {NoFile}
    BY <2>1, <2>2 DEF StoreTypes
  <2>4. GenTypes'
    BY <1>10, <2>1, <2>2, <2>3 DEF GenRequest, GenTypes
  <2>5. GenPlaced'
    BY <1>10, <2>1, <2>2 DEF GenRequest, GenPlaced
  <2>6. out' \in Seq(Msg)
    BY <2>1, <2>2, Queue, MsgMade DEF WriteOK, WriteErr
  <2>7. StoreTypes'
    BY <1>10, <2>1, <2>2 DEF GenRequest, StoreTypes, diskVars
  <2> QED
    BY <1>10, <2>4, <2>5, <2>6, <2>7, Frame DEF GenRequest, putVars
<1>11. CASE GenHead
  <2>1. GenTypes' /\ GenPlaced'
    BY <1>11, Queue, MsgRead, Contents, ReceiverAssumption
    DEF GenHead, Blocks, WriteOK, WriteErr, GenTypes, GenPlaced, StoreTypes, genVars, File
  <2>2. out' \in Seq(Msg)
    BY <1>11, Queue, MsgMade, Contents, ReceiverAssumption
    DEF GenHead, Blocks, WriteOK, WriteErr, PeerTypes, PeerPlaced, GenTypes, GenPlaced
  <2> QED
    BY <2>1, <2>2, <1>11, Frame DEF GenHead, Blocks, WriteOK, WriteErr, putVars
<1>12. CASE GenSum
  <2>1. genIdx \in File /\ genIdx + 1 \in 0 .. NFiles
    BY <1>12, ReceiverAssumption DEF GenSum, GenPlaced, File
  <2>2. View(genSnap, genIdx) \in Content
    BY <1>12, <2>1 DEF GenSum, View, GenTypes, GenPlaced, StoreTypes
  <2>3. View(genSnap, genIdx)[genSum] \in Chunk
    BY <1>12, <2>2, Contents DEF GenSum, GenTypes
  <2>4. GenTypes' /\ GenPlaced'
    BY <1>12, <2>1 DEF GenSum, GenTypes, GenPlaced
  <2>5. out' \in Seq(Msg)
    BY <1>12, <2>3, Queue, MsgMade DEF GenSum, WriteOK, WriteErr
  <2> QED
    BY <1>12, <2>4, <2>5, Frame DEF GenSum, putVars
<1>13. CASE GenReadFails
  <2>1. GenTypes' /\ GenPlaced'
    BY <1>13, Queue, MsgRead, Contents, ReceiverAssumption
    DEF GenReadFails, GenTypes, GenPlaced, StoreTypes, genVars, File
  <2> QED
    BY <2>1, <1>13, Frame DEF GenReadFails, putVars
<1>14. CASE GenPhase
  <2>1. GenTypes' /\ GenPlaced'
    BY <1>14, Queue, MsgRead, Contents, ReceiverAssumption
    DEF GenPhase, WriteOK, WriteErr, GenTypes, GenPlaced, StoreTypes, genVars, File
  <2>2. out' \in Seq(Msg)
    BY <1>14, Queue, MsgMade, Contents, ReceiverAssumption
    DEF GenPhase, WriteOK, WriteErr, PeerTypes, PeerPlaced, GenTypes, GenPlaced
  <2> QED
    BY <2>1, <2>2, <1>14, Frame DEF GenPhase, WriteOK, WriteErr, putVars
<1>15. CASE RecvIdx
  <2>1. RecvTypes' /\ RecvPlaced'
    BY <1>15, Queue, MsgRead, Contents, ReceiverAssumption
    DEF RecvIdx, ReadOK, RecvTypes, RecvPlaced, PutTypes, StoreTypes, recvVars, putVars
  <2>2. in' \in Seq(Msg)
    BY <1>15, Queue, MsgMade, Contents, ReceiverAssumption
    DEF RecvIdx, ReadOK, PeerTypes, PeerPlaced, GenTypes, GenPlaced
  <2> QED
    BY <2>1, <2>2, <1>15, Frame DEF RecvIdx, ReadOK, putVars
<1>16. CASE RecvOpen
  <2>1. RecvTypes' /\ RecvPlaced'
    BY <1>16, Queue, MsgRead, Contents, ReceiverAssumption
    DEF RecvOpen, RecvTypes, RecvPlaced, PutTypes, StoreTypes, recvVars, putVars
  <2> QED
    BY <2>1, <1>16, Frame DEF RecvOpen, putVars
<1>17. CASE RecvHead
  <2>1. RecvTypes' /\ RecvPlaced'
    BY <1>17, Queue, MsgRead, Contents, ReceiverAssumption
    DEF RecvHead, ReadOK, RecvTypes, RecvPlaced, PutTypes, StoreTypes, recvVars, putVars
  <2>2. PutTypes'
    BY <1>17, Queue, MsgRead, Contents, ReceiverAssumption
    DEF RecvHead, ReadOK, PutTypes, RecvTypes, RecvPlaced, StoreTypes, putVars
  <2>3. in' \in Seq(Msg)
    BY <1>17, Queue, MsgMade, Contents, ReceiverAssumption
    DEF RecvHead, ReadOK, PeerTypes, PeerPlaced, GenTypes, GenPlaced
  <2> QED
    BY <2>1, <2>2, <2>3, <1>17, Frame DEF RecvHead, ReadOK, putVars
<1>18. CASE RecvData
  <2>1. RecvTypes' /\ RecvPlaced'
    BY <1>18, Queue, MsgRead, Contents, ReceiverAssumption
    DEF RecvData, Feed, ReadOK, RecvTypes, RecvPlaced, PutTypes, StoreTypes, recvVars, putVars
  <2>2. PutTypes'
    BY <1>18, Queue, MsgRead, Contents, ReceiverAssumption
    DEF RecvData, Feed, ReadOK, PutTypes, RecvTypes, RecvPlaced, StoreTypes, putVars
  <2>3. in' \in Seq(Msg)
    BY <1>18, Queue, MsgMade, Contents, ReceiverAssumption
    DEF RecvData, Feed, ReadOK, PeerTypes, PeerPlaced, GenTypes, GenPlaced
  <2> QED
    BY <2>1, <2>2, <2>3, <1>18, Frame DEF RecvData, Feed, ReadOK, putVars
<1>19. CASE RecvRef
  <2>1. Head(in).v \in Nat /\ in' \in Seq(Msg)
    BY <1>19, Queue, MsgRead DEF RecvRef, ReadOK
  <2>2. cur \in File /\ UNCHANGED <<phase, cur, base, put, acc, eof>>
    BY <1>19 DEF RecvRef, RecvPlaced
  <2>3. ASSUME Readable(Head(in).v), Feed(View(base, cur)[Head(in).v])
        PROVE  RecvTypes' /\ RecvPlaced' /\ PutTypes'
    <3>1. View(base, cur) \in Content
      BY <2>2, <2>3 DEF Readable, View, RecvTypes, StoreTypes
    <3>2. Head(in).v > 0
      BY <1>19, Queue, MsgRead DEF RecvRef, ReadOK
    <3>3. View(base, cur)[Head(in).v] \in Chunk
      BY <2>1, <2>3, <3>1, <3>2, Contents DEF Readable
    <3>4. hash' \in Content /\ pipe' \in Content
      BY <2>3, <3>3, Contents DEF Feed, RecvTypes
    <3> QED
      BY <2>2, <2>3, <3>4 DEF Feed, RecvTypes, RecvPlaced, PutTypes
  <2>4. ASSUME recv' = "err", UNCHANGED <<hash, pipe>>
        PROVE  RecvTypes' /\ RecvPlaced' /\ PutTypes'
    BY <2>2, <2>4 DEF RecvTypes, RecvPlaced, PutTypes
  <2>5. RecvTypes' /\ RecvPlaced' /\ PutTypes'
    BY <1>19, <2>3, <2>4 DEF RecvRef
  <2> QED
    BY <1>19, <2>1, <2>5, Frame DEF RecvRef
<1>20. CASE RecvWritten
  <2>1. RecvTypes' /\ RecvPlaced'
    BY <1>20, Queue, MsgRead, Contents, ReceiverAssumption
    DEF RecvWritten, RecvTypes, RecvPlaced, PutTypes, StoreTypes, recvVars, putVars
  <2>2. PutTypes'
    BY <1>20, Queue, MsgRead, Contents, ReceiverAssumption
    DEF RecvWritten, PutTypes, RecvTypes, RecvPlaced, StoreTypes, putVars
  <2> QED
    BY <2>1, <2>2, <1>20, Frame DEF RecvWritten, putVars
<1>21. CASE RecvEnd
  <2>1. RecvTypes' /\ RecvPlaced'
    BY <1>21, Queue, MsgRead, Contents, ReceiverAssumption
    DEF RecvEnd, ReadOK, RecvTypes, RecvPlaced, PutTypes, StoreTypes, recvVars, putVars
  <2>2. PutTypes'
    BY <1>21, Queue, MsgRead, Contents, ReceiverAssumption
    DEF RecvEnd, ReadOK, PutTypes, RecvTypes, RecvPlaced, StoreTypes, putVars
  <2>3. in' \in Seq(Msg)
    BY <1>21, Queue, MsgMade, Contents, ReceiverAssumption
    DEF RecvEnd, ReadOK, PeerTypes, PeerPlaced, GenTypes, GenPlaced
  <2> QED
    BY <2>1, <2>2, <2>3, <1>21, Frame DEF RecvEnd, ReadOK, putVars
<1>22. CASE RecvWait
  <2>1. RecvTypes' /\ RecvPlaced'
    BY <1>22, Queue, MsgRead, Contents, ReceiverAssumption
    DEF RecvWait, RecvTypes, RecvPlaced, PutTypes, StoreTypes, recvVars, putVars
  <2> QED
    BY <2>1, <1>22, Frame DEF RecvWait, putVars
<1>23. CASE RecvSum
  <2>1. RecvTypes' /\ RecvPlaced'
    BY <1>23, Queue, MsgRead, Contents, ReceiverAssumption
    DEF RecvSum, ReadOK, RecvTypes, RecvPlaced, PutTypes, StoreTypes, recvVars, putVars
  <2>2. in' \in Seq(Msg)
    BY <1>23, Queue, MsgMade, Contents, ReceiverAssumption
    DEF RecvSum, ReadOK, PeerTypes, PeerPlaced, GenTypes, GenPlaced
  <2> QED
    BY <2>1, <2>2, <1>23, Frame DEF RecvSum, ReadOK, putVars
<1>24. CASE RecvReadErr
  <2>1. RecvTypes' /\ RecvPlaced'
    BY <1>24, Queue, MsgRead, Contents, ReceiverAssumption
    DEF RecvReadErr, LeavePut, ReadErr, RecvTypes, RecvPlaced, PutTypes, StoreTypes, recvVars, putVars
  <2>2. PutTypes'
    BY <1>24, Queue, MsgRead, Contents, ReceiverAssumption
    DEF RecvReadErr, LeavePut, ReadErr, PutTypes, RecvTypes, RecvPlaced, StoreTypes, putVars
  <2>3. in' \in Seq(Msg)
    BY <1>24, Queue, MsgMade, Contents, ReceiverAssumption
    DEF RecvReadErr, LeavePut, ReadErr, PeerTypes, PeerPlaced, GenTypes, GenPlaced
  <2> QED
    BY <2>1, <2>2, <2>3, <1>24, Frame DEF RecvReadErr, LeavePut, ReadErr, putVars
<1>25. CASE PutStart
  <2>1. PutTypes'
    BY <1>25, Queue, MsgRead, Contents, ReceiverAssumption
    DEF PutStart, PutTypes, RecvTypes, RecvPlaced, StoreTypes, putVars
  <2>2. StoreTypes'
    BY <1>25, Queue, MsgRead, Contents, ReceiverAssumption
    DEF PutStart, StoreTypes, RecvTypes, RecvPlaced, PutTypes, GenTypes, GenPlaced, diskVars, histVars
  <2>3. RecvTypes' /\ RecvPlaced'
    BY <1>25, Queue, MsgRead, Contents, ReceiverAssumption
    DEF PutStart, RecvTypes, RecvPlaced, PutTypes, StoreTypes, recvVars, putVars
  <2> QED
    BY <2>1, <2>2, <2>3, <1>25, Frame DEF PutStart, putVars
<1>26. CASE PutRead
  <2>1. PutTypes'
    BY <1>26, Queue, MsgRead, Contents, ReceiverAssumption
    DEF PutRead, PutTypes, RecvTypes, RecvPlaced, StoreTypes, putVars
  <2>2. StoreTypes'
    BY <1>26, Queue, MsgRead, Contents, ReceiverAssumption
    DEF PutRead, StoreTypes, RecvTypes, RecvPlaced, PutTypes, GenTypes, GenPlaced, diskVars, histVars
  <2>3. RecvTypes' /\ RecvPlaced'
    BY <1>26, Queue, MsgRead, Contents, ReceiverAssumption
    DEF PutRead, RecvTypes, RecvPlaced, PutTypes, StoreTypes, recvVars, putVars
  <2> QED
    BY <2>1, <2>2, <2>3, <1>26, Frame DEF PutRead, putVars
<1>27. CASE PutStore
  <2>1. PutTypes'
    BY <1>27, Queue, MsgRead, Contents, ReceiverAssumption
    DEF PutStore, PutTypes, RecvTypes, RecvPlaced, StoreTypes, putVars
  <2>2. StoreTypes'
    BY <1>27, Queue, MsgRead, Contents, ReceiverAssumption
    DEF PutStore, StoreTypes, RecvTypes, RecvPlaced, PutTypes, GenTypes, GenPlaced, diskVars, histVars
  <2>3. RecvTypes' /\ RecvPlaced'
    BY <1>27, Queue, MsgRead, Contents, ReceiverAssumption
    DEF PutStore, RecvTypes, RecvPlaced, PutTypes, StoreTypes, recvVars, putVars
  <2> QED
    BY <2>1, <2>2, <2>3, <1>27, Frame DEF PutStore, putVars
<1>28. CASE PutFails
  <2>1. PutTypes'
    BY <1>28, Queue, MsgRead, Contents, ReceiverAssumption
    DEF PutFails, PutTypes, RecvTypes, RecvPlaced, StoreTypes, putVars
  <2>2. StoreTypes'
    BY <1>28, Queue, MsgRead, Contents, ReceiverAssumption
    DEF PutFails, StoreTypes, RecvTypes, RecvPlaced, PutTypes, GenTypes, GenPlaced, diskVars, histVars
  <2>3. RecvTypes' /\ RecvPlaced'
    BY <1>28, Queue, MsgRead, Contents, ReceiverAssumption
    DEF PutFails, RecvTypes, RecvPlaced, PutTypes, StoreTypes, recvVars, putVars
  <2> QED
    BY <2>1, <2>2, <2>3, <1>28, Frame DEF PutFails, putVars
<1>29. CASE PeerReadIdx
  <2>1. PeerTypes' /\ PeerPlaced'
    BY <1>29, Queue, MsgRead, Contents, ReceiverAssumption
    DEF PeerReadIdx, PeerRead, PeerTypes, PeerPlaced, peerVars
  <2>2. out' \in Seq(Msg)
    BY <1>29, Queue, MsgMade, Contents, ReceiverAssumption
    DEF PeerReadIdx, PeerRead, PeerTypes, PeerPlaced, GenTypes, GenPlaced
  <2> QED
    BY <2>1, <2>2, <1>29, Frame DEF PeerReadIdx, PeerRead, putVars
<1>30. CASE PeerReadHead
  <2>1. PeerTypes' /\ PeerPlaced'
    BY <1>30, Queue, MsgRead, Contents, ReceiverAssumption
    DEF PeerReadHead, PeerRead, PeerTypes, PeerPlaced, peerVars
  <2>2. out' \in Seq(Msg)
    BY <1>30, Queue, MsgMade, Contents, ReceiverAssumption
    DEF PeerReadHead, PeerRead, PeerTypes, PeerPlaced, GenTypes, GenPlaced
  <2> QED
    BY <2>1, <2>2, <1>30, Frame DEF PeerReadHead, PeerRead, putVars
<1>31. CASE PeerReadSum
  <2>1. PeerTypes' /\ PeerPlaced'
    BY <1>31, Queue, MsgRead, Contents, ReceiverAssumption
    DEF PeerReadSum, PeerRead, PeerTypes, PeerPlaced, peerVars
  <2>2. out' \in Seq(Msg)
    BY <1>31, Queue, MsgMade, Contents, ReceiverAssumption
    DEF PeerReadSum, PeerRead, PeerTypes, PeerPlaced, GenTypes, GenPlaced
  <2> QED
    BY <2>1, <2>2, <1>31, Frame DEF PeerReadSum, PeerRead, putVars
<1>32. CASE PeerReadBye
  <2>1. PeerTypes' /\ PeerPlaced'
    BY <1>32, Queue, MsgRead, Contents, ReceiverAssumption
    DEF PeerReadBye, PeerRead, PeerTypes, PeerPlaced, peerVars
  <2>2. out' \in Seq(Msg)
    BY <1>32, Queue, MsgMade, Contents, ReceiverAssumption
    DEF PeerReadBye, PeerRead, PeerTypes, PeerPlaced, GenTypes, GenPlaced
  <2> QED
    BY <2>1, <2>2, <1>32, Frame DEF PeerReadBye, PeerRead, putVars
<1>33. CASE PeerVanish
  <2>1. PeerTypes' /\ PeerPlaced'
    BY <1>33, Queue, MsgRead, Contents, ReceiverAssumption
    DEF PeerVanish, PeerTypes, PeerPlaced, peerVars
  <2>2. StoreTypes'
    BY <1>33, Queue, MsgRead, Contents, ReceiverAssumption
    DEF PeerVanish, PeerPlaced, StoreTypes, diskVars
  <2> QED
    BY <2>1, <2>2, <1>33, Frame DEF PeerVanish, putVars
<1>34. CASE PeerSend
  <2>1. PeerTypes' /\ PeerPlaced'
    BY <1>34 DEF PeerSend, PeerSays, PeerTypes, PeerPlaced
  <2>2. peer = "tokens" /\ peerPos <= Len(Source[peerCur]) => PeerTokens \subseteq Msg
    <3> SUFFICES ASSUME peer = "tokens", peerPos <= Len(Source[peerCur])
                 PROVE  PeerTokens \subseteq Msg
      OBVIOUS
    <3>1. Source[peerCur] \in Content
      BY ReceiverAssumption DEF PeerPlaced
    <3>2. Source[peerCur][peerPos] \in Chunk
      BY <3>1, Contents DEF PeerTypes
    <3>3. Len(peerSums) \in Nat
      BY Contents DEF PeerTypes
    <3> QED
      BY <3>2, <3>3, MsgMade DEF PeerTokens
  <2>3. peer \in {"echo", "answer", "rhead", "rsum"} =>
          /\ Idx(peerCur) \in Msg /\ SumHead(Len(peerSums)) \in Msg
          /\ FileSum(Source[peerCur]) \in Msg
    BY MsgMade, Contents, ReceiverAssumption DEF PeerTypes, PeerPlaced
  <2>4. Idx(Done) \in Msg /\ Stats \in Msg /\ EndToken \in Msg
    BY MsgMade
  <2>5. PICK m \in Msg : in' = Append(in, m)
    BY <1>34, <2>2, <2>3, <2>4 DEF PeerSend, PeerSays, PeerWrite
  <2>6. in' \in Seq(Msg)
    BY <2>5, Queue
  <2> QED
    BY <1>34, <2>1, <2>6, Frame DEF PeerSend, putVars
<1>35. CASE PeerLeaves
  <2>1. PeerTypes' /\ PeerPlaced'
    BY <1>35, Queue, MsgRead, Contents, ReceiverAssumption
    DEF PeerLeaves, PeerTypes, PeerPlaced, peerVars
  <2> QED
    BY <2>1, <1>35, Frame DEF PeerLeaves, putVars
<1>36. CASE PeerCrash
  <2>1. PeerTypes' /\ PeerPlaced'
    BY <1>36, Queue, MsgRead, Contents, ReceiverAssumption
    DEF PeerCrash, PeerTypes, PeerPlaced, peerVars
  <2> QED
    BY <2>1, <1>36, Frame DEF PeerCrash, putVars
<1>37. CASE \E f \in Regular : Edit(f)
  <2>1. StoreTypes'
    BY <1>37, Queue, MsgRead, Contents, ReceiverAssumption
    DEF Edit, StoreTypes, RecvTypes, RecvPlaced, PutTypes, GenTypes, GenPlaced, diskVars, histVars
  <2> QED
    BY <2>1, <1>37, Frame DEF Edit, putVars
<1>38. CASE UNCHANGED vars
  BY <1>38, Frame DEF vars, putVars
<1> QED
  BY <1>1, <1>2, <1>3, <1>4, <1>5, <1>6, <1>7, <1>8, <1>9, <1>10, <1>11, <1>12, <1>13, <1>14, <1>15, <1>16, <1>17, <1>18, <1>19, <1>20, <1>21, <1>22, <1>23, <1>24, <1>25, <1>26, <1>27, <1>28, <1>29, <1>30, <1>31, <1>32, <1>33, <1>34, <1>35, <1>36, <1>37, <1>38
  DEF Next, Moves, Main, Select, Generator, RecvFiles, Put, Peer

(* The initial state has the types and the placement.                      *)
LEMMA TypeInit == Init => TypeOK /\ Placed
<1> SUFFICES ASSUME Init PROVE TypeOK /\ Placed
  OBVIOUS
<1>1. MainTypes /\ PutTypes
  BY Contents DEF Init, MainTypes, PutTypes
<1>2. GenTypes /\ RecvTypes
  BY ReceiverAssumption, Contents DEF Init, GenTypes, RecvTypes
<1>3. PeerTypes
  BY Contents DEF Init, PeerTypes
<1>4. StoreTypes
  BY ReceiverAssumption DEF Init, StoreTypes
<1>5. out \in Seq(Msg) /\ in \in Seq(Msg)
  BY DEF Init
<1>6. Placed
  BY DEF Init, Placed, GenPlaced, RecvPlaced, PeerPlaced
<1> QED
  BY <1>1, <1>2, <1>3, <1>4, <1>5, <1>6 DEF TypeOK

(* Every variable of the session keeps its range, and no goroutine works   *)
(* on an entry that the file list does not have.                           *)
THEOREM TypeCorrect == Spec => [](TypeOK /\ Placed)
BY TypeInit, TypeStep, PTL DEF Spec

-----------------------------------------------------------------------------
(* The md4 state and the pipe.  While Put is at work, what it has read and *)
(* what the pipe holds is what was hashed; the write end is closed only by *)
(* a receiver that waits for Put; and a Put that returned before that has  *)
(* failed.                                                                 *)
Streaming ==
  /\ main = "delete" => recv = "idle"
  /\ PutActive => acc \o pipe = hash
  /\ PutActive /\ eof => recv = "wait"
  /\ PutActive /\ recv \in {"token", "wait"} => pipe = <<>>
  /\ recv \in {"token", "write", "wait"} => put # "none"
  /\ recv \in {"idle", "idx", "open", "head", "sum", "ok"} => ~PutActive
  /\ recv \in {"token", "write"} /\ put = "returned" => cur \in putErr
  /\ (recv = "wait" /\ put = "returned") \/ recv = "sum"
       => stored[cur] = hash \/ cur \in putErr

(* The empty sequence is neutral.                                          *)
LEMMA Concat ==
  \A s \in Content : s \o <<>> = s /\ <<>> \o s = s
BY DEF Content

(* Every step keeps Streaming.                                             *)
LEMMA StreamStep == TypeOK /\ Placed /\ Streaming /\ [Next]_vars => Streaming'
<1> SUFFICES ASSUME TypeOK, Placed, Streaming, [Next]_vars PROVE Streaming'
  OBVIOUS
<1> USE DEF Streaming, PutActive
<1>1. hash \in Content /\ acc \in Content /\ pipe \in Content /\ <<>> \in Content
  BY Contents DEF TypeOK, RecvTypes, PutTypes
<1>2. CASE DoStart
  BY <1>2 DEF DoStart, putVars, histVars
<1>3. ASSUME UNCHANGED <<recv, cur, hash, putVars, putErr, stored>>,
             main' = "delete" => main = "delete"
      PROVE  Streaming'
  BY <1>3 DEF putVars
<1>4. CASE DoWait \/ DoReport \/ DoGoodbye \/ SendError \/ Select \/ CloseConn
  BY <1>3, <1>4 DEF DoWait, DoReport, DoGoodbye, SendError, Select, SelectCtx,
     SelectRecv, CloseConn, recvVars, histVars
<1>5. CASE Generator
  BY <1>3, <1>5 DEF mainVars, Generator, GenSkip, GenRequest, GenHead, GenSum, GenReadFails,
     GenPhase, recvVars, histVars
<1>6. CASE Peer \/ PeerCrash
  BY <1>3, <1>6 DEF mainVars, Peer, PeerCrash, PeerReadIdx, PeerReadHead, PeerReadSum,
     PeerReadBye, PeerVanish, PeerSend, PeerLeaves, recvVars, histVars
<1>7. CASE \E f \in Regular : Edit(f)
  BY <1>3, <1>7 DEF mainVars, Edit, recvVars, histVars
<1>8. CASE RecvIdx
  BY <1>8 DEF mainVars, RecvIdx, putVars, histVars
<1>9. CASE RecvOpen
  BY <1>9 DEF mainVars, RecvOpen, putVars, histVars
<1>10. CASE RecvHead
  BY <1>1, <1>10, Concat DEF mainVars, RecvHead, histVars
<1>11. CASE RecvData
  BY <1>11 DEF mainVars, RecvData, Feed, histVars
<1>12. CASE RecvRef
  <2>1. PICK c : \/ Feed(c)
                 \/ recv' = "err" /\ UNCHANGED <<hash, pipe>>
    BY <1>12 DEF RecvRef
  <2>2. recv = "token" /\ UNCHANGED <<main, cur, put, acc, eof, putErr, stored>>
    BY <1>12 DEF RecvRef, mainVars, histVars
  <2>3. PutActive => acc = hash
    BY <1>1, <2>2, Concat
  <2>4. acc \o <<c>> = Append(acc, c)
    BY <1>1 DEF Content
  <2> QED
    BY <1>1, <2>1, <2>2, <2>3, <2>4 DEF Feed
<1>13. CASE RecvWritten
  BY <1>13 DEF mainVars, RecvWritten, histVars
<1>14. CASE RecvEnd
  BY <1>14 DEF mainVars, RecvEnd, histVars
<1>15. CASE RecvWait
  BY <1>15 DEF mainVars, RecvWait, putVars, histVars
<1>16. CASE RecvSum
  BY <1>16 DEF mainVars, RecvSum, putVars, histVars
<1>17. CASE RecvReadErr
  BY <1>17 DEF mainVars, RecvReadErr, LeavePut, histVars
<1>18. CASE PutStart
  BY <1>18 DEF mainVars, PutStart, recvVars, histVars
<1>19. CASE PutRead
  BY <1>19 DEF mainVars, PutRead, recvVars, histVars
<1>20. CASE PutStore
  <2>1. acc = hash /\ recv = "wait"
    BY <1>1, <1>20, Contents, Concat DEF PutStore
  <2>2. stored'[cur] = hash
    BY <1>20, <2>1 DEF PutStore, TypeOK, StoreTypes, Placed, RecvPlaced
  <2> QED
    BY <1>20, <2>1, <2>2 DEF PutStore, recvVars, mainVars
<1>21. CASE PutFails
  BY <1>21 DEF mainVars, PutFails, recvVars
<1>22. CASE UNCHANGED vars
  BY <1>3, <1>22 DEF vars, mainVars, recvVars, histVars
<1> QED
  BY <1>2, <1>4, <1>5, <1>6, <1>7, <1>8, <1>9, <1>10, <1>11, <1>12, <1>13, <1>14,
     <1>15, <1>16, <1>17, <1>18, <1>19, <1>20, <1>21, <1>22
  DEF Next, Moves, Main, RecvFiles, Put

(* Nothing streams at the start.                                           *)
LEMMA StreamInit == Init => Streaming
BY DEF Init, Streaming, PutActive

(* The invariant the two action properties follow from.                    *)
THEOREM StreamCorrect == Spec => []Streaming
<1>1. Init => TypeOK /\ Placed /\ Streaming
  BY TypeInit, StreamInit
<1>2. TypeOK /\ Placed /\ Streaming /\ [Next]_vars => TypeOK' /\ Placed' /\ Streaming'
  BY TypeStep, StreamStep
<1> QED
  BY <1>1, <1>2, PTL DEF Spec

(* What is stored is the whole rebuilt file, once its end was read.        *)
THEOREM NothingPartial == Spec => NoPartialCommit
<1>1. ASSUME TypeOK, Placed, Streaming, [Next]_vars, stored' # stored
      PROVE  recv = "wait" /\ stored' = [stored EXCEPT ![cur] = hash]
  <2>1. PutStore
    BY <1>1
    DEF Next, Moves, Main, Select, Generator, RecvFiles, Put, Peer, vars, histVars,
        DoStart, DoWait, DoReport, DoGoodbye, SendError, SelectCtx, SelectRecv,
        CloseConn, GenSkip, GenRequest, GenHead, GenSum, GenReadFails, GenPhase,
        RecvIdx, RecvOpen, RecvHead, RecvData, RecvRef, RecvWritten, RecvEnd,
        RecvWait, RecvSum, RecvReadErr, PutStart, PutRead, PutFails, Edit,
        PeerReadIdx, PeerReadHead, PeerReadSum, PeerReadBye, PeerVanish, PeerSend,
        PeerLeaves, PeerCrash
  <2>2. acc = hash
    BY <1>1, <2>1, Contents, Concat
    DEF PutStore, Streaming, PutActive, TypeOK, PutTypes
  <2> QED
    BY <1>1, <2>1, <2>2 DEF PutStore, Streaming, PutActive
<1> QED
  BY <1>1, TypeCorrect, StreamCorrect, PTL DEF Spec, NoPartialCommit

(* An accepted checksum means that the file is stored, or its Put failed.  *)
THEOREM AcceptedIsStored == Spec => VerifiedIsStored
<1>1. ASSUME Streaming, [Next]_vars, recv = "sum", recv' = "idx"
      PROVE  stored[cur] = Head(in).v \/ cur \in putErr
  <2>1. RecvSum
    BY <1>1
    DEF Next, Moves, Main, Select, Generator, RecvFiles, Put, Peer, vars, recvVars,
        DoStart, DoWait, DoReport, DoGoodbye, SendError, SelectCtx, SelectRecv,
        CloseConn, GenSkip, GenRequest, GenHead, GenSum, GenReadFails, GenPhase,
        RecvIdx, RecvOpen, RecvHead, RecvData, RecvRef, RecvWritten, RecvEnd,
        RecvWait, RecvReadErr, PutStart, PutRead, PutStore, PutFails, Edit,
        PeerReadIdx, PeerReadHead, PeerReadSum, PeerReadBye, PeerVanish, PeerSend,
        PeerLeaves, PeerCrash, Streaming
  <2> QED
    BY <1>1, <2>1 DEF RecvSum, Matches, Streaming
<1> QED
  BY <1>1, StreamCorrect, PTL DEF Spec, VerifiedIsStored

-----------------------------------------------------------------------------
(* What is under way.                                                      *)
(*                                                                         *)
(* Each direction of the connection is seen as a path of an automaton that *)
(* leads from where its reader is to where its writer is, and has one step *)
(* for each message under way.  What a message stands for is a condition   *)
(* of its step: no condition is ever lost while the message is under way.  *)


(* The messages of q lead from a to b by steps of T.                       *)
Path(S, T, a, q, b) ==
  \E p \in [0 .. Len(q) -> S] :
     /\ p[0] = a /\ p[Len(q)] = b
     /\ \A i \in 1 .. Len(q) : <<p[i - 1], q[i], p[i]>> \in T

(* Nothing is under way: one stays where one is.                           *)
LEMMA PathStart ==
  ASSUME NEW S, NEW T, NEW a \in S
  PROVE  Path(S, T, a, <<>>, a)
<1> DEFINE p == [i \in 0 .. 0 |-> a]
<1>1. p \in [0 .. 0 -> S] /\ p[0] = a
  OBVIOUS
<1>2. Len(<<>>) = 0
  OBVIOUS
<1>3. \A i \in 1 .. 0 : FALSE
  OBVIOUS
<1> QED BY <1>1, <1>2, <1>3 DEF Path

(* And is there.                                                           *)
LEMMA PathEnd ==
  ASSUME NEW S, NEW T, NEW a, NEW b, Path(S, T, a, <<>>, b)
  PROVE  a = b
<1>1. Len(<<>>) = 0
  OBVIOUS
<1> QED BY <1>1 DEF Path

(* A path with fewer steps is one with more.                               *)
LEMMA PathMore ==
  ASSUME NEW S, NEW T, NEW U, NEW a, NEW q, NEW b, Path(S, T, a, q, b), T \subseteq U
  PROVE  Path(S, U, a, q, b)
  BY DEF Path

(* Writing a message is one more step at the end of the path.              *)
LEMMA PathWrite ==
  ASSUME NEW S, NEW T, NEW a, NEW q \in Seq(Msg), NEW b, NEW m \in Msg, NEW c \in S,
         Path(S, T, a, q, b), <<b, m, c>> \in T
  PROVE  Path(S, T, a, Append(q, m), c)
<1> DEFINE n == Len(q)
           r == Append(q, m)
<1>1. n \in Nat /\ Len(r) = n + 1 /\ r[n + 1] = m /\ \A i \in 1 .. n : r[i] = q[i]
  BY AppendProperties, LenProperties
<1>2. PICK p \in [0 .. n -> S] : /\ p[0] = a /\ p[n] = b
                                 /\ \A i \in 1 .. n : <<p[i - 1], q[i], p[i]>> \in T
  BY DEF Path
<1> HIDE DEF n, r
<1> DEFINE s == [i \in 0 .. n + 1 |-> IF i = n + 1 THEN c ELSE p[i]]
<1>3. n \in Nat
  BY <1>1
<1>4. s \in [0 .. n + 1 -> S] /\ s[0] = a /\ s[n + 1] = c /\ s[n] = b
  BY <1>2, <1>3
<1>5. \A i \in 0 .. n : s[i] = p[i]
  BY <1>3
<1>6. ASSUME NEW i \in 1 .. n + 1 PROVE <<s[i - 1], r[i], s[i]>> \in T
  <2> HIDE DEF s
  <2>1. CASE i = n + 1
    <3>1. i - 1 = n
      BY <1>3, <2>1
    <3> QED BY <1>1, <1>4, <2>1, <3>1
  <2>2. CASE i # n + 1
    <3>1. i \in 1 .. n /\ i - 1 \in 0 .. n /\ i \in 0 .. n
      BY <1>3, <2>2
    <3> QED BY <1>1, <1>2, <1>5, <3>1
  <2> QED BY <2>1, <2>2
<1> HIDE DEF s
<1>7. Path(S, T, a, r, c)
  BY <1>1, <1>4, <1>6 DEF Path
<1> QED BY <1>7 DEF r

(* Reading one is the first step gone.                                     *)
LEMMA PathRead ==
  ASSUME NEW S, NEW T, NEW a, NEW q \in Seq(Msg), NEW b, Path(S, T, a, q, b), q # <<>>
  PROVE  \E c \in S : <<a, Head(q), c>> \in T /\ Path(S, T, c, Tail(q), b)
<1> DEFINE n == Len(q)
           r == Tail(q)
<1>1. n \in Nat /\ Len(r) \in Nat /\ Len(r) = n - 1 /\ \A i \in 1 .. Len(r) : r[i] = q[i + 1]
  BY HeadTailProperties, LenProperties
<1>2. PICK p \in [0 .. n -> S] : /\ p[0] = a /\ p[n] = b
                                 /\ \A i \in 1 .. n : <<p[i - 1], q[i], p[i]>> \in T
  BY DEF Path
<1>3. Head(q) = q[1]
  OBVIOUS
<1> DEFINE k == Len(r)
<1> HIDE DEF n, r, k
<1>4. k \in Nat /\ n = k + 1 /\ Len(r) = k
  BY <1>1 DEF k
<1> DEFINE s == [i \in 0 .. k |-> p[i + 1]]
<1>5. s \in [0 .. k -> S] /\ s[0] = p[1] /\ s[k] = b /\ \A i \in 0 .. k : s[i] = p[i + 1]
  <2>1. \A i \in 0 .. k : i + 1 \in 0 .. n
    BY <1>4
  <2>2. 0 \in 0 .. k /\ k \in 0 .. k /\ 0 + 1 = 1 /\ k + 1 = n
    BY <1>4
  <2> QED BY <1>2, <2>1, <2>2
<1>6. ASSUME NEW i \in 1 .. k PROVE <<s[i - 1], r[i], s[i]>> \in T
  <2> HIDE DEF s
  <2>1. i - 1 \in 0 .. k /\ i \in 0 .. k /\ i - 1 + 1 = i /\ i + 1 \in 1 .. n /\ i + 1 - 1 = i
    BY <1>4
  <2>2. s[i - 1] = p[i] /\ s[i] = p[i + 1]
    BY <1>5, <2>1
  <2>3. r[i] = q[i + 1]
    BY <1>1, <1>4
  <2>4. <<p[i + 1 - 1], q[i + 1], p[i + 1]>> \in T
    BY <1>2, <2>1
  <2> QED BY <2>1, <2>2, <2>3, <2>4
<1> HIDE DEF s
<1>7. Path(S, T, p[1], r, b)
  BY <1>4, <1>5, <1>6 DEF Path
<1>8. 1 \in 1 .. n /\ 1 \in 0 .. n /\ 1 - 1 = 0
  BY <1>4
<1>9. <<a, Head(q), p[1]>> \in T /\ p[1] \in S
  BY <1>2, <1>3, <1>8
<1> QED BY <1>7, <1>9 DEF r

-----------------------------------------------------------------------------
(* From the generator to the sender.  "file" is the last entry asked for,  *)
(* "left" counts the sums to come, "done" the indices that end a phase.    *)
OutPlace ==
  [at : {"idx", "head", "sums", "bye", "over"}, file : File \cup {Done},
   left : Nat, done : 0 .. 2]

(* The generator asks for nothing more.                                    *)
Past == gen \in {"phase1", "ok", "err"}

OutStep(x, m, y) ==
  \/ m = ErrorMsg /\ y.at = "over"
  \/ /\ x.at = "idx" /\ x.done = 0 /\ m.t = "idx" /\ m.v \in requested
     /\ x.file < m.v /\ \A e \in requested : e <= x.file \/ m.v <= e
     /\ y = [x EXCEPT !.at = IF opts.DryRun THEN "idx" ELSE "head", !.file = m.v]
  \/ /\ x.at = "head" /\ m.t = "head"
     /\ y = [x EXCEPT !.at = IF m.v = 0 THEN "idx" ELSE "sums", !.left = m.v]
  \/ /\ x.at = "sums" /\ m.t = "sum" /\ x.left > 0
     /\ y = [x EXCEPT !.at = IF x.left = 1 THEN "idx" ELSE "sums", !.left = x.left - 1]
  \/ /\ x.at = "idx" /\ x.done < 2 /\ m = Idx(Done)
     /\ Past /\ \A e \in requested : e <= x.file
     /\ y = [x EXCEPT !.at = IF x.done = 0 THEN "idx" ELSE "bye", !.done = x.done + 1]
  \/ /\ x.at = "bye" /\ m = Idx(Done)
     /\ y = [x EXCEPT !.at = "over"]

OutSteps == {s \in OutPlace \X Msg \X OutPlace : OutStep(s[1], s[2], s[3])}

(* Where the sender is in what it reads.                                   *)
OutFrom ==
  [at   |-> CASE peer \in {"head", "sums"} -> peer
              [] peer \in {"final", "stats", "bye"} -> "bye"
              [] OTHER -> "idx",
   file |-> peerCur,
   left |-> IF peer = "sums" THEN peerNeed ELSE 0,
   done |-> CASE peer = "ack" -> 1
              [] peer \in {"final", "stats", "bye"} -> 2
              [] OTHER -> peerPhase]

(* Where the generator and Do are in what they write.                      *)
OutTo(x) ==
  /\ main = "delete" \/ gen = "next" =>
       /\ x.at = "idx" /\ x.done = 0 /\ x.left = 0 /\ x.file < genIdx
       /\ \A e \in requested : e <= x.file
  /\ gen = "head" => x.at = "head" /\ x.file = genIdx /\ x.done = 0 /\ x.left = 0
  /\ gen = "sums" =>
       /\ x.at = "sums" /\ x.file = genIdx /\ x.done = 0
       /\ x.left > 0 /\ x.left = Blocks(genSnap) - genSum + 1
  /\ gen = "phase1" =>
       x.at = "idx" /\ x.done = 1 /\ \A e \in requested : e <= x.file
  /\ gen = "ok" /\ main \in {"wait", "report", "goodbye"} => x.at = "bye"

OutInv ==
  ~PeerGone => \E x \in OutPlace : Path(OutPlace, OutSteps, OutFrom, out, x) /\ OutTo(x)

-----------------------------------------------------------------------------
(* From the sender to the receiver.                                        *)
InPlace ==
  [at : {"idx", "head", "tokens", "sum", "stats", "over"},
   file : File \cup {Done}, done : 0 .. 2]

(* The sender has been asked for peerCur, and has not begun to answer.     *)
NotYet == peer \in {"echo", "head", "sums", "answer"}

Answered == {e \in requested \ vanished : e <= peerCur /\ (NotYet => e # peerCur)}

Skipped(e) == e \in vanished

AckSent   == Past /\ (PeerGone \/ peerPhase = 1)

(* All that was written to the sender was read, but for the goodbye that   *)
(* Do writes last; a generator that failed may have left its error there.  *)
OnlyGoodbye ==
  /\ gen \in {"ok", "err"}
  /\ gen = "ok" /\ main \in {"wait", "report", "goodbye"} => out = <<>>
  /\ main = "ok" => out \in {<<>>, <<Idx(Done)>>}

FinalSent == (PeerGone \/ peer \in {"stats", "bye"}) /\ OnlyGoodbye

InStep(x, m, y) ==
  \/ /\ x.at = "idx" /\ x.done = 0 /\ m.t = "idx" /\ m.v \in Answered
     /\ x.file < m.v /\ \A e \in requested : x.file < e /\ e < m.v => Skipped(e)
     /\ y = [x EXCEPT !.at = IF opts.DryRun THEN "idx" ELSE "head", !.file = m.v]
  \/ x.at = "head" /\ m.t = "head" /\ y = [x EXCEPT !.at = "tokens"]
  \/ x.at = "tokens" /\ m.t \in {"data", "ref"} /\ y = x
  \/ x.at = "tokens" /\ m.t = "end" /\ y = [x EXCEPT !.at = "sum"]
  \/ x.at = "sum" /\ m = FileSum(Source[x.file]) /\ y = [x EXCEPT !.at = "idx"]
  \/ /\ x.at = "idx" /\ x.done = 0 /\ m = Idx(Done)
     /\ AckSent /\ \A e \in requested : x.file < e => Skipped(e)
     /\ y = [x EXCEPT !.done = 1]
  \/ /\ x.at = "idx" /\ x.done = 1 /\ m = Idx(Done) /\ FinalSent
     /\ y = [x EXCEPT !.at = IF opts.noReport THEN "over" ELSE "stats", !.done = 2]
  \/ x.at = "stats" /\ m = Stats /\ y = [x EXCEPT !.at = "over"]

InSteps == {s \in InPlace \X Msg \X InPlace : InStep(s[1], s[2], s[3])}

(* Where RecvFiles, and after it Do, are in what they read.                *)
InFrom ==
  [at   |-> CASE recv \in {"idle", "idx"} -> "idx"
              [] recv \in {"open", "head"} -> "head"
              [] recv \in {"token", "write"} -> "tokens"
              [] recv \in {"wait", "sum"} -> "sum"
              [] OTHER -> IF opts.noReport \/ main \in {"goodbye", "ok"}
                            THEN "over" ELSE "stats",
   file |-> cur,
   done |-> IF recv = "ok" THEN 2 ELSE phase]

(* Where the sender is in what it writes.                                  *)
InTo(x) ==
  /\ x.at = CASE peer = "rhead" -> "head"
              [] peer = "tokens" -> "tokens"
              [] peer = "rsum" -> "sum"
              [] peer = "stats" -> "stats"
              [] peer = "bye" -> "over"
              [] OTHER -> "idx"
  /\ x.done = IF peer \in {"stats", "bye"} THEN 2 ELSE peerPhase
  /\ x.file <= peerCur
  /\ NotYet => x.file # peerCur
  /\ peer \in {"rhead", "tokens", "rsum"} => x.file = peerCur
  /\ \A e \in requested : x.file < e /\ e <= peerCur => Skipped(e) \/ (NotYet /\ e = peerCur)

(* Somebody may still read it.                                             *)
Reading == recv # "err" /\ ~ (recv = "ok" /\ main \in {"senderr", "failed"})

InInv ==
  Reading => \E x \in InPlace :
               Path(InPlace, InSteps, InFrom, in, x) /\ (~PeerGone => InTo(x))

-----------------------------------------------------------------------------
(* Who waits for whom.                                                     *)
ControlInv ==
  /\ main = "delete" => gen = "idle" /\ recv = "idle" /\ sel = "idle"
  /\ gen = "idle" => main \in {"delete", "senderr", "failed"} /\ requested = {} /\ genIdx = 0
  /\ gen \in {"next", "head", "sums", "phase1"} => main = "wait"
  /\ main \in {"report", "goodbye", "ok"} => gen = "ok" /\ sel = "ok"
  /\ sel = "ok" => recv = "ok"
  /\ closed => main \in {"ok", "failed"}

(* What was asked for is what the generator has passed.                    *)
RequestInv ==
  /\ \A e \in requested : e <= genIdx
  /\ gen = "next" => \A e \in requested : e < genIdx

(* The sender answers what it was asked for, and both phases in order.     *)
PeerInv ==
  /\ peerCur # Done => peerCur \in requested
  /\ peer \in {"echo", "head", "sums", "answer", "rhead", "tokens", "rsum", "ack"} => peerPhase = 0
  /\ peer \in {"final", "stats", "bye"} => peerPhase = 1
  /\ ~PeerGone /\ (peer = "ack" \/ peerPhase = 1) =>
       Past /\ \A e \in requested : e <= peerCur
  /\ vanished \subseteq requested
  /\ \A e \in vanished : e <= peerCur /\ (NotYet => e # peerCur)
  /\ peer = "echo" => opts.DryRun
  /\ peer \in {"head", "sums", "answer", "rhead", "tokens", "rsum"} => ~opts.DryRun

(* The receiver gets what was asked for, in order, and when a phase ends   *)
(* it has been given everything that was not skipped.                      *)
RecvInv ==
  /\ cur # Done => cur \in Answered
  /\ phase = 1 => /\ recv \in {"idx", "ok", "err"} /\ AckSent
                  /\ \A e \in requested : e <= cur \/ Skipped(e)
  /\ recv = "ok" => phase = 1 /\ FinalSent

(* Entries are stored in order, once, and never in a dry run.              *)
StoreInv ==
  /\ recv \in {"open", "head", "token", "write", "wait", "sum"} \/ put # "none" => ~opts.DryRun
  /\ \A e \in File : stored[e] # NoFile \/ e \in putErr => e <= cur
  /\ recv \in {"open", "head"} \/ PutActive => stored[cur] = NoFile /\ cur \notin putErr
  /\ putErr \subseteq requested

Excused(e) == e \in vanished \cup putErr

(* The receiver has accepted what the store now holds.                     *)
HandledInv ==
  ~opts.DryRun =>
    \A e \in requested :
       e < cur \/ (e = cur /\ recv \in {"idx", "ok"}) => stored[e] = Source[e] \/ Excused(e)

SideInv == ControlInv /\ RequestInv /\ PeerInv /\ RecvInv /\ StoreInv /\ HandledInv

ExchangeInv == OutInv /\ InInv /\ SideInv
-----------------------------------------------------------------------------
(* The readers' ends of both paths.                                        *)

(* The order of the indices: Done comes before every entry.                *)
LEMMA Indices ==
  /\ File \subseteq Int /\ Done \in Int /\ Done \notin File
  /\ \A f \in File : f >= 0 /\ f < NFiles /\ Done < f
BY ReceiverAssumption DEF File, Done

(* Membership in the sets of steps.                                        *)
LEMMA OutStepsAre ==
  ASSUME NEW x \in OutPlace, NEW m \in Msg, NEW y \in OutPlace
  PROVE  <<x, m, y>> \in OutSteps <=> OutStep(x, m, y)
BY DEF OutSteps

LEMMA InStepsAre ==
  ASSUME NEW x \in InPlace, NEW m \in Msg, NEW y \in InPlace
  PROVE  <<x, m, y>> \in InSteps <=> InStep(x, m, y)
BY DEF InSteps

(* The readers are at places of their automata.                            *)
LEMMA OutFromType ==
  ASSUME TypeOK
  PROVE  OutFrom \in OutPlace
BY DEF TypeOK, PeerTypes, OutFrom, OutPlace

LEMMA InFromType ==
  ASSUME TypeOK
  PROVE  InFrom \in InPlace
BY DEF TypeOK, RecvTypes, InFrom, InPlace

(* What the sender finds is a step from where it is.                       *)
LEMMA OutReads ==
  ASSUME TypeOK, OutInv, ~PeerGone, out # <<>>
  PROVE  /\ Head(out) \in Msg
         /\ \E y, x \in OutPlace :
              /\ OutStep(OutFrom, Head(out), y)
              /\ Path(OutPlace, OutSteps, y, Tail(out), x) /\ OutTo(x)
<1>1. out \in Seq(Msg) /\ Head(out) \in Msg
  BY Queue DEF TypeOK
<1>2. PICK x \in OutPlace : Path(OutPlace, OutSteps, OutFrom, out, x) /\ OutTo(x)
  BY DEF OutInv
<1>3. PICK y \in OutPlace : <<OutFrom, Head(out), y>> \in OutSteps
                            /\ Path(OutPlace, OutSteps, y, Tail(out), x)
  BY <1>1, <1>2, PathRead
<1>4. OutStep(OutFrom, Head(out), y)
  BY <1>1, <1>3, OutFromType, OutStepsAre
<1> QED BY <1>1, <1>2, <1>3, <1>4

(* What RecvFiles or Do finds is one from where it is.                     *)
LEMMA InReads ==
  ASSUME TypeOK, InInv, Reading, in # <<>>
  PROVE  /\ Head(in) \in Msg
         /\ \E y, x \in InPlace :
              /\ InStep(InFrom, Head(in), y)
              /\ Path(InPlace, InSteps, y, Tail(in), x) /\ (~PeerGone => InTo(x))
<1>1. in \in Seq(Msg) /\ Head(in) \in Msg
  BY Queue DEF TypeOK
<1>2. PICK x \in InPlace : Path(InPlace, InSteps, InFrom, in, x) /\ (~PeerGone => InTo(x))
  BY DEF InInv
<1>3. PICK y \in InPlace : <<InFrom, Head(in), y>> \in InSteps
                           /\ Path(InPlace, InSteps, y, Tail(in), x)
  BY <1>1, <1>2, PathRead
<1>4. InStep(InFrom, Head(in), y)
  BY <1>1, <1>3, InFromType, InStepsAre
<1> QED BY <1>1, <1>2, <1>3, <1>4

(* The sender reads an index: the next entry asked for, or none is left.   *)
LEMMA IdxRead ==
  ASSUME TypeOK, Placed, OutInv, PeerInv, PeerReadIdx
  PROVE  \/ /\ Head(out).v \in requested /\ peerCur < Head(out).v /\ peerPhase = 0
            /\ \A e \in requested : e <= peerCur \/ Head(out).v <= e
            /\ peerCur' = Head(out).v /\ peer' = IF opts.DryRun THEN "echo" ELSE "head"
         \/ /\ Head(out).v = Done /\ Past /\ \A e \in requested : e <= peerCur
            /\ peerCur' = peerCur /\ peer' = IF peerPhase = 0 THEN "ack" ELSE "final"
<1>1. peer = "idx" /\ out # <<>> /\ Head(out).t = "idx" /\ ~PeerGone
  BY DEF PeerReadIdx, PeerRead, PeerGone
<1>2. PICK y \in OutPlace : OutStep(OutFrom, Head(out), y)
  BY <1>1, OutReads
<1>3. OutFrom.at = "idx" /\ OutFrom.file = peerCur /\ OutFrom.done = peerPhase
  BY <1>1 DEF OutFrom
<1>4. Head(out) # ErrorMsg
  BY <1>1 DEF ErrorMsg
<1>5. Head(out).v # Done =>
        /\ Head(out).v \in requested /\ peerCur < Head(out).v /\ peerPhase = 0
        /\ \A e \in requested : e <= peerCur \/ Head(out).v <= e
  BY <1>1, <1>2, <1>3, <1>4 DEF OutStep, Idx
<1>6. Head(out).v = Done => Past /\ \A e \in requested : e <= peerCur
  <2>1. Done \notin requested
    BY Indices DEF TypeOK, StoreTypes
  <2> QED BY <1>1, <1>2, <1>3, <1>4, <2>1 DEF OutStep
<1>7. peerCur' = (IF Head(out).v = Done THEN peerCur ELSE Head(out).v)
      /\ peer' = IF Head(out).v = Done THEN (IF peerPhase = 0 THEN "ack" ELSE "final")
                 ELSE IF opts.DryRun THEN "echo" ELSE "head"
  BY DEF PeerReadIdx
<1> QED BY <1>5, <1>6, <1>7

-----------------------------------------------------------------------------
(* What a message stands for is never lost.                                *)

(* The steps that ask, those that answer, and all others.                  *)
LEMMA Sides ==
  ASSUME [Next]_vars
  PROVE  /\ UNCHANGED opts
         /\ \/ Generator /\ UNCHANGED <<mainVars, recvVars, putVars, in, peerVars, diskVars,
                                      vanished, putErr, stored>>
            \/ Peer /\ UNCHANGED <<mainVars, genVars, recvVars, putVars, diskVars,
                                 requested, putErr, stored>>
            \/ PeerCrash /\ UNCHANGED <<mainVars, genVars, recvVars, putVars, diskVars, out, in,
                                      histVars>>
            \/ (Main \/ Select \/ CloseConn) /\ UNCHANGED <<putVars, peerVars, diskVars, histVars>>
            \/ RecvFiles /\ UNCHANGED <<mainVars, genVars, out, peerVars, diskVars, histVars>>
            \/ Put /\ UNCHANGED <<mainVars, genVars, recvVars, out, in, peerVars, requested, vanished>>
            \/ (\E f \in Regular : Edit(f)) /\ UNCHANGED <<mainVars, genVars, recvVars, putVars, out, in,
                                                        peerVars, histVars>>
            \/ UNCHANGED vars
<1>1. CASE Generator
  BY <1>1 DEF Generator, GenSkip, GenRequest, GenHead, GenSum, GenReadFails, GenPhase, histVars
<1>2. CASE Peer
  BY <1>2 DEF Peer, PeerReadIdx, PeerReadHead, PeerReadSum, PeerReadBye, PeerVanish, PeerSend,
     PeerLeaves, histVars
<1>3. CASE PeerCrash
  BY <1>3 DEF PeerCrash
<1>4. CASE Main \/ Select \/ CloseConn
  BY <1>4 DEF Main, Select, DoStart, DoWait, DoReport, DoGoodbye, SendError, SelectCtx,
     SelectRecv, CloseConn
<1>5. CASE RecvFiles
  BY <1>5 DEF RecvFiles, RecvIdx, RecvOpen, RecvHead, RecvData, RecvRef, RecvWritten, RecvEnd,
     RecvWait, RecvSum, RecvReadErr
<1>6. CASE Put
  BY <1>6 DEF Put, PutStart, PutRead, PutStore, PutFails, histVars
<1>7. CASE \E f \in Regular : Edit(f)
  BY <1>7 DEF Edit
<1>8. CASE UNCHANGED vars
  BY <1>8 DEF vars
<1> QED
  BY <1>1, <1>2, <1>3, <1>4, <1>5, <1>6, <1>7, <1>8 DEF Next, Moves

(* Requests only grow, at the end, and not once the generator has passed.  *)
LEMMA RequestsGrow ==
  ASSUME TypeOK, ControlInv, RequestInv, [Next]_vars
  PROVE  /\ requested \subseteq requested'
         /\ \A e \in requested' : e \in requested \/ \A r \in requested : r < e
         /\ Past => requested' = requested /\ Past'
<1>1. CASE GenRequest
  <2>1. gen = "next" /\ requested' \in {requested, requested \cup {genIdx}}
    BY <1>1 DEF GenRequest
  <2> QED BY <2>1 DEF RequestInv, Past
<1>2. CASE ~GenRequest
  <2>1. requested' = requested
    BY <1>2, Sides DEF Generator, GenSkip, GenHead, GenSum, GenReadFails, GenPhase, Peer,
       PeerReadIdx, PeerReadHead, PeerReadSum, PeerReadBye, PeerVanish, PeerSend, PeerLeaves,
       histVars, vars, RecvFiles, Main, Select, CloseConn
  <2>2. Past => Past'
    <3>1. CASE Generator
      BY <1>2, <3>1 DEF Generator, GenSkip, GenHead, GenSum, GenReadFails, GenPhase, Past
    <3>2. CASE Main \/ Select \/ CloseConn
      BY <3>2 DEF Main, Select, DoStart, DoWait, DoReport, DoGoodbye, SendError, SelectCtx,
         SelectRecv, CloseConn, genVars, Past, ControlInv
    <3>3. CASE UNCHANGED genVars
      BY <3>3 DEF genVars, Past
    <3> QED BY <3>1, <3>2, <3>3, Sides DEF vars
  <2> QED BY <2>1, <2>2
<1> QED BY <1>1, <1>2

(* Once the generator is done only Do writes, and only the goodbye.        *)
LEMMA OnlyGoodbyeStays ==
  ASSUME TypeOK, ControlInv, OnlyGoodbye, [Next]_vars
  PROVE  OnlyGoodbye'
<1>1. gen \in {"ok", "err"} /\ (main \in {"report", "goodbye", "ok"} => gen = "ok")
      /\ (main = "delete" => gen = "idle")
  BY DEF OnlyGoodbye, ControlInv
<1>2. CASE DoGoodbye
  <2>1. out = <<>> /\ gen' = gen /\ Append(<<>>, Idx(Done)) = <<Idx(Done)>>
    BY <1>1, <1>2 DEF DoGoodbye, OnlyGoodbye, genVars
  <2> QED BY <1>1, <1>2, <2>1 DEF DoGoodbye, WriteOK, WriteErr, OnlyGoodbye
<1>3. CASE DoStart \/ Generator
  BY <1>1, <1>3 DEF DoStart, Generator, GenSkip, GenRequest, GenHead, GenSum, GenReadFails, GenPhase
<1>4. CASE SendError
  BY <1>1, <1>4 DEF SendError, OnlyGoodbye, genVars
<1>5. CASE DoWait \/ DoReport \/ Select \/ CloseConn
  BY <1>1, <1>5 DEF DoWait, DoReport, Select, SelectCtx, SelectRecv, CloseConn, OnlyGoodbye, genVars
<1>6. main' = main /\ gen' = gen /\ (out' = out \/ (out # <<>> /\ out' = Tail(out))) => OnlyGoodbye'
  <2> SUFFICES ASSUME main' = main, gen' = gen, out' = out \/ (out # <<>> /\ out' = Tail(out))
               PROVE  OnlyGoodbye'
    OBVIOUS
  <2>1. Tail(<<Idx(Done)>>) = <<>>
    OBVIOUS
  <2>2. CASE out' = out
    BY <2>2 DEF OnlyGoodbye
  <2>3. CASE out # <<>> /\ out' = Tail(out)
    <3>1. main' = main /\ gen' = gen /\ ~(gen = "ok" /\ main \in {"wait", "report", "goodbye"})
      BY <2>3 DEF OnlyGoodbye
    <3>2. main = "ok" => out' = <<>>
      <4>1. main = "ok" => out = <<Idx(Done)>>
        BY <2>3 DEF OnlyGoodbye
      <4> QED BY <2>1, <2>3, <4>1
    <3> QED BY <1>1, <3>1, <3>2 DEF OnlyGoodbye
  <2> QED BY <2>2, <2>3
<1>7. CASE Peer
  <2>1. main' = main /\ gen' = gen
    BY <1>7, Sides DEF Peer, PeerReadIdx, PeerReadHead, PeerReadSum, PeerReadBye, PeerVanish,
       PeerSend, PeerLeaves, mainVars, genVars
  <2>2. out' = out \/ (out # <<>> /\ out' = Tail(out))
    BY <1>7 DEF Peer, PeerReadIdx, PeerReadHead, PeerReadSum, PeerReadBye, PeerVanish, PeerSend,
       PeerLeaves, PeerRead
  <2> QED BY <1>6, <2>1, <2>2
<1>8. CASE UNCHANGED <<mainVars, genVars, out>>
  BY <1>6, <1>8 DEF mainVars, genVars
<1>9. CASE Put
  BY <1>8, <1>9 DEF Put, PutStart, PutRead, PutStore, PutFails
<1>10. CASE \E f \in Regular : Edit(f)
  BY <1>8, <1>10 DEF Edit
<1>11. CASE RecvFiles
  BY <1>8, <1>11 DEF RecvFiles, RecvIdx, RecvOpen, RecvHead, RecvData, RecvRef, RecvWritten, RecvEnd,
     RecvWait, RecvSum, RecvReadErr
<1> QED
  BY <1>2, <1>3, <1>4, <1>5, <1>7, <1>8, <1>9, <1>10, <1>11 DEF Next, Moves, Main, PeerCrash, vars

(* The messages that follow the last index of a phase: a goodbye or an     *)
(* error, after which there are only errors.                               *)
LEMMA PathFromBye ==
  ASSUME NEW q \in Seq(Msg), NEW a, NEW b, a.at = "bye", Path(OutPlace, OutSteps, a, q, b)
  PROVE  b.at = IF q = <<>> THEN "bye" ELSE "over"
<1> DEFINE n == Len(q)
<1>1. n \in Nat /\ (q = <<>> <=> n = 0)
  BY LenProperties, EmptySeq
<1>2. PICK p \in [0 .. n -> OutPlace] :
        /\ p[0] = a /\ p[n] = b
        /\ \A i \in 1 .. n : <<p[i - 1], q[i], p[i]>> \in OutSteps
  BY DEF Path
<1> HIDE DEF n
<1> DEFINE S == {i \in 0 .. n : i # 0 => p[i].at = "over"}
<1>3. 0 \in S
  BY <1>1
<1>4. ASSUME NEW i \in 1 .. n, i - 1 \in S PROVE i \in S
  <2>1. OutStep(p[i - 1], q[i], p[i])
    BY <1>2 DEF OutSteps
  <2>2. p[i - 1].at \in {"bye", "over"}
    BY <1>1, <1>2, <1>4
  <2>3. p[i - 1] \in OutPlace
    BY <1>1, <1>2, <1>4
  <2>4. p[i].at = "over"
    <3>1. [p[i - 1] EXCEPT !.at = "over"].at = "over"
      BY <2>3 DEF OutPlace
    <3> QED BY <2>1, <2>2, <3>1 DEF OutStep
  <2> QED BY <2>4, <1>1
<1>5. \A i \in 1 .. n : i - 1 \in S => i \in S
  BY <1>4
<1> HIDE DEF S
<1>6. \A i \in 0 .. n : i \in S
  BY <1>1, <1>3, <1>5, UpTo
<1> QED BY <1>1, <1>2, <1>6 DEF S

(* The sender that has read the end of the second phase finds nothing more *)
(* before it has answered it.                                              *)
LEMMA NothingBehindTheEnd ==
  ASSUME TypeOK, OutInv, SideInv, peer = "final"
  PROVE  OnlyGoodbye
<1>1. /\ ControlInv /\ ~PeerGone /\ Past /\ main # "ok"
  BY DEF SideInv, ControlInv, PeerInv, RecvInv, FinalSent, PeerGone
<1>2. PICK x \in OutPlace : Path(OutPlace, OutSteps, OutFrom, out, x) /\ OutTo(x)
  BY <1>1 DEF OutInv
<1>3. OutFrom.at = "bye" /\ out \in Seq(Msg)
  BY DEF OutFrom, TypeOK
<1>4. x.at = IF out = <<>> THEN "bye" ELSE "over"
  BY <1>2, <1>3, PathFromBye
<1>5. gen # "phase1" /\ (gen = "ok" /\ main \in {"wait", "report", "goodbye"} => out = <<>>)
  BY <1>2, <1>4 DEF OutTo
<1> QED BY <1>1, <1>5 DEF OnlyGoodbye, Past

(* What the sender has skipped, answered or finished stays so.             *)
LEMMA AnswersGrow ==
  ASSUME TypeOK, Placed, OutInv, ControlInv, RequestInv, PeerInv, [Next]_vars
  PROVE  /\ vanished \subseteq vanished' /\ Answered \subseteq Answered'
         /\ PeerGone => PeerGone'
         /\ (AckSent => AckSent') /\ (FinalSent => FinalSent')
<1>1. /\ requested \subseteq requested' /\ (Past => Past') /\ (OnlyGoodbye => OnlyGoodbye')
      /\ requested \subseteq File /\ peerCur \in File \cup {Done}
  BY RequestsGrow, OnlyGoodbyeStays DEF TypeOK, StoreTypes, PeerTypes
<1>2. CASE UNCHANGED <<peer, peerCur, peerPhase, vanished>>
  BY <1>1, <1>2 DEF Answered, PeerGone, AckSent, FinalSent, NotYet
<1>3. CASE PeerReadIdx
  <2>1. peer = "idx" /\ UNCHANGED <<peerPhase, vanished>> /\ peer' \in {"ack", "final", "echo", "head"}
    BY <1>3 DEF PeerReadIdx, histVars
  <2>2. \/ peerCur' = peerCur /\ peer' \in {"ack", "final"}
        \/ peerCur' \in requested /\ peerCur < peerCur'
    BY <1>3, IdxRead
  <2>3. \A e \in Answered : e <= peerCur' /\ (NotYet' => e # peerCur')
    <3>1. \A e \in Answered : e \in Int /\ e <= peerCur
      BY <1>1, Indices DEF Answered
    <3>2. peerCur \in Int /\ peerCur' \in Int
      BY <1>1, <2>2, Indices
    <3>3. CASE peerCur' = peerCur /\ peer' \in {"ack", "final"}
      BY <3>1, <3>3 DEF NotYet
    <3>4. CASE peerCur < peerCur'
      BY <3>1, <3>2, <3>4
    <3> QED BY <2>2, <3>3, <3>4
  <2> QED BY <1>1, <2>1, <2>3 DEF Answered, PeerGone, AckSent, FinalSent
<1>4. CASE PeerVanish
  BY <1>1, <1>4 DEF PeerVanish, Answered, PeerGone, AckSent, FinalSent, NotYet
<1>5. CASE PeerSend
  BY <1>1, <1>5 DEF PeerSend, PeerSays, Answered, PeerGone, AckSent, FinalSent, NotYet, histVars
<1>6. CASE PeerReadHead \/ PeerReadSum
  BY <1>1, <1>6 DEF PeerReadHead, PeerReadSum, Answered, PeerGone, AckSent, FinalSent, NotYet, histVars
<1>7. CASE PeerReadBye \/ PeerLeaves \/ PeerCrash
  BY <1>1, <1>7 DEF PeerReadBye, PeerLeaves, PeerCrash, Answered, PeerGone, AckSent, FinalSent,
     NotYet, histVars
<1> QED
  BY <1>2, <1>3, <1>4, <1>5, <1>6, <1>7, Sides DEF Peer, peerVars, histVars, vars

(* So every step under way remains a step.                                 *)
LEMMA OutStepsGrow ==
  ASSUME TypeOK, TypeOK', ControlInv, RequestInv, [Next]_vars
  PROVE  OutSteps \subseteq OutSteps'
<1>1. /\ requested \subseteq requested' /\ requested \subseteq Int
      /\ \A e \in requested' : e \in requested \/ \A r \in requested : r < e
      /\ (Past => requested' = requested /\ Past') /\ UNCHANGED opts
  BY RequestsGrow, Sides, Indices DEF TypeOK, StoreTypes
<1>2. requested' \subseteq Int
  BY Indices DEF TypeOK, StoreTypes
<1>3. ASSUME NEW x \in OutPlace, NEW m \in Msg, NEW y \in OutPlace, OutStep(x, m, y)
      PROVE  OutStep(x, m, y)'
  <2>1. m.t = "idx" /\ m.v \in requested /\ (\A e \in requested : e <= x.file \/ m.v <= e)
        => \A e \in requested' : e <= x.file \/ m.v <= e
    <3> SUFFICES ASSUME m.v \in requested, NEW e \in requested',
                        \A f \in requested : f <= x.file \/ m.v <= f
                 PROVE  e <= x.file \/ m.v <= e
      OBVIOUS
    <3>1. m.v \in Int /\ e \in Int
      BY <1>1, <1>2
    <3>2. CASE e \in requested
      BY <3>2
    <3>3. CASE \A f \in requested : f < e
      <4>1. m.v < e
        BY <3>3
      <4> QED BY <3>1, <4>1
    <3> QED BY <1>1, <3>2, <3>3
  <2>2. Past /\ (\A e \in requested : e <= x.file) => Past' /\ \A e \in requested' : e <= x.file
    BY <1>1
  <2> QED BY <1>1, <1>3, <2>1, <2>2 DEF OutStep
<1> QED BY <1>3 DEF OutSteps

(* The same for the answers.                                               *)
LEMMA InStepsGrow ==
  ASSUME TypeOK, TypeOK', Placed, OutInv, ControlInv, RequestInv, PeerInv, [Next]_vars
  PROVE  InSteps \subseteq InSteps'
<1>1. /\ requested \subseteq requested' /\ requested \subseteq Int
      /\ \A e \in requested' : e \in requested \/ \A r \in requested : r < e
      /\ (Past => requested' = requested /\ Past') /\ UNCHANGED opts
  BY RequestsGrow, Sides, Indices DEF TypeOK, StoreTypes
<1>2. requested' \subseteq Int
  BY Indices DEF TypeOK, StoreTypes
<1>3. /\ vanished \subseteq vanished' /\ Answered \subseteq Answered'
      /\ (AckSent => AckSent') /\ (FinalSent => FinalSent')
  BY AnswersGrow
<1>4. ASSUME NEW x \in InPlace, NEW m \in Msg, NEW y \in InPlace, InStep(x, m, y)
      PROVE  InStep(x, m, y)'
  <2>1. m.v \in Answered /\ (\A e \in requested : x.file < e /\ e < m.v => Skipped(e))
        => \A e \in requested' : x.file < e /\ e < m.v => Skipped(e)'
    <3> SUFFICES ASSUME m.v \in Answered, NEW e \in requested', x.file < e, e < m.v,
                        \A f \in requested : x.file < f /\ f < m.v => Skipped(f)
                 PROVE  Skipped(e)'
      OBVIOUS
    <3>1. m.v \in requested /\ m.v \in Int /\ e \in Int
      BY <1>1, <1>2 DEF Answered
    <3>2. e \in requested
      BY <1>1, <3>1
    <3>3. Skipped(e)
      BY <3>2
    <3> QED BY <1>3, <3>3 DEF Skipped
  <2>2. AckSent /\ (\A e \in requested : x.file < e => Skipped(e))
        => \A e \in requested' : x.file < e => Skipped(e)'
    BY <1>1, <1>3 DEF Skipped, AckSent
  <2> QED BY <1>1, <1>3, <1>4, <2>1, <2>2 DEF InStep
<1> QED BY <1>4 DEF InSteps

-----------------------------------------------------------------------------
(* The path from the generator to the sender is kept: by what leaves it    *)
(* alone, what appends to it and what reads from it.                       *)

(* A step that leaves the connection and both ends alone.                  *)
LEMMA OutStays ==
  ASSUME OutInv, OutSteps \subseteq OutSteps', PeerGone => PeerGone',
         UNCHANGED out, OutFrom' = OutFrom, \A x \in OutPlace : OutTo(x) => OutTo(x)'
  PROVE  OutInv'
<1> SUFFICES ASSUME ~PeerGone'
             PROVE  \E x \in OutPlace : Path(OutPlace, OutSteps', OutFrom', out', x) /\ OutTo(x)'
  BY DEF OutInv
<1>1. PICK x \in OutPlace : Path(OutPlace, OutSteps, OutFrom, out, x) /\ OutTo(x)
  BY DEF OutInv
<1>2. Path(OutPlace, OutSteps', OutFrom, out, x)
  BY <1>1, PathMore
<1> QED BY <1>1, <1>2

(* A step that writes a message.                                           *)
LEMMA OutWrites ==
  ASSUME TypeOK, OutInv, OutSteps \subseteq OutSteps', PeerGone => PeerGone',
         NEW m \in Msg, out' = Append(out, m), OutFrom' = OutFrom,
         \A x \in OutPlace : OutTo(x) => \E y \in OutPlace : <<x, m, y>> \in OutSteps' /\ OutTo(y)'
  PROVE  OutInv'
<1> SUFFICES ASSUME ~PeerGone'
             PROVE  \E x \in OutPlace : Path(OutPlace, OutSteps', OutFrom', out', x) /\ OutTo(x)'
  BY DEF OutInv
<1>1. PICK x \in OutPlace : Path(OutPlace, OutSteps, OutFrom, out, x) /\ OutTo(x)
  BY DEF OutInv
<1>2. Path(OutPlace, OutSteps', OutFrom, out, x)
  BY <1>1, PathMore
<1>3. PICK y \in OutPlace : <<x, m, y>> \in OutSteps' /\ OutTo(y)'
  BY <1>1
<1>4. Path(OutPlace, OutSteps', OutFrom, Append(out, m), y)
  BY <1>2, <1>3, PathWrite DEF TypeOK
<1> QED BY <1>3, <1>4

(* A step that reads one, and thereby goes where the message leads.        *)
LEMMA OutReadsOn ==
  ASSUME TypeOK, OutInv, OutSteps \subseteq OutSteps', ~PeerGone, out # <<>>, out' = Tail(out),
         \A y \in OutPlace : OutStep(OutFrom, Head(out), y) => OutFrom' = y,
         \A x \in OutPlace : OutTo(x) => OutTo(x)'
  PROVE  OutInv'
<1> SUFFICES \E x \in OutPlace : Path(OutPlace, OutSteps', OutFrom', out', x) /\ OutTo(x)'
  BY DEF OutInv
<1>1. PICK y \in OutPlace, x \in OutPlace :
        /\ OutStep(OutFrom, Head(out), y)
        /\ Path(OutPlace, OutSteps, y, Tail(out), x) /\ OutTo(x)
  BY OutReads
<1>2. OutFrom' = y
  BY <1>1
<1>3. Path(OutPlace, OutSteps', y, Tail(out), x)
  BY <1>1, PathMore
<1> QED BY <1>1, <1>2, <1>3

(* The same from the sender to the receiver.                               *)

(* A step that leaves this direction alone.                                *)
LEMMA InStays ==
  ASSUME InInv, InSteps \subseteq InSteps', Reading' => Reading, PeerGone => PeerGone',
         UNCHANGED in, Reading' => InFrom' = InFrom,
         ~PeerGone' => \A x \in InPlace : InTo(x) => InTo(x)'
  PROVE  InInv'
<1> SUFFICES ASSUME Reading'
             PROVE  \E x \in InPlace : Path(InPlace, InSteps', InFrom', in', x)
                                       /\ (~PeerGone' => InTo(x)')
  BY DEF InInv
<1>1. PICK x \in InPlace : Path(InPlace, InSteps, InFrom, in, x) /\ (~PeerGone => InTo(x))
  BY DEF InInv
<1>2. Path(InPlace, InSteps', InFrom, in, x)
  BY <1>1, PathMore
<1> QED BY <1>1, <1>2

(* A step of the sender that writes.                                       *)
LEMMA InWrites ==
  ASSUME TypeOK, InInv, InSteps \subseteq InSteps', Reading' => Reading, ~PeerGone,
         NEW m \in Msg, in' = Append(in, m), InFrom' = InFrom,
         \A x \in InPlace : InTo(x) => \E y \in InPlace : <<x, m, y>> \in InSteps' /\ InTo(y)'
  PROVE  InInv'
<1> SUFFICES ASSUME Reading'
             PROVE  \E x \in InPlace : Path(InPlace, InSteps', InFrom', in', x)
                                       /\ (~PeerGone' => InTo(x)')
  BY DEF InInv
<1>1. PICK x \in InPlace : Path(InPlace, InSteps, InFrom, in, x) /\ InTo(x)
  BY DEF InInv
<1>2. Path(InPlace, InSteps', InFrom, in, x)
  BY <1>1, PathMore
<1>3. PICK y \in InPlace : <<x, m, y>> \in InSteps' /\ InTo(y)'
  BY <1>1
<1>4. Path(InPlace, InSteps', InFrom, Append(in, m), y)
  BY <1>2, <1>3, PathWrite DEF TypeOK
<1> QED BY <1>3, <1>4

(* A step of ours that reads.                                              *)
LEMMA InReadsOn ==
  ASSUME TypeOK, InInv, InSteps \subseteq InSteps', Reading, PeerGone => PeerGone',
         in # <<>>, in' = Tail(in),
         \A y \in InPlace : InStep(InFrom, Head(in), y) => (Reading' => InFrom' = y),
         ~PeerGone' => \A x \in InPlace : InTo(x) => InTo(x)'
  PROVE  InInv'
<1> SUFFICES ASSUME Reading'
             PROVE  \E x \in InPlace : Path(InPlace, InSteps', InFrom', in', x)
                                       /\ (~PeerGone' => InTo(x)')
  BY DEF InInv
<1>1. PICK y \in InPlace, x \in InPlace :
        /\ InStep(InFrom, Head(in), y)
        /\ Path(InPlace, InSteps, y, Tail(in), x) /\ (~PeerGone => InTo(x))
  BY InReads
<1>2. InFrom' = y
  BY <1>1
<1>3. Path(InPlace, InSteps', y, Tail(in), x)
  BY <1>1, PathMore
<1> QED BY <1>1, <1>2, <1>3

(* Each write of the generator is a step from where it is.                 *)
LEMMA OutGenerator ==
  ASSUME TypeOK, TypeOK', Placed, ControlInv, RequestInv, OutInv, OutSteps \subseteq OutSteps', Generator,
         UNCHANGED <<opts, main, peerVars>>
  PROVE  OutInv'
<1>1. UNCHANGED <<OutFrom, PeerGone>>
  BY DEF peerVars, OutFrom, PeerGone
<1>2. main = "wait" /\ main' = "wait"
  BY DEF ControlInv, Generator, GenSkip, GenRequest, GenHead, GenSum, GenReadFails, GenPhase
<1>3. /\ genIdx \in Int /\ genSum \in Int /\ requested \subseteq Int /\ requested' \subseteq Int
      /\ \A x \in OutPlace : x.file \in Int /\ x.left \in Nat /\ x.done \in 0 .. 2
  <2>1. \A x \in OutPlace : x.file \in Int /\ x.left \in Nat /\ x.done \in 0 .. 2
    BY Indices DEF OutPlace
  <2>2. genIdx \in Int /\ genSum \in Int
    BY ReceiverAssumption DEF TypeOK, GenTypes
  <2> QED BY <2>1, <2>2, Indices DEF TypeOK, StoreTypes
<1>4. ASSUME gen' = "err", UNCHANGED out PROVE OutInv'
  BY <1>1, <1>2, <1>4, OutStays DEF OutTo
<1>5. CASE GenSkip
  <2>1. \A x \in OutPlace : OutTo(x) => OutTo(x)'
    BY <1>2, <1>3, <1>5 DEF GenSkip, OutTo, histVars
  <2> QED BY <1>1, <1>5, <2>1, OutStays DEF GenSkip
<1>6. CASE GenReadFails
  BY <1>4, <1>6 DEF GenReadFails
<1>7. CASE GenRequest
  <2>1. CASE gen' = "err"
    BY <1>4, <1>7, <2>1 DEF GenRequest, WriteErr
  <2>2. CASE gen' # "err"
    <3>1. /\ gen = "next" /\ genIdx \in File /\ requested' = requested \cup {genIdx}
          /\ out' = Append(out, Idx(genIdx))
          /\ IF opts.DryRun THEN gen' = "next" /\ genIdx' = genIdx + 1
             ELSE gen' = "head" /\ genIdx' = genIdx
      BY <1>7, <2>2, ReceiverAssumption DEF GenRequest, WriteOK
    <3>2. Idx(genIdx) \in Msg /\ Idx(genIdx).t = "idx" /\ Idx(genIdx).v = genIdx
      BY <3>1, MsgMade DEF Idx
    <3>3. ASSUME NEW x \in OutPlace, OutTo(x), NEW y \in OutPlace,
                 y = [x EXCEPT !.at = IF opts.DryRun THEN "idx" ELSE "head", !.file = genIdx]
          PROVE  <<x, Idx(genIdx), y>> \in OutSteps' /\ OutTo(y)'
      <4>1. x.at = "idx" /\ x.done = 0 /\ x.left = 0 /\ x.file < genIdx /\ \A e \in requested : e <= x.file
        BY <3>1, <3>3 DEF OutTo
      <4>2. y.file = genIdx /\ y.at = (IF opts.DryRun THEN "idx" ELSE "head") /\ y.done = 0 /\ y.left = 0
        BY <3>3, <4>1 DEF OutPlace
      <4>3. \A e \in requested' : e <= x.file \/ genIdx <= e
        BY <1>3, <3>1, <4>1
      <4>4. <<x, Idx(genIdx), y>> \in OutSteps'
        BY <3>1, <3>2, <3>3, <4>1, <4>3 DEF OutSteps, OutStep
      <4>5. \A e \in requested' : e <= genIdx
        BY <1>3, <3>1, <4>1
      <4>6. genIdx < genIdx + 1
        BY <1>3
      <4>7. OutTo(y)'
        BY <1>2, <3>1, <4>2, <4>5, <4>6 DEF OutTo
      <4> QED BY <4>4, <4>7
    <3>4. \A x \in OutPlace : [x EXCEPT !.at = IF opts.DryRun THEN "idx" ELSE "head", !.file = genIdx] \in OutPlace
      BY <3>1 DEF OutPlace
    <3>5. \A x \in OutPlace : OutTo(x) => \E y \in OutPlace : <<x, Idx(genIdx), y>> \in OutSteps' /\ OutTo(y)'
      BY <3>3, <3>4
    <3> QED BY <1>1, <3>1, <3>2, <3>5, OutWrites
  <2> QED BY <2>1, <2>2
<1>8. CASE GenHead
  <2>1. CASE gen' = "err"
    BY <1>4, <1>8, <2>1 DEF GenHead, WriteErr
  <2>2. CASE gen' # "err"
    <3> DEFINE n == Blocks(genSnap)
               m == SumHead(n)
    <3>1. /\ gen = "head" /\ out' = Append(out, m) /\ genSum' = 1
          /\ UNCHANGED <<genSnap, requested>>
          /\ IF n = 0 THEN gen' = "next" /\ genIdx' = genIdx + 1
             ELSE gen' = "sums" /\ genIdx' = genIdx
      BY <1>8, <2>2 DEF GenHead, WriteOK, histVars
    <3>2. n \in Nat /\ m \in Msg /\ m.t = "head" /\ m.v = n /\ Blocks(genSnap)' = n
      BY <3>1, MsgMade, Contents DEF Blocks, SumHead, TypeOK, GenTypes
    <3> HIDE DEF n, m
    <3>3. ASSUME NEW x \in OutPlace, OutTo(x), NEW y \in OutPlace,
                 y = [x EXCEPT !.at = IF n = 0 THEN "idx" ELSE "sums", !.left = n]
          PROVE  <<x, m, y>> \in OutSteps' /\ OutTo(y)'
      <4>1. x.at = "head" /\ x.file = genIdx /\ x.done = 0
        BY <3>1, <3>3 DEF OutTo
      <4>2. y.file = genIdx /\ y.at = (IF n = 0 THEN "idx" ELSE "sums") /\ y.done = 0 /\ y.left = n
        BY <3>3, <4>1 DEF OutPlace
      <4>3. <<x, m, y>> \in OutSteps
        BY <3>2, <3>3, <4>1 DEF OutSteps, OutStep
      <4>4. \A e \in requested' : e <= genIdx
        BY <3>1 DEF RequestInv
      <4>5. genIdx < genIdx + 1 /\ n - 1 + 1 = n /\ (n # 0 => n > 0)
        BY <1>3, <3>2
      <4>6. OutTo(y)'
        BY <1>2, <3>1, <3>2, <4>2, <4>4, <4>5 DEF OutTo
      <4> QED BY <4>3, <4>6
    <3>4. \A x \in OutPlace : [x EXCEPT !.at = IF n = 0 THEN "idx" ELSE "sums", !.left = n] \in OutPlace
      BY <3>2 DEF OutPlace
    <3>5. \A x \in OutPlace : OutTo(x) => \E y \in OutPlace : <<x, m, y>> \in OutSteps' /\ OutTo(y)'
      BY <3>3, <3>4
    <3> QED BY <1>1, <3>1, <3>2, <3>5, OutWrites
  <2> QED BY <2>1, <2>2
<1>9. CASE GenSum
  <2>1. CASE gen' = "err"
    BY <1>4, <1>9, <2>1 DEF GenSum, WriteErr
  <2>2. CASE gen' # "err"
    <3> DEFINE m == BlockSum(View(genSnap, genIdx)[genSum])
               b == Blocks(genSnap)
    <3>1. /\ gen = "sums" /\ out' = Append(out, m) /\ genSum' = genSum + 1
          /\ UNCHANGED <<genSnap, requested>>
          /\ IF genSum = b THEN gen' = "next" /\ genIdx' = genIdx + 1
             ELSE gen' = "sums" /\ genIdx' = genIdx
      BY <1>9, <2>2 DEF GenSum, WriteOK, histVars
    <3>2. m \in Msg /\ m.t = "sum"
      <4>1. genIdx \in File
        BY <3>1 DEF Placed, GenPlaced
      <4>2. View(genSnap, genIdx) \in Content
        BY <3>1, <4>1 DEF View, TypeOK, GenTypes, StoreTypes, Placed, GenPlaced
      <4>3. View(genSnap, genIdx)[genSum] \in Chunk
        BY <1>9, <4>2, Contents DEF GenSum, TypeOK, GenTypes
      <4> QED BY <4>3, MsgMade DEF BlockSum
    <3>3. Blocks(genSnap)' = b /\ b \in Nat
      BY <3>1, Contents DEF Blocks, TypeOK, GenTypes
    <3>4. \A x \in OutPlace : OutTo(x) => x.left = b - genSum + 1
      BY <3>1 DEF OutTo
    <3> HIDE DEF m, b
    <3>5. ASSUME NEW x \in OutPlace, OutTo(x), NEW y \in OutPlace,
                 y = [x EXCEPT !.at = IF x.left = 1 THEN "idx" ELSE "sums", !.left = x.left - 1]
          PROVE  <<x, m, y>> \in OutSteps' /\ OutTo(y)'
      <4>1. x.at = "sums" /\ x.file = genIdx /\ x.done = 0 /\ x.left > 0 /\ x.left = b - genSum + 1
        BY <3>1, <3>4, <3>5 DEF OutTo
      <4>2. y.file = genIdx /\ y.at = (IF x.left = 1 THEN "idx" ELSE "sums") /\ y.done = 0
            /\ y.left = x.left - 1
        BY <3>5, <4>1 DEF OutPlace
      <4>3. <<x, m, y>> \in OutSteps
        BY <3>2, <3>5, <4>1 DEF OutSteps, OutStep
      <4>4. \A e \in requested' : e <= genIdx
        BY <3>1 DEF RequestInv
      <4>5. x.left = 1 <=> genSum = b
        BY <1>3, <3>3, <4>1
      <4>6. x.left - 1 = b - (genSum + 1) + 1 /\ genIdx < genIdx + 1
        BY <1>3, <3>3, <4>1
      <4>7. (x.left # 1 => x.left - 1 > 0) /\ (x.left = 1 => x.left - 1 = 0)
        BY <1>3, <4>1
      <4>8. OutTo(y)'
        BY <1>2, <3>1, <3>3, <4>2, <4>4, <4>5, <4>6, <4>7 DEF OutTo
      <4> QED BY <3>5, <4>3, <4>8
    <3>6. ASSUME NEW x \in OutPlace, OutTo(x)
          PROVE [x EXCEPT !.at = IF x.left = 1 THEN "idx" ELSE "sums", !.left = x.left - 1] \in OutPlace
      <4>1. x.left - 1 \in Nat
        BY <1>3, <3>1, <3>6 DEF OutTo
      <4> QED BY <4>1 DEF OutPlace
    <3>7. \A x \in OutPlace : OutTo(x) => \E y \in OutPlace : <<x, m, y>> \in OutSteps' /\ OutTo(y)'
      BY <3>5, <3>6
    <3> QED BY <1>1, <3>1, <3>2, <3>7, OutWrites
  <2> QED BY <2>1, <2>2
<1>10. CASE GenPhase
  <2>1. CASE gen' = "err"
    BY <1>4, <1>10, <2>1 DEF GenPhase, WriteErr
  <2>2. CASE gen' # "err"
    <3>1. /\ gen \in {"next", "phase1"} /\ out' = Append(out, Idx(Done))
          /\ UNCHANGED <<requested, genIdx>> /\ gen' = (IF gen = "next" THEN "phase1" ELSE "ok")
      BY <1>10, <2>2 DEF GenPhase, WriteOK, histVars
    <3>2. Past' /\ Idx(Done) \in Msg
      BY <3>1, MsgMade DEF Past
    <3>3. ASSUME NEW x \in OutPlace, OutTo(x), NEW y \in OutPlace,
                 y = [x EXCEPT !.at = IF x.done = 0 THEN "idx" ELSE "bye", !.done = x.done + 1]
          PROVE  <<x, Idx(Done), y>> \in OutSteps' /\ OutTo(y)'
      <4>1. /\ x.at = "idx" /\ x.done = (IF gen = "next" THEN 0 ELSE 1)
            /\ \A e \in requested' : e <= x.file
        BY <3>1, <3>3 DEF OutTo
      <4>2. y.file = x.file /\ y.at = (IF x.done = 0 THEN "idx" ELSE "bye") /\ y.done = x.done + 1
        BY <3>3, <4>1 DEF OutPlace
      <4>3. x.done < 2
        BY <4>1
      <4>4. <<x, Idx(Done), y>> \in OutSteps'
        BY <3>2, <3>3, <4>1, <4>3 DEF OutSteps, OutStep
      <4>5. OutTo(y)'
        BY <1>2, <3>1, <4>1, <4>2 DEF OutTo
      <4> QED BY <4>4, <4>5
    <3>4. ASSUME NEW x \in OutPlace, OutTo(x)
          PROVE [x EXCEPT !.at = IF x.done = 0 THEN "idx" ELSE "bye", !.done = x.done + 1] \in OutPlace
      <4>1. x.done + 1 \in 0 .. 2
        BY <3>1, <3>4 DEF OutTo
      <4> QED BY <4>1 DEF OutPlace
    <3>5. \A x \in OutPlace : OutTo(x) => \E y \in OutPlace : <<x, Idx(Done), y>> \in OutSteps' /\ OutTo(y)'
      BY <3>3, <3>4
    <3> QED BY <1>1, <3>1, <3>2, <3>5, OutWrites
  <2> QED BY <2>1, <2>2
<1> QED BY <1>5, <1>6, <1>7, <1>8, <1>9, <1>10 DEF Generator
(* What the sender reads is the step it takes.                             *)
LEMMA OutPeer ==
  ASSUME TypeOK, TypeOK', OutInv, OutSteps \subseteq OutSteps', Peer \/ PeerCrash,
         UNCHANGED <<opts, main, genVars, requested>>
  PROVE  OutInv'
<1>1. \A x \in OutPlace : OutTo(x) => OutTo(x)'
  BY DEF OutTo, genVars, Blocks
<1>2. CASE PeerReadBye \/ PeerLeaves \/ PeerCrash
  BY <1>2 DEF PeerReadBye, PeerLeaves, PeerCrash, OutInv, PeerGone
<1>3. CASE PeerVanish \/ PeerSend
  <2>1. UNCHANGED out /\ ~PeerGone /\ ~PeerGone'
    BY <1>3 DEF PeerVanish, PeerSend, PeerSays, PeerGone
  <2>2. OutFrom' = OutFrom
    BY <1>3 DEF PeerVanish, PeerSend, PeerSays, OutFrom
  <2> QED BY <1>1, <2>1, <2>2, OutStays
<1>4. CASE PeerReadIdx
  <2>1. /\ peer = "idx" /\ out # <<>> /\ Head(out).t = "idx" /\ out' = Tail(out) /\ ~PeerGone
        /\ UNCHANGED <<peerPhase, peerNeed>>
    BY <1>4 DEF PeerReadIdx, PeerRead, PeerGone
  <2>2. ASSUME NEW y \in OutPlace, OutStep(OutFrom, Head(out), y) PROVE OutFrom' = y
    <3>1. OutFrom = [at |-> "idx", file |-> peerCur, left |-> 0, done |-> peerPhase]
      BY <2>1 DEF OutFrom
    <3>2. Head(out) # ErrorMsg /\ Done \notin requested
      BY <2>1, Indices DEF ErrorMsg, TypeOK, StoreTypes
    <3>3. CASE Head(out).v = Done
      <4>1. y = [at |-> IF peerPhase = 0 THEN "idx" ELSE "bye", file |-> peerCur, left |-> 0,
                 done |-> peerPhase + 1]
        BY <2>1, <2>2, <3>1, <3>2, <3>3 DEF OutStep
      <4>2. peerCur' = peerCur /\ peer' = (IF peerPhase = 0 THEN "ack" ELSE "final")
        BY <1>4, <3>3 DEF PeerReadIdx
      <4> QED BY <2>1, <4>1, <4>2 DEF OutFrom, TypeOK, PeerTypes
    <3>4. CASE Head(out).v # Done
      <4>1. y = [at |-> IF opts.DryRun THEN "idx" ELSE "head", file |-> Head(out).v, left |-> 0,
                 done |-> peerPhase]
        <5>1. Head(out) # Idx(Done)
          BY <3>4 DEF Idx
        <5>2. y = [OutFrom EXCEPT !.at = IF opts.DryRun THEN "idx" ELSE "head", !.file = Head(out).v]
          BY <2>1, <2>2, <3>1, <3>2, <5>1 DEF OutStep
        <5> QED BY <3>1, <5>2
      <4>2. peerCur' = Head(out).v /\ peer' = (IF opts.DryRun THEN "echo" ELSE "head")
        BY <1>4, <3>4 DEF PeerReadIdx
      <4> QED BY <2>1, <4>1, <4>2 DEF OutFrom
    <3> QED BY <3>3, <3>4
  <2> QED BY <1>1, <2>1, <2>2, OutReadsOn
<1>5. CASE PeerReadHead
  <2>1. /\ peer = "head" /\ out # <<>> /\ Head(out).t = "head" /\ out' = Tail(out) /\ ~PeerGone
        /\ UNCHANGED <<peerPhase, peerCur>> /\ peerNeed' = Head(out).v
        /\ peer' = IF Head(out).v = 0 THEN "answer" ELSE "sums"
    BY <1>5 DEF PeerReadHead, PeerRead, PeerGone
  <2>2. ASSUME NEW y \in OutPlace, OutStep(OutFrom, Head(out), y) PROVE OutFrom' = y
    <3>1. OutFrom = [at |-> "head", file |-> peerCur, left |-> 0, done |-> peerPhase]
      BY <2>1 DEF OutFrom
    <3>2. Head(out) # ErrorMsg
      BY <2>1 DEF ErrorMsg
    <3>3. y = [at |-> IF Head(out).v = 0 THEN "idx" ELSE "sums", file |-> peerCur,
               left |-> Head(out).v, done |-> peerPhase]
      BY <2>2, <3>1, <3>2 DEF OutStep
    <3> QED BY <2>1, <3>3 DEF OutFrom
  <2> QED BY <1>1, <2>1, <2>2, OutReadsOn
<1>6. CASE PeerReadSum
  <2>1. /\ peer = "sums" /\ out # <<>> /\ Head(out).t = "sum" /\ out' = Tail(out) /\ ~PeerGone
        /\ UNCHANGED <<peerPhase, peerCur>> /\ peerNeed' = peerNeed - 1
        /\ peer' = IF peerNeed = 1 THEN "answer" ELSE "sums"
    BY <1>6 DEF PeerReadSum, PeerRead, PeerGone
  <2>2. ASSUME NEW y \in OutPlace, OutStep(OutFrom, Head(out), y) PROVE OutFrom' = y
    <3>1. OutFrom = [at |-> "sums", file |-> peerCur, left |-> peerNeed, done |-> peerPhase]
      BY <2>1 DEF OutFrom
    <3>2. Head(out) # ErrorMsg
      BY <2>1 DEF ErrorMsg
    <3>3. y = [at |-> IF peerNeed = 1 THEN "idx" ELSE "sums", file |-> peerCur,
               left |-> peerNeed - 1, done |-> peerPhase]
      BY <2>2, <3>1, <3>2 DEF OutStep
    <3>4. peerNeed = 1 => peerNeed - 1 = 0
      OBVIOUS
    <3> QED BY <2>1, <3>3, <3>4 DEF OutFrom
  <2> QED BY <1>1, <2>1, <2>2, OutReadsOn
<1> QED BY <1>2, <1>3, <1>4, <1>5, <1>6 DEF Peer

(* Do says goodbye, or that it failed, only after the generator.           *)
LEMMA OutMain ==
  ASSUME TypeOK, TypeOK', ControlInv, OutInv, OutSteps \subseteq OutSteps', Main \/ Select \/ CloseConn,
         UNCHANGED <<opts, peerVars, histVars>>
  PROVE  OutInv'
<1>1. UNCHANGED <<OutFrom, PeerGone, requested>>
  BY DEF peerVars, histVars, OutFrom, PeerGone
<1>2. CASE DoWait \/ DoReport \/ Select \/ CloseConn
  <2>1. UNCHANGED <<out, genVars>> /\ \/ main' = main
                                      \/ main = "wait" /\ main' \in {"senderr", "report", "goodbye"}
                                      \/ main = "report" /\ main' \in {"senderr", "goodbye"}
    BY <1>2 DEF DoWait, DoReport, Select, SelectCtx, SelectRecv, CloseConn
  <2>2. \A x \in OutPlace : OutTo(x) => OutTo(x)'
    BY <1>1, <2>1 DEF OutTo, genVars, Blocks
  <2> QED BY <1>1, <2>1, <2>2, OutStays
<1>3. CASE DoStart
  <2>1. /\ main = "delete" /\ gen = "idle" /\ UNCHANGED <<out, genIdx, genSnap, genSum>>
        /\ \/ main' = "wait" /\ gen' = "next"
           \/ main' = "senderr" /\ gen' = "idle"
    BY <1>3 DEF DoStart, ControlInv
  <2>2. \A x \in OutPlace : OutTo(x) => OutTo(x)'
    BY <1>1, <2>1 DEF OutTo
  <2> QED BY <1>1, <2>1, <2>2, OutStays
<1>4. ASSUME main' \in {"ok", "senderr", "failed"}, gen' \in {"idle", "ok", "err"}, UNCHANGED out
      PROVE  OutInv'
  BY <1>1, <1>4, OutStays DEF OutTo
<1>5. \A x \in OutPlace : [x EXCEPT !.at = "over"] \in OutPlace /\ [x EXCEPT !.at = "over"].at = "over"
  BY DEF OutPlace
<1>6. CASE DoGoodbye
  <2>1. main = "goodbye" /\ gen = "ok" /\ UNCHANGED genVars
    BY <1>6 DEF DoGoodbye, ControlInv
  <2>2. CASE main' = "senderr"
    BY <1>4, <1>6, <2>1, <2>2 DEF DoGoodbye, WriteErr, genVars
  <2>3. CASE main' # "senderr"
    <3>1. main' = "ok" /\ out' = Append(out, Idx(Done)) /\ Idx(Done) \in Msg
      BY <1>6, <2>3, MsgMade DEF DoGoodbye, WriteOK
    <3>2. ASSUME NEW x \in OutPlace, OutTo(x), NEW y \in OutPlace, y = [x EXCEPT !.at = "over"]
          PROVE  <<x, Idx(Done), y>> \in OutSteps' /\ OutTo(y)'
      <4>1. x.at = "bye"
        BY <2>1, <3>2 DEF OutTo
      <4>2. <<x, Idx(Done), y>> \in OutSteps'
        BY <3>1, <3>2, <4>1 DEF OutSteps, OutStep
      <4>3. OutTo(y)'
        BY <2>1, <3>1 DEF OutTo, genVars
      <4> QED BY <4>2, <4>3
    <3>3. \A x \in OutPlace : OutTo(x) => \E y \in OutPlace : <<x, Idx(Done), y>> \in OutSteps' /\ OutTo(y)'
      BY <1>5, <3>2
    <3> QED BY <1>1, <3>1, <3>3, OutWrites
  <2> QED BY <2>2, <2>3
<1>7. CASE SendError
  <2>1. main = "senderr" /\ main' = "failed" /\ UNCHANGED genVars /\ gen \in {"idle", "ok", "err"}
    BY <1>7 DEF SendError, ControlInv, TypeOK, GenTypes
  <2>2. CASE UNCHANGED out
    BY <1>4, <2>1, <2>2 DEF genVars
  <2>3. CASE out' = Append(out, ErrorMsg)
    <3>1. ErrorMsg \in Msg
      BY MsgMade
    <3>2. ASSUME NEW x \in OutPlace, OutTo(x), NEW y \in OutPlace, y = [x EXCEPT !.at = "over"]
          PROVE  <<x, ErrorMsg, y>> \in OutSteps' /\ OutTo(y)'
      <4>1. y.at = "over"
        BY <1>5, <3>2
      <4>2. <<x, ErrorMsg, y>> \in OutSteps'
        BY <3>1, <3>2, <4>1 DEF OutSteps, OutStep
      <4>3. OutTo(y)'
        BY <2>1 DEF OutTo, genVars
      <4> QED BY <4>2, <4>3
    <3>3. \A x \in OutPlace : OutTo(x) => \E y \in OutPlace : <<x, ErrorMsg, y>> \in OutSteps' /\ OutTo(y)'
      BY <1>5, <3>2
    <3> QED BY <1>1, <2>3, <3>1, <3>3, OutWrites
  <2> QED BY <1>7, <2>2, <2>3 DEF SendError, WriteOK, WriteErr
<1> QED BY <1>2, <1>3, <1>6, <1>7 DEF Main

(* Every step keeps the path from the generator to the sender.             *)
LEMMA OutStepInv ==
  ASSUME TypeOK, TypeOK', Placed, OutInv, SideInv, [Next]_vars
  PROVE  OutInv'
<1>1. ControlInv /\ RequestInv /\ OutSteps \subseteq OutSteps'
  BY OutStepsGrow DEF SideInv
<1>2. CASE Generator
  BY <1>1, <1>2, OutGenerator, Sides DEF mainVars, Generator, GenSkip, GenRequest, GenHead, GenSum,
     GenReadFails, GenPhase
<1>3. CASE Peer \/ PeerCrash
  BY <1>1, <1>3, OutPeer, Sides DEF mainVars, histVars, Peer, PeerCrash, PeerReadIdx, PeerReadHead,
     PeerReadSum, PeerReadBye, PeerVanish, PeerSend, PeerLeaves
<1>4. CASE Main \/ Select \/ CloseConn
  BY <1>1, <1>4, OutMain, Sides DEF Main, Select, DoStart, DoWait, DoReport, DoGoodbye, SendError,
     SelectCtx, SelectRecv, CloseConn
<1>5. CASE UNCHANGED <<main, genVars, peerVars, out, requested>>
  <2>1. \A x \in OutPlace : OutTo(x) => OutTo(x)'
    BY <1>5 DEF OutTo, genVars, Blocks
  <2>2. OutFrom' = OutFrom /\ (PeerGone => PeerGone')
    BY <1>5 DEF peerVars, OutFrom, PeerGone
  <2> QED BY <1>1, <1>5, <2>1, <2>2, OutStays
<1> QED BY <1>2, <1>3, <1>4, <1>5, Sides DEF mainVars, histVars, vars

-----------------------------------------------------------------------------
(* The path from the sender to the receiver.                               *)

(* What the sender owes is not changed by steps that answer nothing.       *)
LEMMA InToStays ==
  ASSUME TypeOK, TypeOK', Placed, OutInv, SideInv, [Next]_vars, ~PeerSend, ~PeerGone',
         NEW x \in InPlace, InTo(x)
  PROVE  InTo(x)'
<1>1. /\ ControlInv /\ RequestInv /\ PeerInv
      /\ requested \subseteq requested' /\ requested \subseteq File /\ requested' \subseteq File
      /\ \A e \in requested' : e \in requested \/ \A r \in requested : r < e
      /\ peerCur \in File \cup {Done} /\ (peerCur # Done => peerCur \in requested)
      /\ vanished \subseteq vanished' /\ ~PeerGone
  BY RequestsGrow, AnswersGrow DEF SideInv, PeerInv, TypeOK, StoreTypes, PeerTypes
<1>2. \A e \in requested' : e <= peerCur => e \in requested
  <2> SUFFICES ASSUME NEW e \in requested', e <= peerCur PROVE e \in requested
    OBVIOUS
  <2>1. peerCur # Done
    BY <1>1, Indices
  <2>2. ~(peerCur < e)
    BY <1>1, Indices
  <2> QED BY <1>1, <2>1, <2>2
<1>3. x.file \in Int
  BY Indices DEF InPlace
<1>4. CASE UNCHANGED peerVars /\ UNCHANGED vanished
  BY <1>1, <1>2, <1>4 DEF peerVars, InTo, NotYet, Skipped
<1>5. CASE PeerReadIdx
  <2>1. /\ peer = "idx" /\ UNCHANGED <<peerPhase, vanished, requested>>
        /\ peer' \in {"ack", "final", "echo", "head"}
    BY <1>5 DEF PeerReadIdx, histVars
  <2>2. \A e \in requested : x.file < e /\ e <= peerCur => Skipped(e)
    BY <2>1, <1>1 DEF InTo, NotYet
  <2>3. x.at = "idx" /\ x.done = peerPhase /\ x.file <= peerCur
    BY <2>1 DEF InTo
  <2>4. CASE peerCur' = peerCur /\ peer' \in {"ack", "final"}
    BY <2>1, <2>2, <2>3, <2>4 DEF InTo, NotYet, Skipped
  <2>5. CASE /\ peerCur < peerCur' /\ peer' \in {"echo", "head"}
             /\ \A e \in requested : e <= peerCur \/ peerCur' <= e
    <3>1. x.file <= peerCur' /\ x.file # peerCur'
      BY <1>1, <1>3, <2>3, <2>5, Indices DEF TypeOK, PeerTypes
    <3>2. \A e \in requested : x.file < e /\ e <= peerCur' => Skipped(e) \/ e = peerCur'
      BY <1>1, <2>2, <2>5, Indices DEF TypeOK, PeerTypes
    <3> QED BY <2>1, <2>3, <2>5, <3>1, <3>2 DEF InTo, NotYet, Skipped
  <2> QED BY <1>1, <1>5, <2>4, <2>5, IdxRead
<1>6. CASE PeerReadHead \/ PeerReadSum
  BY <1>1, <1>6 DEF PeerReadHead, PeerReadSum, InTo, NotYet, Skipped, histVars
<1>7. CASE PeerVanish
  BY <1>1, <1>7 DEF PeerVanish, InTo, NotYet, Skipped
<1>8. CASE PeerReadBye \/ PeerLeaves \/ PeerCrash
  BY <1>1, <1>8 DEF PeerReadBye, PeerLeaves, PeerCrash, PeerGone
<1> QED BY <1>4, <1>5, <1>6, <1>7, <1>8, Sides DEF Peer, histVars, vars

(* A queue that stays one was given a message.                             *)
LEMMA Written ==
  ASSUME NEW q \in Seq(Msg), NEW m, Append(q, m) \in Seq(Msg)
  PROVE  m \in Msg
<1>1. Len(q) \in Nat /\ Len(Append(q, m)) = Len(q) + 1 /\ Append(q, m)[Len(q) + 1] = m
  OBVIOUS
<1> QED BY <1>1, ElementOfSeq

(* Each write of the sender is a step from where it is.                    *)
LEMMA InSend ==
  ASSUME TypeOK, TypeOK', Placed, OutInv, InInv, SideInv, [Next]_vars, PeerSend
  PROVE  InInv'
<1>1. /\ PeerInv /\ InSteps \subseteq InSteps' /\ ~PeerGone /\ ~PeerGone'
      /\ requested \subseteq File /\ peerCur \in File \cup {Done}
      /\ UNCHANGED <<opts, main, recv, phase, cur, gen, requested, vanished, peerCur>>
  BY InStepsGrow, Sides DEF SideInv, TypeOK, StoreTypes, PeerTypes, PeerSend, PeerSays, PeerGone,
     mainVars, recvVars, genVars, histVars
<1>2. InFrom' = InFrom /\ (Reading' => Reading)
  BY <1>1 DEF InFrom, Reading
<1>3. ASSUME NEW m, in' = Append(in, m),
             \A x \in InPlace : InTo(x) => \E y \in InPlace : InStep(x, m, y)' /\ InTo(y)'
      PROVE  InInv'
  <2>1. m \in Msg
    BY <1>3, Written DEF TypeOK
  <2>2. ASSUME NEW x \in InPlace, NEW y \in InPlace, InStep(x, m, y)'
        PROVE  <<x, m, y>> \in InSteps'
    BY <2>1, <2>2 DEF InSteps
  <2>3. \A x \in InPlace : InTo(x) => \E y \in InPlace : <<x, m, y>> \in InSteps' /\ InTo(y)'
    BY <1>3, <2>2
  <2> QED BY <1>1, <1>2, <1>3, <2>1, <2>3, InWrites
<1>4. CASE PeerSays("ack", Idx(Done), "idx")
  <2>1. /\ peer = "ack" /\ peer' = "idx" /\ peerPhase = 0 /\ peerPhase' = 1
        /\ in' = Append(in, Idx(Done)) /\ AckSent' /\ \A e \in requested : e <= peerCur
    BY <1>1, <1>4 DEF PeerSend, PeerSays, PeerWrite, PeerInv, AckSent, Past
  <2>2. ASSUME NEW x \in InPlace, InTo(x), NEW y \in InPlace, y = [x EXCEPT !.done = 1]
        PROVE  InStep(x, Idx(Done), y)' /\ InTo(y)'
    <3>1. x.at = "idx" /\ x.done = 0 /\ x.file <= peerCur
          /\ \A e \in requested : x.file < e => Skipped(e)
      BY <2>1, <2>2 DEF InTo, NotYet
    <3>2. y.at = "idx" /\ y.done = 1 /\ y.file = x.file
      BY <2>2, <3>1 DEF InPlace
    <3>3. InStep(x, Idx(Done), y)'
      BY <1>1, <2>1, <2>2, <3>1 DEF InStep, Skipped
    <3>4. InTo(y)'
      BY <1>1, <2>1, <3>1, <3>2 DEF InTo, NotYet, Skipped
    <3> QED BY <3>3, <3>4
  <2>3. \A x \in InPlace : [x EXCEPT !.done = 1] \in InPlace
    BY DEF InPlace
  <2>4. \A x \in InPlace : InTo(x) => \E y \in InPlace : InStep(x, Idx(Done), y)' /\ InTo(y)'
    BY <2>2, <2>3
  <2> QED BY <1>3, <2>1, <2>4
<1>5. CASE PeerSays("final", Idx(Done), IF opts.noReport THEN "bye" ELSE "stats")
  <2>1. /\ peer = "final" /\ peer' = (IF opts.noReport THEN "bye" ELSE "stats")
        /\ peerPhase = 1 /\ peerPhase' = 1 /\ in' = Append(in, Idx(Done)) /\ FinalSent'
    <3>1. OnlyGoodbye'
      BY <1>5, NothingBehindTheEnd, OnlyGoodbyeStays DEF PeerSays, SideInv
    <3> QED BY <1>1, <1>5, <3>1 DEF PeerSend, PeerSays, PeerWrite, PeerInv, FinalSent
  <2>2. ASSUME NEW x \in InPlace, InTo(x), NEW y \in InPlace, NEW to,
               to = (IF opts.noReport THEN "over" ELSE "stats"), y = [x EXCEPT !.at = to, !.done = 2]
        PROVE  InStep(x, Idx(Done), y)' /\ InTo(y)'
    <3>1. x.at = "idx" /\ x.done = 1 /\ x.file <= peerCur
          /\ \A e \in requested : x.file < e /\ e <= peerCur => Skipped(e)
      BY <2>1, <2>2 DEF InTo, NotYet
    <3>2. y.at = (IF opts.noReport THEN "over" ELSE "stats") /\ y.done = 2 /\ y.file = x.file
      BY <2>2, <3>1 DEF InPlace
    <3>3. InStep(x, Idx(Done), y)'
      BY <1>1, <2>1, <2>2, <3>1 DEF InStep
    <3>4. InTo(y)'
      BY <1>1, <2>1, <3>1, <3>2 DEF InTo, NotYet, Skipped
    <3> QED BY <3>3, <3>4
  <2>3. \A x \in InPlace, to \in {"over", "stats"} : [x EXCEPT !.at = to, !.done = 2] \in InPlace
    <3>1. 2 \in 0 .. 2
      OBVIOUS
    <3> QED BY <3>1 DEF InPlace
  <2>4. \E to \in {"over", "stats"} : to = IF opts.noReport THEN "over" ELSE "stats"
    OBVIOUS
  <2>5. \A x \in InPlace : InTo(x) => \E y \in InPlace : InStep(x, Idx(Done), y)' /\ InTo(y)'
    BY <2>2, <2>3, <2>4
  <2> QED BY <1>3, <2>1, <2>5
<1>6. ASSUME NEW m, NEW at, NEW next, PeerSays(at, m, next), peerPhase' = peerPhase,
             NEW to \in {"idx", "head", "tokens", "sum", "stats", "over"},
             \A x \in InPlace : InTo(x) =>
                \A y \in InPlace : y = [x EXCEPT !.at = to] => InStep(x, m, y)' /\ InTo(y)'
      PROVE  InInv'
  <2>1. \A x \in InPlace : [x EXCEPT !.at = to] \in InPlace
    BY DEF InPlace
  <2>2. \A x \in InPlace : InTo(x) => \E y \in InPlace : InStep(x, m, y)' /\ InTo(y)'
    BY <1>6, <2>1
  <2> QED BY <1>3, <1>6, <2>2 DEF PeerSays, PeerWrite
<1>7. CASE PeerSays("stats", Stats, "bye")
  <2>1. peer = "stats" /\ peer' = "bye" /\ peerPhase' = peerPhase
    BY <1>7 DEF PeerSend, PeerSays
  <2>2. ASSUME NEW x \in InPlace, InTo(x), NEW y \in InPlace, y = [x EXCEPT !.at = "over"]
        PROVE  InStep(x, Stats, y)' /\ InTo(y)'
    <3>1. y.at = "over" /\ y.done = x.done /\ y.file = x.file /\ x.at = "stats"
      BY <2>1, <2>2 DEF InPlace, InTo
    <3>2. InTo(y)'
      BY <1>1, <2>1, <2>2, <3>1 DEF InTo, NotYet, Skipped
    <3> QED BY <2>2, <3>1, <3>2 DEF InStep
  <2> QED BY <1>6, <1>7, <2>1, <2>2
(* The index of the entry it was asked for.                                *)
<1>8. ASSUME peer \in {"echo", "answer"}, peer' \in {"idx", "rhead"}, peerPhase' = peerPhase,
             peer' = IF opts.DryRun THEN "idx" ELSE "rhead", PeerSays(peer, Idx(peerCur), peer')
      PROVE  InInv'
  <2>1. peerCur \in File /\ peerCur \in requested' /\ peerCur \notin vanished' /\ peerPhase = 0
        /\ NotYet /\ ~NotYet' /\ peerCur # Done
    BY <1>1, <1>8, Indices DEF Placed, PeerPlaced, PeerInv, NotYet
  <2>2. peerCur \in Answered' /\ Idx(peerCur).t = "idx" /\ Idx(peerCur).v = peerCur
    BY <1>1, <2>1, Indices DEF Answered, Idx
  <2>3. ASSUME NEW x \in InPlace, InTo(x), NEW y \in InPlace,
               y = [x EXCEPT !.at = IF opts.DryRun THEN "idx" ELSE "head", !.file = peerCur],
               NEW m, m = Idx(peerCur)
        PROVE  InStep(x, m, y)' /\ InTo(y)'
    <3>1. y.at = (IF opts.DryRun THEN "idx" ELSE "head") /\ y.done = x.done /\ y.file = peerCur
      BY <2>3 DEF InPlace
    <3>2. x.file <= peerCur /\ x.file # peerCur /\ x.at = "idx" /\ x.done = 0
      BY <1>8, <2>1, <2>3 DEF InTo
    <3>3. x.file \in Int /\ peerCur \in Int /\ requested \subseteq Int
      BY <1>1, Indices DEF InPlace
    <3>4. x.file < peerCur
      BY <3>2, <3>3
    <3>5. \A e \in requested' : x.file < e /\ e < peerCur => Skipped(e)'
      <4> SUFFICES ASSUME NEW e \in requested, x.file < e, e < peerCur PROVE Skipped(e)
        BY <1>1 DEF Skipped
      <4>1. e <= peerCur /\ e # peerCur
        BY <3>3
      <4> QED BY <2>3, <4>1 DEF InTo
    <3>6. InStep(x, m, y)'
      BY <1>1, <2>2, <2>3, <3>2, <3>4, <3>5 DEF InStep
    <3>7. \A e \in requested' : ~(peerCur < e /\ e <= peerCur)
      BY <1>1, <3>3
    <3>8. peerCur <= peerCur
      BY <3>3
    <3>9. InTo(y)'
      BY <1>1, <1>8, <2>1, <3>1, <3>2, <3>7, <3>8 DEF InTo, NotYet
    <3> QED BY <3>6, <3>9
  <2>4. \A x \in InPlace :
          [x EXCEPT !.at = IF opts.DryRun THEN "idx" ELSE "head", !.file = peerCur] \in InPlace
    BY <1>1 DEF InPlace
  <2>5. \A m : m = Idx(peerCur) =>
          \A x \in InPlace : InTo(x) => \E y \in InPlace : InStep(x, m, y)' /\ InTo(y)'
    BY <2>3, <2>4
  <2>6. in' = Append(in, Idx(peerCur))
    BY <1>8 DEF PeerSays, PeerWrite
  <2> QED BY <1>3, <2>5, <2>6
<1>9. CASE PeerSays("echo", Idx(peerCur), "idx") \/ PeerSays("answer", Idx(peerCur), "rhead")
  BY <1>1, <1>8, <1>9 DEF PeerSend, PeerSays, PeerInv
<1>10. CASE PeerSays("rhead", SumHead(Len(peerSums)), "tokens")
  <2>1. peer = "rhead" /\ peer' = "tokens" /\ peerPhase' = peerPhase
    BY <1>10 DEF PeerSend, PeerSays
  <2>2. ASSUME NEW x \in InPlace, InTo(x), NEW y \in InPlace, y = [x EXCEPT !.at = "tokens"],
               NEW m, m = SumHead(Len(peerSums))
        PROVE  InStep(x, m, y)' /\ InTo(y)'
    <3>1. y.at = "tokens" /\ y.done = x.done /\ y.file = x.file /\ x.at = "head"
      BY <2>1, <2>2 DEF InPlace, InTo
    <3>2. InTo(y)'
      BY <1>1, <2>1, <2>2, <3>1 DEF InTo, NotYet, Skipped
    <3> QED BY <2>2, <3>1, <3>2 DEF InStep, SumHead
  <2> QED BY <1>6, <1>10, <2>1, <2>2
<1>11. CASE \E m \in PeerTokens : PeerSays("tokens", m, "tokens")
  <2>1. PICK m \in PeerTokens : PeerSays("tokens", m, "tokens")
    BY <1>11
  <2>2. peer = "tokens" /\ peer' = "tokens" /\ peerPhase' = peerPhase /\ m.t \in {"data", "ref"}
    BY <2>1 DEF PeerSend, PeerSays, PeerTokens, Data, Ref
  <2>3. ASSUME NEW x \in InPlace, InTo(x), NEW y \in InPlace, y = [x EXCEPT !.at = "tokens"]
        PROVE  InStep(x, m, y)' /\ InTo(y)'
    <3>1. x.at = "tokens" /\ y = x
      BY <2>2, <2>3 DEF InPlace, InTo
    <3>2. InTo(y)'
      BY <1>1, <2>2, <2>3, <3>1 DEF InTo, NotYet, Skipped
    <3> QED BY <2>2, <3>1, <3>2 DEF InStep
  <2> QED BY <1>6, <2>1, <2>2, <2>3
<1>12. CASE PeerSays("tokens", EndToken, "rsum")
  <2>1. peer = "tokens" /\ peer' = "rsum" /\ peerPhase' = peerPhase
    BY <1>12 DEF PeerSend, PeerSays
  <2>2. ASSUME NEW x \in InPlace, InTo(x), NEW y \in InPlace, y = [x EXCEPT !.at = "sum"]
        PROVE  InStep(x, EndToken, y)' /\ InTo(y)'
    <3>1. y.at = "sum" /\ y.done = x.done /\ y.file = x.file /\ x.at = "tokens"
      BY <2>1, <2>2 DEF InPlace, InTo
    <3>2. InTo(y)'
      BY <1>1, <2>1, <2>2, <3>1 DEF InTo, NotYet, Skipped
    <3> QED BY <2>2, <3>1, <3>2 DEF InStep, EndToken
  <2> QED BY <1>6, <1>12, <2>1, <2>2
<1>13. CASE PeerSays("rsum", FileSum(Source[peerCur]), "idx")
  <2>1. peer = "rsum" /\ peer' = "idx" /\ peerPhase' = peerPhase /\ peerPhase = 0
    BY <1>1, <1>13 DEF PeerSend, PeerSays, PeerInv
  <2>2. ASSUME NEW x \in InPlace, InTo(x), NEW y \in InPlace, y = [x EXCEPT !.at = "idx"],
               NEW m, m = FileSum(Source[peerCur])
        PROVE  InStep(x, m, y)' /\ InTo(y)'
    <3>1. y.at = "idx" /\ y.done = x.done /\ y.file = x.file /\ x.at = "sum" /\ x.file = peerCur
      BY <2>1, <2>2 DEF InPlace, InTo
    <3>2. InTo(y)'
      BY <1>1, <2>1, <2>2, <3>1 DEF InTo, NotYet, Skipped
    <3> QED BY <2>2, <3>1, <3>2 DEF InStep
  <2> QED BY <1>6, <1>13, <2>1, <2>2
<1> QED BY <1>4, <1>5, <1>7, <1>9, <1>10, <1>11, <1>12, <1>13 DEF PeerSend

(* RecvFiles reads an index: the next entry to be answered, or none is.    *)
LEMMA InIdxRead ==
  ASSUME TypeOK, InInv, RecvIdx
  PROVE  \/ /\ Head(in).v \in Answered /\ cur < Head(in).v /\ phase = 0
            /\ \A e \in requested : cur < e /\ e < Head(in).v => Skipped(e)
            /\ cur' = Head(in).v /\ recv' = (IF opts.DryRun THEN "idx" ELSE "open") /\ phase' = 0
         \/ /\ phase = 0 /\ AckSent /\ \A e \in requested : cur < e => Skipped(e)
            /\ Head(in) = Idx(Done) /\ cur' = cur /\ recv' = "idx" /\ phase' = 1
         \/ /\ phase = 1 /\ FinalSent
            /\ Head(in) = Idx(Done) /\ cur' = cur /\ recv' = "ok" /\ phase' = 1
<1>1. recv = "idx" /\ in # <<>> /\ Head(in).t = "idx" /\ Reading
  BY DEF RecvIdx, ReadOK, Reading
<1>2. PICK y \in InPlace : InStep(InFrom, Head(in), y)
  BY <1>1, InReads
<1>3. InFrom.at = "idx" /\ InFrom.file = cur /\ InFrom.done = phase
  BY <1>1 DEF InFrom
<1>4. Done \notin Answered
  BY Indices DEF Answered, TypeOK, StoreTypes
<1>5. \/ /\ Head(in).v \in Answered /\ cur < Head(in).v /\ phase = 0
         /\ \A e \in requested : cur < e /\ e < Head(in).v => Skipped(e)
      \/ /\ phase = 0 /\ AckSent /\ Head(in) = Idx(Done)
         /\ \A e \in requested : cur < e => Skipped(e)
      \/ phase = 1 /\ FinalSent /\ Head(in) = Idx(Done)
  BY <1>1, <1>2, <1>3 DEF InStep
<1>6. Idx(Done).v = Done
  BY DEF Idx
<1> QED BY <1>1, <1>4, <1>5, <1>6 DEF RecvIdx

(* What RecvFiles reads is the step it takes.                              *)
LEMMA InRecv ==
  ASSUME TypeOK, TypeOK', Placed, OutInv, InInv, SideInv, [Next]_vars, RecvFiles
  PROVE  InInv'
<1>1. /\ ControlInv /\ InSteps \subseteq InSteps' /\ UNCHANGED <<opts, main, peer, PeerGone>>
      /\ ~PeerGone' => \A x \in InPlace : InTo(x) => InTo(x)'
  <2>1. UNCHANGED <<opts, main, peer>> /\ ~PeerSend
    BY Sides DEF RecvFiles, RecvIdx, RecvOpen, RecvHead, RecvData, RecvRef, RecvWritten, RecvEnd,
       RecvWait, RecvSum, RecvReadErr, peerVars, mainVars, PeerSend, PeerSays, PeerWrite,
       ReadOK, ReadErr
  <2>2. ControlInv /\ InSteps \subseteq InSteps'
    BY InStepsGrow DEF SideInv
  <2> QED BY <2>1, <2>2, InToStays DEF PeerGone
<1>2. CASE recv' = "err"
  BY <1>2 DEF InInv, Reading
<1>3. CASE RecvOpen \/ RecvWritten \/ RecvWait
  <2>1. UNCHANGED in /\ InFrom' = InFrom /\ (Reading' => Reading)
    BY <1>1, <1>3 DEF RecvOpen, RecvWritten, RecvWait, InFrom, Reading
  <2> QED BY <1>1, <2>1, InStays
<1>4. ASSUME recv \in {"idx", "head", "token", "sum"}, in # <<>>, in' = Tail(in),
             \A y \in InPlace : InStep(InFrom, Head(in), y) => (Reading' => InFrom' = y)
      PROVE  InInv'
  <2>1. Reading
    BY <1>4 DEF Reading
  <2> QED BY <1>1, <1>4, <2>1, InReadsOn
<1>5. CASE RecvIdx
  <2>1. recv = "idx" /\ in # <<>> /\ in' = Tail(in) /\ Head(in).t = "idx" /\ main \notin {"goodbye", "ok"}
    BY <1>1, <1>5 DEF RecvIdx, ReadOK, ControlInv
  <2>2. InFrom = [at |-> "idx", file |-> cur, done |-> phase] /\ Done \notin Answered
        /\ Idx(Done).v = Done
    BY <2>1, Indices DEF InFrom, Answered, TypeOK, StoreTypes, Idx
  <2>3. ASSUME NEW y \in InPlace, InStep(InFrom, Head(in), y) PROVE InFrom' = y
    <3>1. CASE Head(in).v \in Answered
      <4>1. cur' = Head(in).v /\ recv' = (IF opts.DryRun THEN "idx" ELSE "open") /\ phase' = 0 /\ phase = 0
        BY <1>5, <2>2, <3>1, InIdxRead
      <4>2. y = [InFrom EXCEPT !.at = IF opts.DryRun THEN "idx" ELSE "head", !.file = Head(in).v]
        BY <2>1, <2>2, <2>3, <3>1 DEF InStep
      <4>3. y = [at |-> IF opts.DryRun THEN "idx" ELSE "head", file |-> cur', done |-> 0]
        BY <2>2, <4>1, <4>2
      <4> QED BY <4>1, <4>3 DEF InFrom
    <3>2. CASE phase = 0 /\ Head(in) = Idx(Done)
      <4>1. cur' = cur /\ recv' = "idx" /\ phase' = 1
        BY <1>5, <2>2, <3>2, InIdxRead
      <4>2. y = [at |-> "idx", file |-> cur, done |-> 1]
        BY <2>1, <2>2, <2>3, <3>2 DEF InStep
      <4> QED BY <4>1, <4>2 DEF InFrom
    <3>3. CASE phase = 1 /\ Head(in) = Idx(Done)
      <4>1. cur' = cur /\ recv' = "ok" /\ main' \notin {"goodbye", "ok"}
        BY <1>1, <1>5, <2>1, <2>2, <3>3, InIdxRead
      <4>2. y = [InFrom EXCEPT !.at = IF opts.noReport THEN "over" ELSE "stats", !.done = 2]
        BY <2>1, <2>2, <2>3, <3>3 DEF InStep
      <4>3. y = [at |-> IF opts.noReport THEN "over" ELSE "stats", file |-> cur, done |-> 2]
        BY <2>2, <4>2
      <4> QED BY <1>1, <4>1, <4>3 DEF InFrom
    <3> QED BY <1>5, <3>1, <3>2, <3>3, InIdxRead
  <2> QED BY <1>4, <2>1, <2>3
<1>6. CASE RecvHead
  <2>1. /\ recv = "head" /\ in # <<>> /\ in' = Tail(in) /\ Head(in).t = "head"
        /\ recv' = "token" /\ UNCHANGED <<cur, phase>>
    BY <1>6 DEF RecvHead, ReadOK
  <2>2. InFrom = [at |-> "head", file |-> cur, done |-> phase]
    BY <2>1 DEF InFrom
  <2>3. ASSUME NEW y \in InPlace, InStep(InFrom, Head(in), y) PROVE InFrom' = y
    <3>1. y = [at |-> "tokens", file |-> cur, done |-> phase]
      BY <2>1, <2>2, <2>3 DEF InStep
    <3> QED BY <2>1, <3>1 DEF InFrom
  <2> QED BY <1>4, <2>1, <2>3
<1>7. CASE (RecvData \/ RecvRef) /\ recv' # "err"
  <2>1. /\ recv = "token" /\ in # <<>> /\ in' = Tail(in) /\ Head(in).t \in {"data", "ref"}
        /\ recv' = "write" /\ UNCHANGED <<cur, phase>>
    BY <1>7 DEF RecvData, RecvRef, Feed, ReadOK
  <2>2. InFrom = [at |-> "tokens", file |-> cur, done |-> phase]
    BY <2>1 DEF InFrom
  <2>3. ASSUME NEW y \in InPlace, InStep(InFrom, Head(in), y) PROVE InFrom' = y
    <3>1. y = InFrom
      BY <2>1, <2>2, <2>3 DEF InStep
    <3> QED BY <2>1, <3>1 DEF InFrom
  <2> QED BY <1>4, <2>1, <2>3
<1>8. CASE RecvEnd
  <2>1. /\ recv = "token" /\ in # <<>> /\ in' = Tail(in) /\ Head(in).t = "end"
        /\ recv' = "wait" /\ UNCHANGED <<cur, phase>>
    BY <1>8 DEF RecvEnd, ReadOK
  <2>2. InFrom = [at |-> "tokens", file |-> cur, done |-> phase]
    BY <2>1 DEF InFrom
  <2>3. ASSUME NEW y \in InPlace, InStep(InFrom, Head(in), y) PROVE InFrom' = y
    <3>1. y = [at |-> "sum", file |-> cur, done |-> phase]
      BY <2>1, <2>2, <2>3 DEF InStep
    <3> QED BY <2>1, <3>1 DEF InFrom
  <2> QED BY <1>4, <2>1, <2>3
<1>9. CASE RecvSum /\ recv' # "err"
  <2>1. /\ recv = "sum" /\ in # <<>> /\ in' = Tail(in) /\ Head(in).t = "filesum"
        /\ recv' = "idx" /\ UNCHANGED <<cur, phase>>
    BY <1>9 DEF RecvSum, ReadOK
  <2>2. InFrom = [at |-> "sum", file |-> cur, done |-> phase]
    BY <2>1 DEF InFrom
  <2>3. ASSUME NEW y \in InPlace, InStep(InFrom, Head(in), y) PROVE InFrom' = y
    <3>1. y = [at |-> "idx", file |-> cur, done |-> phase]
      BY <2>1, <2>2, <2>3 DEF InStep
    <3> QED BY <2>1, <3>1 DEF InFrom
  <2> QED BY <1>4, <2>1, <2>3
<1>10. CASE RecvReadErr
  BY <1>2, <1>10 DEF RecvReadErr
<1> QED BY <1>2, <1>3, <1>5, <1>6, <1>7, <1>8, <1>9, <1>10 DEF RecvFiles

(* Do reads the statistics, and nothing once it has given up.              *)
LEMMA InMain ==
  ASSUME TypeOK, TypeOK', Placed, OutInv, InInv, SideInv, [Next]_vars, Main
  PROVE  InInv'
<1>1. /\ ControlInv /\ InSteps \subseteq InSteps' /\ UNCHANGED <<opts, cur, phase, PeerGone>>
      /\ main \in {"report", "goodbye", "ok"} => sel = "ok" /\ recv = "ok"
      /\ sel = "ok" => recv = "ok"
      /\ ~PeerGone' => \A x \in InPlace : InTo(x) => InTo(x)'
  <2>1. UNCHANGED <<opts, cur, phase, peer, peerPos>> /\ ~PeerSend
    BY Sides DEF Main, DoStart, DoWait, DoReport, DoGoodbye, SendError, peerVars, recvVars,
       PeerSend, PeerSays, PeerWrite, ReadOK, ReadErr
  <2>2. ControlInv /\ InSteps \subseteq InSteps'
    BY InStepsGrow DEF SideInv
  <2> QED BY <2>1, <2>2, InToStays DEF PeerGone, ControlInv
<1>2. CASE DoStart
  <2>1. UNCHANGED in /\ InFrom' = InFrom /\ (Reading' => Reading)
    BY <1>1, <1>2 DEF DoStart, InFrom, Reading, ControlInv
  <2> QED BY <1>1, <2>1, InStays
<1>3. CASE DoWait
  <2>1. UNCHANGED in /\ (Reading' => InFrom' = InFrom) /\ (Reading' => Reading)
    BY <1>1, <1>3 DEF DoWait, GroupDone, InFrom, Reading, recvVars
  <2> QED BY <1>1, <2>1, InStays
<1>4. CASE DoReport
  <2>1. CASE main' = "senderr"
    BY <1>1, <1>4, <2>1 DEF DoReport, InInv, Reading, recvVars
  <2>2. CASE main' # "senderr"
    <3>1. /\ main = "report" /\ main' = "goodbye" /\ in # <<>> /\ in' = Tail(in)
          /\ Head(in).t = "stats" /\ recv = "ok" /\ recv' = "ok" /\ Reading
      BY <1>1, <1>4, <2>2 DEF DoReport, ReadOK, recvVars, Reading
    <3>2. ASSUME NEW y \in InPlace, InStep(InFrom, Head(in), y) PROVE InFrom' = y
      <4>1. InFrom = [at |-> IF opts.noReport THEN "over" ELSE "stats", file |-> cur, done |-> 2]
        BY <3>1 DEF InFrom
      <4>2. InFrom.at = "stats" /\ y = [InFrom EXCEPT !.at = "over"]
        BY <3>1, <3>2, <4>1 DEF InStep
      <4>3. y = [at |-> "over", file |-> cur, done |-> 2]
        BY <4>1, <4>2
      <4> QED BY <1>1, <3>1, <4>3 DEF InFrom
    <3> QED BY <1>1, <3>1, <3>2, InReadsOn
  <2> QED BY <2>1, <2>2
<1>5. CASE DoGoodbye
  <2>1. UNCHANGED in /\ (Reading' => InFrom' = InFrom) /\ (Reading' => Reading)
    BY <1>1, <1>5 DEF DoGoodbye, InFrom, Reading, recvVars
  <2> QED BY <1>1, <2>1, InStays
<1>6. CASE SendError
  <2>1. UNCHANGED in /\ (Reading' => InFrom' = InFrom) /\ (Reading' => Reading)
    BY <1>1, <1>6 DEF SendError, InFrom, Reading, recvVars
  <2> QED BY <1>1, <2>1, InStays
<1> QED BY <1>2, <1>3, <1>4, <1>5, <1>6 DEF Main

(* Every step keeps the path from the sender to the receiver.              *)
LEMMA InStepInv ==
  ASSUME TypeOK, TypeOK', Placed, OutInv, InInv, SideInv, [Next]_vars
  PROVE  InInv'
<1>1. InSteps \subseteq InSteps'
  BY InStepsGrow DEF SideInv
<1>2. ASSUME UNCHANGED <<opts, main, recvVars, in>>, ~PeerSend, PeerGone => PeerGone'
      PROVE  InInv'
  <2>1. InFrom' = InFrom /\ Reading' = Reading
    BY <1>2 DEF InFrom, Reading, recvVars
  <2> QED BY <1>1, <1>2, <2>1, InToStays, InStays
<1>3. PeerGone => PeerGone'
  BY AnswersGrow DEF SideInv
<1>4. CASE PeerSend
  BY <1>4, InSend
<1>5. CASE (Peer \/ PeerCrash) /\ ~PeerSend
  <2>1. UNCHANGED in
    BY <1>5 DEF Peer, PeerCrash, PeerReadIdx, PeerReadHead, PeerReadSum, PeerReadBye, PeerVanish, PeerLeaves
  <2>2. UNCHANGED <<opts, main, recvVars>>
    BY <1>5 DEF Peer, PeerCrash, PeerReadIdx, PeerReadHead, PeerReadSum, PeerReadBye, PeerVanish,
       PeerLeaves, mainVars
  <2> QED BY <1>2, <1>3, <1>5, <2>1, <2>2
<1>6. CASE Main
  BY <1>6, InMain
<1>7. CASE RecvFiles
  BY <1>7, InRecv
<1>8. CASE (Generator \/ Put \/ Select \/ CloseConn \/ (\E f \in Regular : Edit(f)) \/ UNCHANGED vars)
           /\ ~PeerSend
  <2>1. UNCHANGED in
    BY <1>8 DEF Generator, GenSkip, GenRequest, GenHead, GenSum, GenReadFails, GenPhase, Put,
       PutStart, PutRead, PutStore, PutFails, Select, SelectCtx, SelectRecv, CloseConn, Edit, vars
  <2>2. UNCHANGED <<opts, main, recvVars>>
    BY <1>8 DEF Generator, GenSkip, GenRequest, GenHead, GenSum, GenReadFails, GenPhase, Put,
       PutStart, PutRead, PutStore, PutFails, Select, SelectCtx, SelectRecv, CloseConn, Edit, vars,
       mainVars
  <2> QED BY <1>2, <1>3, <1>8, <2>1, <2>2
<1> QED BY <1>4, <1>5, <1>6, <1>7, <1>8 DEF Next, Moves

-----------------------------------------------------------------------------
(* The bookkeeping around both paths.                                      *)

(* Who waits for whom is kept.                                             *)
LEMMA ControlStep ==
  ASSUME TypeOK, ControlInv, [Next]_vars
  PROVE  ControlInv'
<1>1. CASE DoStart
  BY <1>1 DEF DoStart, ControlInv, histVars
<1>2. CASE DoWait
  BY <1>2 DEF DoWait, GroupDone, ControlInv, genVars, recvVars, histVars
<1>3. CASE DoReport \/ DoGoodbye \/ SendError
  BY <1>3 DEF DoReport, DoGoodbye, SendError, ControlInv, genVars, recvVars, histVars
<1>4. CASE Select \/ CloseConn
  BY <1>4 DEF Select, SelectCtx, SelectRecv, CloseConn, ControlInv, genVars, recvVars, histVars
<1>5. CASE Generator
  BY <1>5 DEF Generator, GenSkip, GenRequest, GenHead, GenSum, GenReadFails, GenPhase, ControlInv,
     mainVars, recvVars, histVars
<1>6. CASE RecvFiles
  BY <1>6 DEF RecvFiles, RecvIdx, RecvOpen, RecvHead, RecvData, RecvRef, Feed, RecvWritten, RecvEnd,
     RecvWait, RecvSum, RecvReadErr, ControlInv, mainVars, genVars, histVars
<1>7. CASE UNCHANGED <<mainVars, genVars, recvVars, requested>>
  BY <1>7 DEF ControlInv, mainVars, genVars, recvVars
<1> QED
  BY <1>1, <1>2, <1>3, <1>4, <1>5, <1>6, <1>7, Sides DEF Main, histVars, vars

(* The generator stays ahead of what it has asked for.                     *)
LEMMA RequestStep ==
  ASSUME TypeOK, ControlInv, RequestInv, [Next]_vars
  PROVE  RequestInv'
<1>1. genIdx \in Int /\ requested \subseteq Int
  BY ReceiverAssumption, Indices DEF TypeOK, GenTypes, StoreTypes
<1>2. CASE Generator
  <2>1. /\ gen = "next" \/ (gen' # "next" /\ genIdx' = genIdx) \/ genIdx' = genIdx + 1
        /\ genIdx' = genIdx \/ genIdx' = genIdx + 1
        /\ requested' = requested \/ (gen = "next" /\ requested' = requested \cup {genIdx}
                                      /\ (genIdx' = genIdx + 1 \/ gen' = "head"))
    BY <1>2 DEF Generator, GenSkip, GenRequest, GenHead, GenSum, GenReadFails, GenPhase, histVars
  <2>2. \A e \in requested : e <= genIdx' /\ (gen = "next" \/ genIdx' = genIdx + 1 => e < genIdx')
    BY <1>1, <2>1 DEF RequestInv
  <2>3. genIdx <= genIdx' /\ (genIdx' = genIdx + 1 => genIdx < genIdx')
    BY <1>1, <2>1
  <2> QED BY <2>1, <2>2, <2>3 DEF RequestInv
<1>3. CASE DoStart
  BY <1>3 DEF DoStart, RequestInv, ControlInv, histVars
<1>4. CASE (Main \/ Select \/ CloseConn) /\ ~DoStart
  BY <1>4 DEF Main, DoWait, DoReport, DoGoodbye, SendError, Select, SelectCtx, SelectRecv, CloseConn,
     RequestInv, genVars, histVars
<1>5. CASE UNCHANGED <<genVars, requested>>
  BY <1>5 DEF RequestInv, genVars
<1> QED BY <1>2, <1>3, <1>4, <1>5, Sides DEF histVars, vars

(* The sender stays behind it.                                             *)
LEMMA PeerStep ==
  ASSUME TypeOK, TypeOK', Placed, OutInv, ControlInv, RequestInv, PeerInv, [Next]_vars
  PROVE  PeerInv'
<1>1. /\ requested \subseteq requested' /\ (Past => requested' = requested /\ Past')
      /\ requested \subseteq File /\ peerCur \in File \cup {Done} /\ peerCur' \in File \cup {Done}
      /\ vanished \subseteq File /\ (PeerGone => PeerGone') /\ UNCHANGED opts
  BY RequestsGrow, AnswersGrow, Sides DEF TypeOK, StoreTypes, PeerTypes
<1>2. CASE UNCHANGED <<peerVars, vanished>>
  BY <1>1, <1>2 DEF peerVars, PeerInv, PeerGone, NotYet
<1>3. CASE PeerReadIdx
  <2>1. /\ peer = "idx" /\ UNCHANGED <<peerPhase, vanished, requested>>
        /\ \/ peer' = (IF peerPhase = 0 THEN "ack" ELSE "final")
           \/ peer' = (IF opts.DryRun THEN "echo" ELSE "head")
    BY <1>3 DEF PeerReadIdx, histVars
  <2>2. \A e \in vanished : e <= peerCur
    BY DEF PeerInv
  <2>3. CASE /\ peerCur < peerCur' /\ peer' = (IF opts.DryRun THEN "echo" ELSE "head")
             /\ peerCur' \in requested /\ peerPhase = 0
    <3>1. \A e \in vanished : e <= peerCur' /\ e # peerCur'
      BY <1>1, <2>2, <2>3, Indices
    <3> QED BY <1>1, <2>1, <2>3, <3>1 DEF PeerInv, PeerGone, NotYet
  <2>4. CASE /\ Past /\ (\A e \in requested : e <= peerCur) /\ peerCur' = peerCur
             /\ peer' = IF peerPhase = 0 THEN "ack" ELSE "final"
    <3>1. peerPhase' \in {0, 1} /\ peer' \in {"ack", "final"} /\ (peer' = "ack" => peerPhase' = 0)
          /\ (peer' = "final" => peerPhase' = 1)
      BY <2>1, <2>4 DEF TypeOK, PeerTypes
    <3> QED BY <1>1, <2>1, <2>2, <2>4, <3>1 DEF PeerInv, PeerGone, NotYet
  <2> QED BY <1>3, <2>3, <2>4, IdxRead
<1>4. CASE PeerReadHead \/ PeerReadSum
  BY <1>1, <1>4 DEF PeerReadHead, PeerReadSum, PeerInv, PeerGone, NotYet, histVars
<1>5. CASE PeerVanish
  <2>1. peerCur # Done /\ peerCur \in File
    BY <1>5, Indices DEF PeerVanish, Placed, PeerPlaced
  <2>2. peerCur <= peerCur
    BY <2>1, Indices
  <2> QED BY <1>1, <1>5, <2>1, <2>2 DEF PeerVanish, PeerInv, PeerGone, NotYet
<1>6. CASE PeerSend
  <2>1. peerCur \in requested' \/ peerCur = Done
    BY <1>1 DEF PeerInv
  <2> QED BY <1>1, <1>6, <2>1 DEF PeerSend, PeerSays, PeerInv, PeerGone, NotYet, histVars
<1>7. CASE PeerReadBye \/ PeerLeaves \/ PeerCrash
  BY <1>1, <1>7 DEF PeerReadBye, PeerLeaves, PeerCrash, PeerInv, PeerGone, NotYet, histVars
<1> QED BY <1>2, <1>3, <1>4, <1>5, <1>6, <1>7, Sides DEF Peer, histVars, vars

(* The receiver stays behind the sender.                                   *)
LEMMA RecvStep ==
  ASSUME TypeOK, TypeOK', Placed, OutInv, InInv, ControlInv, RequestInv, PeerInv, RecvInv, [Next]_vars
  PROVE  RecvInv'
<1>1. /\ requested \subseteq requested' /\ (Past => requested' = requested)
      /\ vanished \subseteq vanished' /\ Answered \subseteq Answered'
      /\ (AckSent => AckSent') /\ (FinalSent => FinalSent')
      /\ requested \subseteq File /\ cur \in File \cup {Done}
  BY RequestsGrow, AnswersGrow DEF TypeOK, StoreTypes, RecvTypes
<1>2. AckSent => Past
  BY DEF AckSent
<1>3. CASE UNCHANGED <<recv, phase, cur>>
  BY <1>1, <1>2, <1>3 DEF RecvInv, Skipped
<1>4. CASE RecvIdx
  <2>1. UNCHANGED <<requested, vanished>> /\ requested \subseteq Int
    BY <1>1, <1>4, Indices DEF RecvIdx, histVars
  <2>2. CASE Head(in).v \in Answered /\ cur' = Head(in).v /\ phase' = 0 /\ recv' # "ok"
    BY <1>1, <2>2 DEF RecvInv
  <2>3. CASE phase = 0 /\ AckSent /\ (\A e \in requested : cur < e => Skipped(e))
             /\ cur' = cur /\ recv' = "idx" /\ phase' = 1
    <3>1. \A e \in requested' : e <= cur' \/ Skipped(e)'
      BY <1>1, <2>1, <2>3, Indices DEF Skipped
    <3> QED BY <1>1, <2>3, <3>1 DEF RecvInv
  <2>4. CASE phase = 1 /\ FinalSent /\ cur' = cur /\ recv' = "ok" /\ phase' = 1
    BY <1>1, <1>2, <2>1, <2>4 DEF RecvInv, Skipped
  <2> QED BY <1>4, <2>2, <2>3, <2>4, InIdxRead
<1>5. CASE RecvFiles /\ ~RecvIdx
  <2>1. /\ UNCHANGED <<cur, phase>> /\ recv' # "ok" /\ (phase = 1 => recv' = "err")
    BY <1>5 DEF RecvFiles, RecvOpen, RecvHead, RecvData, RecvRef, Feed, RecvWritten,
       RecvEnd, RecvWait, RecvSum, RecvReadErr, RecvInv
  <2> QED BY <1>1, <1>2, <2>1 DEF RecvInv, Skipped
<1>6. CASE DoStart
  BY <1>1, <1>2, <1>6 DEF DoStart, RecvInv, ControlInv, Skipped
<1>7. CASE (Main \/ Select \/ CloseConn) /\ ~DoStart
  BY <1>3, <1>7 DEF Main, DoWait, DoReport, DoGoodbye, SendError, Select, SelectCtx, SelectRecv, CloseConn,
     recvVars
<1> QED BY <1>3, <1>4, <1>5, <1>6, <1>7, Sides DEF recvVars, vars

(* The store stays behind the receiver.                                    *)
LEMMA StoreStep ==
  ASSUME TypeOK, TypeOK', Placed, Streaming, InInv, RecvInv, StoreInv, [Next]_vars
  PROVE  StoreInv'
<1>1. /\ UNCHANGED opts /\ requested \subseteq Int /\ cur \in File \cup {Done}
      /\ cur \in Int /\ File \subseteq Int
      /\ stored \in [File -> Content \cup {NoFile}] /\ putErr \subseteq File
      /\ \A e \in File : stored[e] # NoFile \/ e \in putErr => e <= cur
  BY Sides, Indices DEF TypeOK, StoreTypes, RecvTypes, StoreInv
<1>2. CASE UNCHANGED <<recv, cur, put, stored, putErr>> /\ requested \subseteq requested'
  BY <1>1, <1>2 DEF StoreInv, PutActive
<1>3. CASE RecvIdx
  <2>1. /\ UNCHANGED <<put, stored, putErr, requested>> /\ recv = "idx" /\ ~PutActive /\ ~PutActive'
    BY <1>3 DEF RecvIdx, putVars, histVars, Streaming, PutActive
  <2>2. CASE cur' = cur /\ recv' \in {"idx", "ok"}
    BY <1>1, <2>1, <2>2 DEF StoreInv
  <2>3. CASE /\ Head(in).v \in Answered /\ cur < Head(in).v /\ cur' = Head(in).v
             /\ recv' = (IF opts.DryRun THEN "idx" ELSE "open")
    <3>1. cur' \in File /\ cur' \in Int /\ cur < cur'
      BY <1>1, <2>3, Indices DEF Answered, TypeOK, StoreTypes
    <3>2. \A e \in File : stored[e] # NoFile \/ e \in putErr => e <= cur' /\ e # cur'
      BY <1>1, <3>1
    <3> QED BY <1>1, <2>1, <2>3, <3>1, <3>2 DEF StoreInv
  <2> QED BY <1>3, <2>2, <2>3, InIdxRead
<1>4. CASE RecvFiles /\ ~RecvIdx
  <2>1. UNCHANGED <<cur, stored, putErr, requested>>
    BY <1>4 DEF RecvFiles, RecvOpen, RecvHead, RecvData, RecvRef, RecvWritten, RecvEnd, RecvWait,
       RecvSum, RecvReadErr, histVars
  <2>2. CASE RecvOpen \/ RecvHead
    BY <1>1, <2>1, <2>2 DEF RecvOpen, RecvHead, StoreInv, PutActive, putVars
  <2>3. CASE ~RecvOpen /\ ~RecvHead
    <3>1. UNCHANGED put /\ recv' \notin {"open", "head"} /\ (recv' \in {"token", "write", "wait", "sum"}
            => recv \in {"token", "write", "wait", "sum"})
      BY <1>4, <2>3 DEF RecvFiles, RecvData, RecvRef, Feed, RecvWritten, RecvEnd, RecvWait,
         RecvSum, RecvReadErr, putVars
    <3> QED BY <1>1, <2>1, <3>1 DEF StoreInv, PutActive
  <2> QED BY <2>2, <2>3
<1>5. CASE PutStart \/ PutRead
  BY <1>1, <1>5 DEF PutStart, PutRead, StoreInv, PutActive, recvVars, histVars
<1>6. CASE PutStore \/ PutFails
  <2>1. /\ put \in {"start", "reading"} /\ put' = "returned" /\ cur \in File /\ cur \in requested
        /\ UNCHANGED <<recv, cur, requested>> /\ recv \notin {"open", "head"}
        /\ \/ stored' = [stored EXCEPT ![cur] = acc] /\ putErr' = putErr
           \/ stored' = stored /\ putErr' = putErr \cup {cur}
    BY <1>6, Indices DEF PutStore, PutFails, Placed, RecvPlaced, RecvInv, Answered, Streaming, PutActive,
       recvVars
  <2>2. \A e \in File : stored'[e] # NoFile \/ e \in putErr' => e <= cur
    BY <1>1, <2>1
  <2> QED BY <1>1, <2>1, <2>2 DEF StoreInv, PutActive
<1>7. CASE DoStart
  BY <1>1, <1>7 DEF DoStart, StoreInv, PutActive, Streaming, putVars, histVars
<1>8. CASE (Main \/ Select \/ CloseConn) /\ ~DoStart
  BY <1>2, <1>8, Sides DEF Main, DoWait, DoReport, DoGoodbye, SendError, Select, SelectCtx, SelectRecv,
     CloseConn, recvVars, putVars, histVars
<1>9. CASE Generator
  BY <1>2, <1>9 DEF Generator, GenSkip, GenRequest, GenHead, GenSum, GenReadFails, GenPhase,
     recvVars, putVars, histVars
<1>10. CASE UNCHANGED <<recvVars, putVars, stored, putErr, requested>>
  BY <1>2, <1>10 DEF recvVars, putVars
<1> QED
  BY <1>3, <1>4, <1>5, <1>6, <1>7, <1>8, <1>9, <1>10, Sides DEF Put, histVars, vars

(* What the receiver has passed is stored or excused.                      *)
LEMMA HandledStep ==
  ASSUME TypeOK, TypeOK', Placed, Streaming, OutInv, InInv, SideInv, HandledInv, [Next]_vars
  PROVE  HandledInv'
<1>1. /\ UNCHANGED opts /\ requested \subseteq Int /\ requested' \subseteq Int /\ cur \in Int
      /\ requested \subseteq File
      /\ vanished \subseteq vanished' /\ putErr \subseteq putErr'
      /\ RecvInv /\ ControlInv /\ RequestInv
      /\ \A e \in requested' : e \in requested \/ \A r \in requested : r < e
  <2>1. putErr \subseteq putErr'
    BY Sides DEF Put, PutStart, PutRead, PutStore, PutFails, histVars, vars
  <2> QED BY <2>1, Sides, RequestsGrow, AnswersGrow, Indices DEF SideInv, TypeOK, StoreTypes, RecvTypes
<1> SUFFICES ASSUME ~opts.DryRun, NEW e \in requested',
                    e < cur' \/ (e = cur' /\ recv' \in {"idx", "ok"})
             PROVE  stored'[e] = Source[e] \/ Excused(e)'
  BY <1>1 DEF HandledInv
<1>2. \A f \in requested : f < cur \/ (f = cur /\ recv \in {"idx", "ok"}) =>
        stored[f] = Source[f] \/ Excused(f)
  BY DEF HandledInv
<1>3. Excused(e) => Excused(e)'
  BY <1>1 DEF Excused
<1>4. ASSUME cur' = cur PROVE e \in requested
  <2> SUFFICES ASSUME e \notin requested PROVE FALSE
    OBVIOUS
  <2>1. cur # Done => cur \in requested
    BY <1>1 DEF RecvInv, Answered
  <2>2. e \in File /\ e <= cur
    BY <1>1, <1>4 DEF TypeOK, StoreTypes
  <2>3. cur # Done
    BY <1>1, <2>2, Indices
  <2> QED BY <1>1, <2>1, <2>2, <2>3
<1>5. CASE UNCHANGED <<recv, cur, stored>>
  BY <1>2, <1>3, <1>4, <1>5
<1>6. CASE RecvIdx
  <2>1. recv = "idx" /\ UNCHANGED <<stored, requested>>
    BY <1>6 DEF RecvIdx, histVars
  <2>2. CASE cur' = cur
    BY <1>1, <1>2, <1>3, <2>1, <2>2
  <2>3. CASE /\ Head(in).v \in Answered /\ cur < Head(in).v /\ cur' = Head(in).v
             /\ \A f \in requested : cur < f /\ f < Head(in).v => Skipped(f)
             /\ recv' = "open"
    <3>1. e < cur' /\ e \in requested
      BY <2>1, <2>3
    <3>2. CASE cur < e
      BY <1>3, <2>3, <3>1, <3>2 DEF Skipped, Excused
    <3>3. CASE e <= cur
      BY <1>1, <1>2, <1>3, <2>1, <3>1, <3>3
    <3> QED BY <1>1, <3>1, <3>2, <3>3
  <2> QED BY <1>6, <2>2, <2>3, InIdxRead
<1>7. CASE RecvSum
  <2>1. /\ recv = "sum" /\ in # <<>> /\ UNCHANGED <<stored, cur, requested, putErr>>
        /\ recv' = IF Head(in).v = hash THEN "idx" ELSE "err"
    BY <1>7 DEF RecvSum, ReadOK, Matches, histVars
  <2>2. CASE e < cur'
    BY <1>2, <1>3, <2>1, <2>2
  <2>3. CASE e = cur' /\ recv' = "idx"
    <3>1. PICK y \in InPlace : InStep(InFrom, Head(in), y)
      BY <2>1, InReads DEF Reading
    <3>2. InFrom.at = "sum" /\ InFrom.file = cur
      BY <2>1 DEF InFrom
    <3>3. Head(in) = FileSum(Source[cur])
      BY <3>1, <3>2 DEF InStep
    <3>4. hash = Source[cur]
      BY <2>1, <2>3, <3>3 DEF FileSum
    <3>5. stored[cur] = hash \/ cur \in putErr
      BY <2>1 DEF Streaming
    <3> QED BY <2>1, <2>3, <3>4, <3>5 DEF Excused
  <2> QED BY <2>1, <2>2, <2>3
<1>8. CASE RecvFiles /\ ~RecvIdx /\ ~RecvSum
  <2>1. /\ UNCHANGED <<stored, cur>> /\ recv' \notin {"idx", "ok"}
    BY <1>8 DEF RecvFiles, RecvOpen, RecvHead, RecvData, RecvRef, Feed, RecvWritten, RecvEnd, RecvWait,
       RecvReadErr, histVars
  <2> QED BY <1>2, <1>3, <1>4, <2>1
<1>9. CASE PutStore
  <2>1. cur \in File /\ recv \notin {"idx", "ok"} /\ UNCHANGED <<cur, recv>>
        /\ stored' = [stored EXCEPT ![cur] = acc] /\ stored \in [File -> Content \cup {NoFile}]
    BY <1>9 DEF PutStore, Placed, RecvPlaced, Streaming, PutActive, recvVars, TypeOK, StoreTypes
  <2>2. e < cur /\ e \in requested
    BY <1>4, <2>1
  <2>3. e # cur /\ e \in File
    BY <1>1, <2>2
  <2>4. stored'[e] = stored[e]
    BY <2>1, <2>3
  <2> QED BY <1>2, <1>3, <2>2, <2>4
<1>10. CASE Put /\ ~PutStore
  BY <1>5, <1>10 DEF Put, PutStart, PutRead, PutFails, recvVars, histVars
<1>11. CASE DoStart
  <2>1. UNCHANGED <<cur, stored>> /\ requested = {}
    BY <1>1, <1>11 DEF DoStart, ControlInv, histVars
  <2> QED BY <1>4, <2>1
<1>12. CASE (Main \/ Select \/ CloseConn) /\ ~DoStart
  BY <1>5, <1>12, Sides DEF Main, DoWait, DoReport, DoGoodbye, SendError, Select, SelectCtx, SelectRecv,
     CloseConn, recvVars, histVars
<1>13. CASE UNCHANGED <<recvVars, stored>>
  BY <1>5, <1>13 DEF recvVars
<1> QED
  BY <1>6, <1>7, <1>8, <1>9, <1>10, <1>11, <1>12, <1>13, Sides DEF histVars, vars

(* The whole invariant.                                                    *)
LEMMA ExchangeInit == Init => ExchangeInv
<1> SUFFICES ASSUME Init PROVE ExchangeInv
  OBVIOUS
<1>1. TypeOK
  BY TypeInit
<1>2. OutInv
  <2>1. Path(OutPlace, OutSteps, OutFrom, out, OutFrom)
    BY <1>1, OutFromType, PathStart DEF Init
  <2>2. Done < 0 /\ requested = {}
    BY DEF Done, Init
  <2>3. OutFrom.at = "idx" /\ OutFrom.done = 0 /\ OutFrom.left = 0 /\ OutFrom.file = Done
    BY DEF Init, OutFrom
  <2>4. OutTo(OutFrom)
    BY <2>2, <2>3 DEF Init, OutTo
  <2> QED BY <1>1, <2>1, <2>4, OutFromType DEF OutInv
<1>3. InInv
  <2>1. Path(InPlace, InSteps, InFrom, in, InFrom)
    BY <1>1, InFromType, PathStart DEF Init
  <2>2. InFrom.at = "idx" /\ InFrom.done = 0 /\ InFrom.file = Done /\ Done <= Done
    BY DEF Init, InFrom, Done
  <2>3. InTo(InFrom)
    BY <2>2 DEF Init, InTo, NotYet
  <2> QED BY <1>1, <2>1, <2>3, InFromType DEF InInv
<1>4. ControlInv /\ RequestInv /\ PeerInv
  BY DEF Init, ControlInv, RequestInv, PeerInv, NotYet, PeerGone
<1>5. RecvInv /\ StoreInv /\ HandledInv
  BY DEF Init, RecvInv, StoreInv, HandledInv, PutActive
<1> QED BY <1>2, <1>3, <1>4, <1>5 DEF ExchangeInv, SideInv

(* All of it is kept by every step.                                        *)
LEMMA ExchangeStep ==
  TypeOK /\ TypeOK' /\ Placed /\ Streaming /\ ExchangeInv /\ [Next]_vars => ExchangeInv'
BY OutStepInv, InStepInv, ControlStep, RequestStep, PeerStep, RecvStep, StoreStep, HandledStep
DEF ExchangeInv, SideInv

(* What is under way on the connection always leads each reader to where   *)
(* the writer is, and what was asked for, answered and stored agrees.      *)
THEOREM ExchangeCorrect == Spec => []ExchangeInv
<1>1. TypeOK /\ Placed /\ Streaming /\ ExchangeInv /\ [Next]_vars /\ TypeOK' => ExchangeInv'
  BY ExchangeStep
<1> QED BY <1>1, ExchangeInit, TypeCorrect, StreamCorrect, PTL DEF Spec

-----------------------------------------------------------------------------
(* What follows for both sides.                                            *)

(* The steps that leave a place tell which messages a reader can find.     *)
LEMMA SyncHolds ==
  ASSUME TypeOK, ExchangeInv
  PROVE  InSync
<1>1. OutInv /\ InInv /\ ControlInv
  BY DEF ExchangeInv, SideInv
<1>2. ASSUME Reading, in # <<>> PROVE \E y \in InPlace : InStep(InFrom, Head(in), y)
  BY <1>1, <1>2, InReads
<1>3. ASSUME ~PeerGone, out # <<>> PROVE \E y \in OutPlace : OutStep(OutFrom, Head(out), y)
  BY <1>1, <1>3, OutReads
<1>4. ErrorMsg.t = "error" /\ Idx(Done).t = "idx" /\ Stats.t = "stats"
      /\ \A c : FileSum(c).t = "filesum"
  BY DEF ErrorMsg, Idx, Stats, FileSum
<1>5. recv = "idx" /\ in # <<>> => Head(in).t = "idx"
  BY <1>2, <1>4 DEF Reading, InFrom, InStep
<1>6. recv = "head" /\ in # <<>> => Head(in).t = "head"
  BY <1>2, <1>4 DEF Reading, InFrom, InStep
<1>7. recv = "token" /\ in # <<>> => Head(in).t \in {"data", "ref", "end"}
  BY <1>2, <1>4 DEF Reading, InFrom, InStep
<1>8. recv = "sum" /\ in # <<>> => Head(in).t = "filesum"
  BY <1>2, <1>4 DEF Reading, InFrom, InStep
<1>9. main = "report" /\ in # <<>> => Head(in).t = "stats"
  BY <1>1, <1>2, <1>4 DEF Reading, InFrom, InStep, ControlInv
<1>10. peer \in {"idx", "bye"} /\ out # <<>> => Head(out).t \in {"idx", "error"}
  BY <1>3, <1>4 DEF PeerGone, OutFrom, OutStep
<1>11. peer = "head" /\ out # <<>> => Head(out).t \in {"head", "error"}
  BY <1>3, <1>4 DEF PeerGone, OutFrom, OutStep
<1>12. peer = "sums" /\ out # <<>> => Head(out).t \in {"sum", "error"}
  BY <1>3, <1>4 DEF PeerGone, OutFrom, OutStep
<1> QED BY <1>5, <1>6, <1>7, <1>8, <1>9, <1>10, <1>11, <1>12 DEF InSync

(* Neither side ever finds a message that it is not about to decode,       *)
(* whatever was skipped, has vanished or has failed before.                *)
THEOREM NeverOutOfStep == Spec => []InSync
BY SyncHolds, ExchangeCorrect, TypeCorrect, PTL

(* When Do reports success, both goroutines have ended, no Put is pending, *)
(* everything the sender wrote has been read, and of what was written to   *)
(* it at most the goodbye is still under way.                              *)
THEOREM SuccessLeavesNothing == Spec => []SuccessIsQuiet
<1>1. ASSUME TypeOK, Streaming, ExchangeInv PROVE SuccessIsQuiet
  <2> SUFFICES ASSUME main = "ok"
               PROVE  /\ gen = "ok" /\ recv = "ok" /\ put \in {"none", "returned"}
                      /\ in = <<>> /\ out \in {<<>>, <<Idx(Done)>>}
    BY DEF SuccessIsQuiet
  <2>1. gen = "ok" /\ recv = "ok" /\ out \in {<<>>, <<Idx(Done)>>}
    BY <1>1 DEF ExchangeInv, SideInv, ControlInv, RecvInv, FinalSent, OnlyGoodbye
  <2>2. put \in {"none", "returned"}
    BY <1>1, <2>1 DEF Streaming, PutActive, TypeOK, PutTypes
  <2>3. ASSUME in # <<>> PROVE FALSE
    <3>1. PICK y \in InPlace : InStep(InFrom, Head(in), y)
      BY <1>1, <2>1, <2>3, InReads DEF ExchangeInv, Reading
    <3>2. InFrom.at = "over"
      BY <2>1 DEF InFrom
    <3> QED BY <3>1, <3>2 DEF InStep
  <2> QED BY <2>1, <2>2, <2>3
<1> QED BY <1>1, ExchangeCorrect, StreamCorrect, TypeCorrect, PTL

-----------------------------------------------------------------------------
(* Do implements Delivery: each step asks for, excuses or stores one       *)
(* entry, ends the transfer, or changes nothing Delivery speaks of.        *)

Result == CASE main = "ok" -> "ok"
            [] main \in {"senderr", "failed"} -> "failed"
            [] OTHER -> "running"

(* How Do ended, as its caller sees it.                                    *)
LEMMA Results ==
  /\ main = "ok" => Result = "ok"
  /\ main \in {"senderr", "failed"} => Result = "failed"
  /\ main \notin {"ok", "senderr", "failed"} => Result = "running"
BY DEF Result

(* Nothing is asked for at the start.                                      *)
LEMMA DeliveryStart == Init => Promise!DeliveryInit
<1> SUFFICES ASSUME Init PROVE Promise!DeliveryInit
  OBVIOUS
<1>1. opts.DryRun \in BOOLEAN
  BY ReceiverAssumption DEF Init, Options
<1>2. Result = "running"
  BY Results DEF Init
<1> QED BY <1>1, <1>2 DEF Init, Promise!DeliveryInit, Result

(* Every step of Do is one of Delivery or changes nothing it sees.         *)
LEMMA DeliveryStep ==
  ASSUME TypeOK, Placed, Streaming, ExchangeInv, [Next]_vars
  PROVE  [Promise!DeliveryNext]_(Promise!dvars)
<1>1. /\ ControlInv /\ RequestInv /\ PeerInv /\ RecvInv /\ StoreInv /\ HandledInv
      /\ UNCHANGED opts /\ requested \subseteq File
  BY Sides DEF ExchangeInv, SideInv, TypeOK, StoreTypes
<1>2. main = "ok" => recv = "ok" /\ FinalSent /\ ~PutActive
  BY <1>1 DEF ControlInv, RecvInv, Streaming
<1>3. ASSUME Result' = Result, UNCHANGED histVars PROVE UNCHANGED Promise!dvars
  BY <1>1, <1>3 DEF Promise!dvars, Result, histVars
<1>4. ASSUME UNCHANGED <<main, histVars>> PROVE UNCHANGED Promise!dvars
  BY <1>3, <1>4 DEF Result
<1>5. ASSUME main \notin {"ok", "senderr", "failed"}, main' = "senderr", UNCHANGED histVars
      PROVE  Promise!Fail
  <2>1. Result = "running" /\ Result' = "failed"
    BY <1>5, Results DEF Result
  <2> QED BY <1>1, <1>5, <2>1 DEF Promise!Fail, Result, histVars
<1>6. CASE Generator
  <2>1. CASE UNCHANGED requested
    BY <1>4, <1>6, <2>1, Sides DEF Generator, GenSkip, GenRequest, GenHead, GenSum, GenReadFails, GenPhase,
       mainVars, histVars
  <2>2. CASE GenRequest /\ requested' # requested
    <3>1. /\ gen = "next" /\ genIdx \in File /\ requested' = requested \cup {genIdx}
          /\ UNCHANGED <<main, vanished, putErr, stored>>
      BY <2>2, ReceiverAssumption DEF GenRequest, WriteErr, mainVars, File, TypeOK, GenTypes
    <3>2. Result = "running" /\ Result' = "running"
      BY <1>1, <3>1, Results DEF ControlInv, Result
    <3>3. \A r \in requested : r < genIdx
      BY <1>1, <3>1 DEF RequestInv
    <3>4. Promise!Request(genIdx)
      BY <1>1, <3>1, <3>2, <3>3 DEF Promise!Request, Result
    <3> QED BY <3>1, <3>4 DEF Promise!DeliveryNext
  <2> QED BY <1>6, <2>1, <2>2 DEF Generator, GenSkip, GenHead, GenSum, GenReadFails, GenPhase, histVars
<1>7. ASSUME NEW e \in requested, main # "ok", UNCHANGED <<main, requested, stored>>,
             vanished' \cup putErr' = (vanished \cup putErr) \cup {e}
      PROVE  Promise!DeliveryNext
  <2>1. Result # "ok" /\ Result' = Result
    BY <1>7, Results DEF Result
  <2>2. Promise!Excuse(e)
    BY <1>1, <1>7, <2>1 DEF Promise!Excuse, Result
  <2> QED BY <1>1, <2>2 DEF Promise!DeliveryNext
<1>8. CASE PeerVanish
  <2>1. peerCur \in requested /\ main # "ok"
    BY <1>1, <1>2, <1>8, Indices DEF PeerVanish, PeerInv, Placed, PeerPlaced, FinalSent, PeerGone
  <2> QED BY <1>7, <1>8, <2>1 DEF PeerVanish, mainVars
<1>9. CASE PutFails
  <2>1. cur \in requested /\ main # "ok"
    BY <1>1, <1>2, <1>9, Indices DEF PutFails, PutActive, RecvInv, Answered, Placed, RecvPlaced
  <2> QED BY <1>7, <1>9, <2>1 DEF PutFails, mainVars
<1>10. CASE PutStore
  <2>1. /\ cur \in File /\ cur \in Answered /\ PutActive /\ main # "ok" /\ ~opts.DryRun /\ acc \in Content
        /\ UNCHANGED <<main, requested, vanished, putErr>> /\ stored' = [stored EXCEPT ![cur] = acc]
        /\ stored \in [File -> Content \cup {NoFile}]
    BY <1>1, <1>2, <1>10, Indices DEF PutStore, PutActive, Placed, RecvPlaced, RecvInv, StoreInv, mainVars,
       TypeOK, PutTypes, StoreTypes
  <2>2. cur \in requested \ (vanished \cup putErr) /\ stored[cur] = NoFile
    BY <1>1, <2>1 DEF Answered, StoreInv
  <2>3. \A s \in File : stored[s] # NoFile => s < cur
    BY <1>1, <2>1, <2>2, Indices DEF StoreInv
  <2>4. stored'[cur] = acc /\ stored' = [stored EXCEPT ![cur] = stored'[cur]]
    BY <2>1
  <2>5. Result # "ok" /\ Result' = Result
    BY <2>1, Results DEF Result
  <2>6. Promise!Store(cur)
    BY <1>1, <2>1, <2>2, <2>3, <2>4, <2>5 DEF Promise!Store, Result
  <2> QED BY <2>1, <2>6 DEF Promise!DeliveryNext
<1>11. CASE DoGoodbye
  <2>1. main = "goodbye" /\ UNCHANGED histVars
    BY <1>11 DEF DoGoodbye
  <2>2. CASE main' = "senderr"
    BY <1>5, <2>1, <2>2 DEF Promise!DeliveryNext
  <2>3. CASE main' = "ok"
    <3>1. Result = "running" /\ Result' = "ok"
      BY <2>1, <2>3, Results DEF Result
    <3>2. recv = "ok" /\ phase = 1 /\ \A e \in requested : e <= cur \/ Skipped(e)
      BY <1>1, <2>1 DEF ControlInv, RecvInv
    <3>3. ASSUME ~opts.DryRun, NEW e \in requested \ (vanished \cup putErr) PROVE stored[e] = Source[e]
      <4>1. e <= cur /\ ~Excused(e)
        BY <3>2, <3>3 DEF Skipped, Excused
      <4>2. e < cur \/ e = cur
        BY <1>1, <4>1, Indices DEF TypeOK, RecvTypes
      <4> QED BY <1>1, <3>2, <3>3, <4>1, <4>2 DEF HandledInv
    <3>4. Promise!Succeed
      BY <1>1, <2>1, <3>1, <3>3 DEF Promise!Succeed, Promise!Delivered, Result, histVars
    <3> QED BY <3>4 DEF Promise!DeliveryNext
  <2> QED BY <1>11, <2>2, <2>3 DEF DoGoodbye
<1>12. CASE DoStart \/ DoWait \/ DoReport
  <2>1. main \notin {"ok", "senderr", "failed"} /\ UNCHANGED histVars
    BY <1>12 DEF DoStart, DoWait, DoReport
  <2>2. CASE main' = "senderr"
    BY <1>5, <2>1, <2>2 DEF Promise!DeliveryNext
  <2>3. CASE main' # "senderr"
    <3>1. main' \notin {"ok", "senderr", "failed"}
      BY <1>12, <2>3 DEF DoStart, DoWait, DoReport
    <3>2. Result' = Result
      BY <2>1, <3>1 DEF Result
    <3> QED BY <1>3, <2>1, <3>2
  <2> QED BY <2>2, <2>3
<1>13. CASE SendError
  <2>1. Result' = Result /\ UNCHANGED histVars
    BY <1>13 DEF SendError, Result
  <2> QED BY <1>3, <2>1
<1>14. CASE Select \/ CloseConn
  BY <1>4, <1>14 DEF Select, SelectCtx, SelectRecv, CloseConn
<1>15. CASE RecvFiles
  BY <1>4, <1>15, Sides DEF mainVars, RecvFiles, RecvIdx, RecvOpen, RecvHead, RecvData, RecvRef, Feed,
     RecvWritten, RecvEnd, RecvWait, RecvSum, RecvReadErr
<1>16. CASE PutStart \/ PutRead
  BY <1>4, <1>16 DEF PutStart, PutRead, mainVars
<1>17. CASE (Peer \/ PeerCrash) /\ ~PeerVanish
  BY <1>4, <1>17 DEF Peer, PeerCrash, PeerReadIdx, PeerReadHead, PeerReadSum, PeerReadBye, PeerSend,
     PeerLeaves, mainVars
<1>18. CASE \E f \in Regular : Edit(f)
  BY <1>4, <1>18 DEF Edit, mainVars
<1>19. CASE UNCHANGED vars
  BY <1>4, <1>19 DEF vars, mainVars
<1> QED
  BY <1>6, <1>8, <1>9, <1>10, <1>11, <1>12, <1>13, <1>14, <1>15, <1>16, <1>17, <1>18, <1>19
  DEF Next, Moves, Main, Put

(* Do delivers what Delivery promises: entries are asked for and stored in *)
(* order and once, and a success means that every entry asked for and not  *)
(* excused is stored with the sender's content.                            *)
THEOREM DoDelivers == Spec => Delivers
<1>1. TypeOK /\ Placed /\ Streaming /\ ExchangeInv /\ [Next]_vars
        => [Promise!DeliveryNext]_(Promise!dvars)
  BY DeliveryStep
<1> QED
  BY <1>1, DeliveryStart, TypeCorrect, StreamCorrect, ExchangeCorrect, PTL
  DEF Spec, Delivers, Promise!Delivery

=============================================================================
