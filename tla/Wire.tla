-------------------------------- MODULE Wire --------------------------------
(***************************************************************************)
(* The direction of a connection that the package writes: a greeting of    *)
(* plain integers, then messages (rsyncwire/wire.go).  Conn and            *)
(* MultiplexWriter write, MultiplexReader reads.                           *)
(*                                                                         *)
(* A message is a header and a payload, two writes.  The header holds the  *)
(* message type in its top byte and the length below it, put together with *)
(* a bitwise or.  A cell of the connection is a plain integer, a header,   *)
(* or a byte; data bytes are numbered in the order in which they are       *)
(* written.  Each cell also tells where it comes from, which the reader    *)
(* does not look at.  The connection may end anywhere.                     *)
(***************************************************************************)
EXTENDS Integers, Sequences

CONSTANTS
  Sizes,       (* how long a message may be                                *)
  Span,        (* 2^24: lengths below it fit under the top byte            *)
  MaxMessage,  (* maxMessageSize                                           *)
  Buffers,     (* how long the slice may be that is given to Read          *)
  Greetings    (* how many integers may precede the first message          *)

ASSUME WireAssumption ==
  /\ Sizes \subseteq Nat /\ Buffers \subseteq Nat /\ Greetings \subseteq Nat
  /\ Span \in Nat \ {0} /\ MaxMessage \in Nat

VARIABLES
  plainOut,    (* integers to be written before the writer multiplexes     *)
  plainIn,     (* integers to be read before the reader does               *)
  pending,     (* the message whose header is written and payload is not   *)
  conn,        (* the cells on their way                                   *)
  closed,      (* nothing more can be written                              *)
  written,     (* history: how many data bytes were written                *)
  over,        (* history: a message was not shorter than Span             *)
  buffer,      (* the length of the slice given to Read                    *)
  reader,      (* what the reader waits for, or how it ended               *)
  last,        (* the cell read last: in a message, its header             *)
  got          (* history: the data bytes delivered                        *)

writerVars == <<plainOut, pending, written, over>>
readerVars == <<plainIn, buffer, reader, last, got>>
wireVars   == <<conn, closed, writerVars, readerVars>>

Tag == {"data", "error", "info"}

(* The bits of mplexBase + tag: 7, 8 and 9.                                *)
Bits(tag) == CASE tag = "data" -> {0, 1, 2} [] tag = "error" -> {3} [] tag = "info" -> {0, 3}

(* The bits of a length that do not fit and end up in the top byte.        *)
Spilled(n) == IF n < Span THEN {} ELSE {k \in 0 .. 7 : (n \div (Span * 2^k)) % 2 = 1}

(* A message as it is handed to WriteMsg; at is history, the number of     *)
(* data bytes before it.  Hello stands for the greeting as a whole, whose  *)
(* integers are counted up to 0.                                           *)
Message(t, n) == [tag |-> t, size |-> n, at |-> written]
NoMessage     == [tag |-> "none", size |-> 0, at |-> 0]
Hello         == [tag |-> "hello", size |-> 0, at |-> 0]

Plain(i)   == [k |-> "plain", of |-> Hello, off |-> i]

Header(m)  == [k |-> "header", top |-> Bits(m.tag) \cup Spilled(m.size),
               low |-> m.size % Span, of |-> m, off |-> 0]

(* The bytes of a message that is no data are not part of the stream.      *)
Byte(m, i) == [k |-> "byte", v |-> IF m.tag = "data" THEN m.at + i ELSE 0,
               of |-> m, off |-> i]

Drop(s, n) == SubSeq(s, n + 1, Len(s))

-----------------------------------------------------------------------------
(* Writing.                                                                *)

WritePlain ==
  /\ ~closed /\ plainOut > 0
  /\ conn' = Append(conn, Plain(1 - plainOut)) /\ plainOut' = plainOut - 1
  /\ UNCHANGED <<closed, pending, written, over, readerVars>>

WriteHeader(t, n) ==
  /\ ~closed /\ plainOut = 0 /\ pending = NoMessage
  /\ pending' = Message(t, n)
  /\ conn' = Append(conn, Header(pending'))
  /\ over' = (over \/ n >= Span)
  /\ UNCHANGED <<closed, plainOut, written, readerVars>>

WritePayload ==
  /\ ~closed /\ pending # NoMessage
  /\ conn' = conn \o [i \in 1 .. pending.size |-> Byte(pending, i)]
  /\ written' = IF pending.tag = "data" THEN written + pending.size ELSE written
  /\ pending' = NoMessage
  /\ UNCHANGED <<closed, plainOut, over, readerVars>>

(* The connection ends, with some of what was under way lost.              *)
Cut ==
  /\ ~closed /\ closed' = TRUE
  /\ \E n \in 0 .. Len(conn) : conn' = SubSeq(conn, 1, n)
  /\ UNCHANGED <<writerVars, readerVars>>

-----------------------------------------------------------------------------
(* Reading: ReadInt32, then Read of MultiplexReader.                       *)

ReadPlain ==
  /\ reader = "plain" /\ conn # <<>>
  /\ conn' = Tail(conn) /\ last' = Head(conn)
  /\ plainIn' = plainIn - 1
  /\ reader' = CASE Head(conn).k # "plain" -> "lost"
                 [] Head(conn).k = "plain" /\ plainIn = 1 -> "header"
                 [] Head(conn).k = "plain" /\ plainIn # 1 -> "plain"
  /\ UNCHANGED <<closed, writerVars, buffer, got>>

(* Variant: the length is not looked at.                                   *)
ReadHeaderUnchecked ==
  /\ reader = "header" /\ conn # <<>>
  /\ conn' = Tail(conn) /\ last' = Head(conn)
  /\ reader' = IF Head(conn).k # "header" THEN "lost" ELSE "payload"
  /\ UNCHANGED <<closed, writerVars, plainIn, buffer, got>>

(* ReadMsg.  Anything but a header read as one is the end of all order;    *)
(* what the reader makes of it is not followed.                            *)
ReadHeader ==
  /\ reader = "header" /\ conn # <<>>
  /\ conn' = Tail(conn) /\ last' = Head(conn)
  /\ reader' = CASE last'.k # "header" -> "lost"
                 [] last'.k = "header" /\ last'.low > MaxMessage -> "refused"
                 [] OTHER -> "payload"
  /\ UNCHANGED <<closed, writerVars, plainIn, buffer, got>>

(* Variant: what does not fit into the slice is dropped.                   *)
ReadPayloadTruncates ==
  /\ reader = "payload" /\ Len(conn) >= last.low
  /\ conn' = Drop(conn, last.low)
  /\ last' = IF last.low = 0 THEN last ELSE conn[last.low]
  /\ CASE last.top = Bits("error")   -> reader' = "told" /\ UNCHANGED got
       [] last.top \notin {Bits("error"), Bits("data")} -> reader' = "refused" /\ UNCHANGED got
       [] last.top = Bits("data") ->
            /\ reader' = "header"
            /\ got' = got \o [i \in 1 .. IF last.low > buffer THEN buffer ELSE last.low |->
                                IF conn[i].k = "byte" THEN conn[i].v ELSE 0]
  /\ UNCHANGED <<closed, writerVars, plainIn, buffer>>

(* An error message ends the stream, and so does any other type: an info   *)
(* message is logged and then refused.                                     *)
ReadPayload ==
  /\ reader = "payload" /\ Len(conn) >= last.low
  /\ conn' = Drop(conn, last.low)
  /\ last' = IF last.low = 0 THEN last ELSE conn[last.low]
  /\ \/ last.top = Bits("error") /\ reader' = "told" /\ UNCHANGED got
     \/ last.top \notin {Bits("error"), Bits("data")} /\ reader' = "refused" /\ UNCHANGED got
     \/ last.top = Bits("data") /\ buffer < last.low /\ reader' = "panic" /\ UNCHANGED got
     \/ /\ last.top = Bits("data") /\ buffer >= last.low
        /\ \A i \in 1 .. last.low : conn[i].k = "byte"
        /\ reader' = "header"
        /\ got' = got \o [i \in 1 .. last.low |-> conn[i].v]
     \/ /\ last.top = Bits("data") /\ buffer >= last.low
        /\ \E i \in 1 .. last.low : conn[i].k # "byte"
        /\ reader' = "lost" /\ UNCHANGED got
  /\ UNCHANGED <<closed, writerVars, plainIn, buffer>>

(* Variant: an end in the middle of a message goes unnoticed.              *)
ReadFailsBetween ==
  /\ closed
  /\ reader \in {"plain", "header"} /\ conn = <<>>
  /\ reader' = "eof"
  /\ UNCHANGED <<conn, closed, writerVars, plainIn, buffer, last, got>>

(* The connection has ended in the middle of what is read.                 *)
ReadFails ==
  /\ closed
  /\ \/ reader \in {"plain", "header"} /\ conn = <<>>
     \/ reader = "payload" /\ Len(conn) < last.low
  /\ reader' = "eof"
  /\ UNCHANGED <<conn, closed, writerVars, plainIn, buffer, last, got>>

Reads == ReadPlain \/ ReadHeader \/ ReadPayload \/ ReadFails

-----------------------------------------------------------------------------
WireInit ==
  /\ plainOut \in Greetings /\ plainIn = plainOut
  /\ pending = NoMessage /\ conn = <<>> /\ closed = FALSE
  /\ written = 0 /\ over = FALSE
  /\ buffer \in Buffers
  /\ reader = (IF plainIn = 0 THEN "header" ELSE "plain")
  /\ last = Plain(-plainOut) /\ got = <<>>

WireNext ==
  \/ WritePlain \/ WritePayload \/ \E t \in Tag, n \in Sizes : WriteHeader(t, n)
  \/ Cut \/ Reads

Wire == WireInit /\ [][WireNext]_wireVars

-----------------------------------------------------------------------------
Ended == {"told", "refused", "eof", "panic", "lost"}

(* Reader and writer change from integers to messages at the same place,   *)
(* and from then on a header is read where one was written: the reader     *)
(* loses its place only after a message whose length did not fit under the *)
(* type (WriteMsg and ReadMsg).                                            *)
StaysFramed == reader = "lost" => over

(* A slice of the size of the largest message is enough for Read, which    *)
(* panics when its slice is too short (rsyncwire/wire.go:84).              *)
LargeBufferIsEnough == buffer >= MaxMessage => reader # "panic"

AsStream == INSTANCE Stream WITH ended <- reader \in Ended

(* MultiplexWriter and MultiplexReader carry a stream of bytes: what Read  *)
(* delivers was written, in order and without gaps.                        *)
CarriesTheStream == AsStream!Stream
=============================================================================
