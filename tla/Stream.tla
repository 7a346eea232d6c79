------------------------------- MODULE Stream -------------------------------
(***************************************************************************)
(* What a multiplexed connection promises to the reader of the data in it: *)
(* the bytes that were written, in order, without gaps, until the end.     *)
(* The n-th byte written is the number n.  Once a message was written that *)
(* is longer than the length field can say, nothing is promised.           *)
(***************************************************************************)
EXTENDS Integers, Sequences

VARIABLES
  written,    (* how many bytes were written                               *)
  over,       (* a message was too long for its length field               *)
  got,        (* what was delivered                                        *)
  ended       (* nothing more is delivered                                 *)

svars == <<written, over, got, ended>>

StreamInit == written = 0 /\ over = FALSE /\ got = <<>> /\ ended = FALSE

Put ==
  /\ written' \in Nat /\ written' >= written
  /\ over' \in BOOLEAN /\ (over => over')
  /\ UNCHANGED <<got, ended>>

Get ==
  /\ ~ended
  /\ \E k \in 0 .. written - Len(got) :
       got' = [i \in 1 .. Len(got) + k |-> i]
  /\ UNCHANGED <<written, over, ended>>

End ==
  /\ ended' = TRUE
  /\ UNCHANGED <<written, over, got>>

Void == over /\ UNCHANGED <<written, over>>

Stream == StreamInit /\ [][Put \/ Get \/ End \/ Void]_svars

=============================================================================
