------------------------------ MODULE MCSender ------------------------------
(* Small instances of Sender for TLC.                                      *)
EXTENDS Sender

CONSTANTS a, b, z

MCChunk  == {a, b, z}

(* A file of two blocks and an empty one; a shorter content for an edit.   *)
MCStores == {[f \in File |-> IF f = 0 THEN <<a, b>> ELSE <<>>]}

MCEdits  == {<<b>>}
=============================================================================
