----------------------------- MODULE MCReceiver -----------------------------
(* Small instances of Receiver for TLC.                                    *)
EXTENDS Receiver, TLC

CONSTANTS a, b    (* two blocks                                            *)

MCChunk   == {a, b}

(* Entries 0 and 2 are files, of two blocks and of one; 1 is a directory.  *)
Entries   == 0 :> <<a, b>> @@ 1 :> <<>> @@ 2 :> <<a>>

(* The local copies: missing, empty, shorter, another content of the same  *)
(* length, longer.                                                         *)
Copy(x, y) == 0 :> x @@ 1 :> NoFile @@ 2 :> y
TwoDisks  == {Copy(NoFile, <<a>>), Copy(<<b, a>>, NoFile),
              Copy(<<b>>, <<b, a>>), Copy(<<a, b>>, <<>>)}
FewDisks  == {Copy(NoFile, <<a>>), Copy(<<b, a>>, <<a, a>>)}

MCEdits   == {<<>>, <<a>>, <<b, b>>}

(* A session whose store replaces files, one whose store overwrites them   *)
(* and that also reads a report, and a dry run.                            *)
Plain   == [DryRun |-> FALSE, DeleteMode |-> TRUE, noReport |-> TRUE,
            IOErrors |-> 0, SkipBy |-> "quick", InPlace |-> FALSE]
AtOnce  == [Plain EXCEPT !.InPlace = TRUE, !.noReport = FALSE,
                         !.SkipBy = "size", !.IOErrors = 1]
Listing == [Plain EXCEPT !.DryRun = TRUE, !.SkipBy = "never"]

AllSessions == {Plain, AtOnce, Listing}

AllFaults   == Fault
LiveFaults  == {"open", "read", "put", "vanish", "crash", "remove"}
=============================================================================
