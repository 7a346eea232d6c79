----------------------------- MODULE MCSession ------------------------------
(* A small instance of Session for TLC.                                    *)
EXTENDS Session

MCScripts == {[rules |-> 1, entries |-> 1, items |-> 1]}
=============================================================================
