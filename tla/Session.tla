------------------------------ MODULE Session -------------------------------
(***************************************************************************)
(* One session from ClientRun to its return: the greeting, the switch to   *)
(* messages, filter rules, file list, deletion, the exchange that Receiver *)
(* and Sender model, and the deferred error message (both client.go).      *)
(*                                                                         *)
(* ClientRun writes to the connection of module Wire.  The rsync client at *)
(* the other end is external: it reads with MultiplexReader, and what it   *)
(* writes, which is not multiplexed, is a script that may stop anywhere.   *)
(* Where it stops the connection ends: for a client that is silent on an   *)
(* open connection the code would wait forever, as it sets no deadline.    *)
(***************************************************************************)
EXTENDS Wire

CONSTANTS
  Roles,       (* which ClientRun: "sender" or "receiver"                  *)
  Scripts,     (* how many rules, entries and replies a client writes      *)
  MaxWritten,  (* bound: no data message is begun after that many bytes    *)
  ErrorSize    (* how long an error message is                             *)

ASSUME SessionAssumption ==
  /\ Roles \subseteq {"sender", "receiver"}
  /\ Scripts \subseteq [rules : Nat, entries : Nat, items : Nat]
  /\ MaxWritten \in Nat /\ ErrorSize \in Nat \ {0} /\ {1, ErrorSize} \subseteq Sizes

VARIABLES
  role, delete, negotiate,   (* which ClientRun, opts.DeleteMode, negotiate *)
  flag,        (* external: the I/O error flag of the client's file list   *)
  up,          (* what the client still writes                             *)
  pc,
  err,         (* whether the err is set that the deferred function sees   *)
  ioErrors,    (* rt.IOErrors > 0                                          *)
  removed,     (* history: Files.Remove was called                         *)
  failedAt     (* history: where ClientRun failed                          *)

optVars     == <<role, delete, negotiate, flag>>
serverVars  == <<pc, err, ioErrors, removed, failedAt>>
sessionVars == <<wireVars, optVars, up, serverVars>>

Final == {"done", "failed"}

-----------------------------------------------------------------------------
(* What a client writes that gets to the end.                              *)

ReadsRules == role = "sender" \/ delete

Times(n, item) == [i \in 1 .. n |-> item]

Script(s) ==
     (IF negotiate THEN <<"version">> ELSE <<>>)
  \o (IF ReadsRules THEN Append(Times(s.rules, "rule"), "end of rules") ELSE <<>>)
  \o (IF role = "receiver" THEN Append(Times(s.entries, "entry"), "end of list") ELSE <<>>)
  \o Times(s.items, "item") \o <<"end">>

Take(item) == up # <<>> /\ Head(up) = item /\ up' = Tail(up)
Stops      == up = <<>> /\ UNCHANGED up

-----------------------------------------------------------------------------
(* ClientRun.  Every step but the payload waits for a message to be whole. *)

Quiet == UNCHANGED wireVars /\ pending = NoMessage

At(place, next) == pc = place /\ pc' = next

(* Variant: a failed file list is also caught in an err of its own.        *)
FailedShadows ==
  /\ failedAt' = pc
  /\ err' = (pc \notin {"version", "greet", "seed", "list"})
  /\ pc' = IF err' THEN "tell" ELSE "failed"

(* return err.  In two places the err returned is declared in a block of   *)
(* its own, and a failed negotiation comes before the deferred function.   *)
Failed ==
  /\ failedAt' = pc
  /\ err' = ~ \/ pc \in {"version", "greet", "seed"}
              \/ pc = "filter" /\ role = "receiver"
  /\ pc' = IF err' THEN "tell" ELSE "failed"

(* Variant: the version is read and not answered.                          *)
ReadVersionSilently ==
  /\ At("version", "seed") /\ Take("version") /\ Quiet
  /\ UNCHANGED <<optVars, err, ioErrors, removed, failedAt>>

ReadVersion ==
  /\ At("version", "greet") /\ Take("version") /\ Quiet
  /\ UNCHANGED <<optVars, err, ioErrors, removed, failedAt>>

WriteVersion ==
  /\ At("greet", "seed") /\ WritePlain
  /\ UNCHANGED <<optVars, up, err, ioErrors, removed, failedAt>>

(* Variant: the switch to messages comes before the seed.                  *)
WriteSeedMultiplexed ==
  /\ At("seed", IF ReadsRules THEN "filter" ELSE "list")
  /\ ~closed /\ plainOut' = 0
  /\ conn' = conn \o <<Header(Message("data", 1)), Byte(Message("data", 1), 1)>>
  /\ written' = written + 1
  /\ UNCHANGED <<closed, pending, over, readerVars>>
  /\ UNCHANGED <<optVars, up, err, ioErrors, removed, failedAt>>

(* Everything after the seed is a message.                                 *)
WriteSeed ==
  /\ At("seed", IF ReadsRules THEN "filter" ELSE "list") /\ WritePlain
  /\ UNCHANGED <<optVars, up, err, ioErrors, removed, failedAt>>

ReadRule ==
  /\ \/ At("filter", "filter") /\ Take("rule")
     \/ At("filter", "list") /\ Take("end of rules")
  /\ Quiet /\ UNCHANGED <<optVars, err, ioErrors, removed, failedAt>>

(* The sender's list is written at once, however long it is.               *)
WriteList ==
  /\ role = "sender" /\ At("list", "serve")
  /\ \E n \in Sizes : WriteHeader("data", n)
  /\ UNCHANGED <<optVars, up, err, ioErrors, removed, failedAt>>

(* Variant: the flag at the end of the list is dropped.                    *)
ReadListForgets ==
  /\ role = "receiver" /\ Quiet
  /\ \/ At("list", "list") /\ Take("entry")
     \/ At("list", "delete") /\ Take("end of list")
  /\ UNCHANGED <<optVars, err, ioErrors, removed, failedAt>>

ReadList ==
  /\ role = "receiver" /\ Quiet
  /\ \/ At("list", "list") /\ Take("entry") /\ UNCHANGED ioErrors
     \/ At("list", "delete") /\ Take("end of list") /\ ioErrors' = flag
  /\ UNCHANGED <<optVars, err, removed, failedAt>>

(* Remove may have removed something when it fails.                        *)
DeleteFiles ==
  /\ pc = "delete" /\ Quiet
  /\ removed' = (delete /\ ~ioErrors)
  /\ \/ pc' = "serve" /\ UNCHANGED <<err, failedAt>>
     \/ removed' /\ Failed
  /\ UNCHANGED <<optVars, up, ioErrors>>

(* GenerateFiles and RecvFiles, or SendFiles: messages out, items in.  The *)
(* receiver's goodbye follows the last reply, the sender's statistics come *)
(* before the client's goodbye.                                            *)
Serve ==
  /\ \/ /\ At("serve", "serve") /\ written < MaxWritten /\ UNCHANGED up
        /\ \E n \in Sizes : WriteHeader("data", n)
     \/ At("serve", "serve") /\ Take("item") /\ Quiet
     \/ role = "sender" /\ At("serve", "done") /\ Take("end") /\ Quiet
     \/ /\ role = "receiver" /\ At("serve", "done") /\ Take("end")
        /\ WriteHeader("data", 1)
  /\ UNCHANGED <<optVars, err, ioErrors, removed, failedAt>>

WriteRest ==
  /\ WritePayload
  /\ UNCHANGED <<optVars, up, serverVars>>

(* A read of what does not come, a write to what is closed, or a failure   *)
(* of the file system (Files.List, Read, Put and so on).                   *)
Fails ==
  /\ pc \notin {"delete", "tell"} \cup Final
  /\ \/ pc \in {"version", "filter", "serve"} /\ Stops
     \/ pc = "list" /\ role = "receiver" /\ Stops
     \/ pc \in {"greet", "seed", "list", "serve"} /\ closed /\ UNCHANGED up
     \/ pc = "list" /\ role = "sender" /\ UNCHANGED up
     \/ pc = "serve" /\ UNCHANGED up
  /\ pending = NoMessage \/ closed
  /\ Failed
  /\ UNCHANGED <<wireVars, optVars, ioErrors, removed>>

(* The deferred function, which drops the error of its own write.          *)
Tell ==
  /\ At("tell", "failed")
  /\ \/ WriteHeader("error", ErrorSize)
     \/ closed /\ UNCHANGED wireVars
  /\ UNCHANGED <<optVars, up, err, ioErrors, removed, failedAt>>

ClientRun ==
  \/ ReadVersion \/ WriteVersion \/ WriteSeed \/ ReadRule \/ WriteList \/ ReadList
  \/ DeleteFiles \/ Serve \/ WriteRest \/ Fails \/ Tell

-----------------------------------------------------------------------------
(* The caller of ClientRun closes the connection, and all that was written *)
(* arrives.                                                                *)
Close ==
  /\ pc \in Final /\ pending = NoMessage
  /\ Cut /\ conn' = conn
  /\ UNCHANGED <<optVars, up, serverVars>>

(* The connection breaks, or the client goes away.                         *)
Break ==
  /\ Cut /\ up' = <<>>
  /\ UNCHANGED <<optVars, serverVars>>

ClientReads == Reads /\ UNCHANGED <<optVars, up, serverVars>>

SessionInit ==
  /\ role \in Roles /\ delete \in BOOLEAN /\ negotiate \in BOOLEAN /\ flag \in BOOLEAN
  /\ \E s \in Scripts : \E n \in 0 .. Len(Script(s)) : up = SubSeq(Script(s), 1, n)
  /\ pc = (IF negotiate THEN "version" ELSE "seed")
  /\ err = FALSE /\ ioErrors = FALSE /\ removed = FALSE /\ failedAt = "nowhere"
  /\ WireInit /\ plainOut = (IF negotiate THEN 2 ELSE 1)

SessionNext == ClientRun \/ Close \/ Break \/ ClientReads

Fairness == WF_sessionVars(ClientRun) /\ WF_sessionVars(Close) /\ WF_sessionVars(ClientReads)

Session == SessionInit /\ [][SessionNext]_sessionVars /\ Fairness

-----------------------------------------------------------------------------
Items  == {"version", "rule", "end of rules", "entry", "end of list", "item", "end"}
Places == {"version", "greet", "seed", "filter", "list", "delete", "serve", "tell"} \cup Final

(* Types, and how much of the greeting is written at each place.           *)
TypeOK ==
  /\ role \in Roles /\ delete \in BOOLEAN /\ negotiate \in BOOLEAN /\ flag \in BOOLEAN
  /\ up \in Seq(Items) /\ pc \in Places
  /\ err \in BOOLEAN /\ ioErrors \in BOOLEAN /\ removed \in BOOLEAN
  /\ plainOut \in 0 .. 2 /\ plainIn \in 0 .. 2
  /\ pc \in {"version", "greet"} => plainOut = 2
  /\ pc = "seed" => plainOut = 1
  /\ pc \in {"filter", "list", "delete", "serve", "tell"} => plainOut = 0

(* A client that has read all that arrived on a sound connection knows     *)
(* when ClientRun has failed: it has read the message of the deferred      *)
(* function, or had given up before.  A failure while an upload's filter   *)
(* rules are read is the exception (rsyncreceiver/client.go:86-92).  And   *)
(* only a failed ClientRun is reported: not even an overlong message, of   *)
(* which some bits of the length fall on the type, is taken for an error.  *)
FailureIsHeard ==
  /\ reader = "told" => pc = "failed"
  /\ \/ pc # "failed" \/ plainOut > 0 \/ pending # NoMessage
     \/ closed \/ conn # <<>> \/ over
     \/ role = "receiver" /\ failedAt = "filter"
     \/ reader \in {"told", "refused", "panic"}

(* Files are removed only for a client that asked for it, had no I/O       *)
(* errors, and has written its rules and its list to their ends.           *)
DeletionIsSafe ==
  removed => delete /\ ~flag /\ \A i \in 1 .. Len(up) : up[i] \in {"item", "end"}

(* ClientRun returns, and the client comes to an end: nobody is left       *)
(* waiting once the client hangs up or gets to the end of its script.      *)
BothEnd == <>(pc \in Final /\ reader \in Ended)
=============================================================================
