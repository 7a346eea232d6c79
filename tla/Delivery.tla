------------------------------ MODULE Delivery ------------------------------
(***************************************************************************)
(* What one call of the receiver's Do promises its caller, without         *)
(* goroutines, messages or pipes.  Entries of the file list are asked for  *)
(* in order; each file that was asked for is stored at most once, also in  *)
(* order; and a successful end means that every file that was asked for    *)
(* is in the store with the sender's content, except the excused ones.     *)
(* A failed end promises nothing about the files not yet stored, and does  *)
(* not exclude one late store by the goroutine that Do leaves behind.      *)
(***************************************************************************)
EXTENDS Integers

CONSTANTS
  Entry,      (* indices of the file list                                  *)
  Contents,   (* what a file can hold                                      *)
  Nothing,    (* not stored                                                *)
  Wanted      (* the sender's files: [Entry -> Contents]                   *)

VARIABLES
  listing,    (* TRUE: nothing is to be stored (a dry run)                 *)
  result,     (* "running", "ok" or "failed"                               *)
  requested,  (* the entries asked for                                     *)
  excused,    (* the sender skipped them, or the store refused them        *)
  stored      (* what was stored                                           *)

dvars == <<listing, result, requested, excused, stored>>

DeliveryInit ==
  /\ listing \in BOOLEAN
  /\ result = "running"
  /\ requested = {} /\ excused = {}
  /\ stored = [e \in Entry |-> Nothing]

Request(e) ==
  /\ result = "running"
  /\ \A r \in requested : r < e
  /\ requested' = requested \cup {e}
  /\ UNCHANGED <<listing, result, excused, stored>>

(* Excused is only what was asked for.                                     *)
Excuse(e) ==
  /\ result # "ok" /\ e \in requested
  /\ excused' = excused \cup {e}
  /\ UNCHANGED <<listing, result, requested, stored>>

Store(e) ==
  /\ result # "ok" /\ ~listing
  /\ e \in requested \ excused
  /\ \A s \in Entry : stored[s] # Nothing => s < e
  /\ stored' = [stored EXCEPT ![e] = stored'[e]]
  /\ stored'[e] \in Contents
  /\ UNCHANGED <<listing, result, requested, excused>>

Delivered(e) == stored[e] = Wanted[e]

Succeed ==
  /\ result = "running"
  /\ listing \/ \A e \in requested \ excused : Delivered(e)
  /\ result' = "ok"
  /\ UNCHANGED <<listing, requested, excused, stored>>

Fail ==
  /\ result = "running"
  /\ result' = "failed"
  /\ UNCHANGED <<listing, requested, excused, stored>>

DeliveryNext ==
  \/ \E e \in Entry : Request(e) \/ Excuse(e) \/ Store(e)
  \/ Succeed \/ Fail

Delivery == DeliveryInit /\ [][DeliveryNext]_dvars

=============================================================================
