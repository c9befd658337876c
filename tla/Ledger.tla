------------------------------- MODULE Ledger -------------------------------
(***************************************************************************)
(* What oq-broker's audit log promises its callers, with no lock, no       *)
(* memory and no file: a ledger of records.  A record enters the ledger    *)
(* whole, at the end, once; a call returns only when its record is in the  *)
(* ledger; nothing that entered ever leaves or changes place, whatever     *)
(* process dies.  A write that stops half-way, because it fails or because *)
(* its process dies, tears the ledger: what had entered stays, and from    *)
(* then on nothing enters and no call that returns has a promise.          *)
(*                                                                         *)
(* A record is named by its serial number, which stands for the timestamp, *)
(* event and payload of one call of AuditLog.record.                       *)
(***************************************************************************)
EXTENDS Naturals, Sequences

CONSTANT Record     \* the records there may be

VARIABLES
    ledger,     \* the records, in order of entry
    returned,   \* the records whose call returned normally
    whole       \* no write has stopped half-way

ledgerVars == <<ledger, returned, whole>>

Entered == {ledger[i] : i \in 1..Len(ledger)}

Init ==
    /\ ledger = <<>>
    /\ returned = {}
    /\ whole = TRUE

(* The record e is made durable. *)
Commit(e) ==
    /\ whole
    /\ e \notin Entered
    /\ ledger' = Append(ledger, e)
    /\ UNCHANGED <<returned, whole>>

(* The call that wrote e returns to its caller. *)
Return(e) ==
    /\ whole => e \in Entered
    /\ returned' = returned \union {e}
    /\ UNCHANGED <<ledger, whole>>

(* A write stops half-way. *)
Tear ==
    /\ whole' = FALSE
    /\ UNCHANGED <<ledger, returned>>

Next ==
    \/ \E e \in Record : Commit(e) \/ Return(e)
    \/ Tear

Spec == Init /\ [][Next]_ledgerVars
=============================================================================
