------------------------------ MODULE AuditLog ------------------------------
(***************************************************************************)
(* oq_broker.compliance.AuditLog: the hash-chained audit log that every    *)
(* broker of the process shares.                                           *)
(*                                                                         *)
(* The process keeps the entries in a list (mem) and appends each of them, *)
(* as a line of JSON, to a file that outlives it.  Any number of threads   *)
(* call record, which does its four steps under one lock: hash the entry   *)
(* onto the last one, append it to the list, write the line, release.  A   *)
(* write may fail (disk full, directory gone): record then raises after    *)
(* the entry has joined the list, and the file holds nothing of the line   *)
(* ("lost") or a piece of it ("torn").  The process may die at any moment  *)
(* and start again, reading the file back; when it dies inside the write a *)
(* piece of the line may be in the file though no call raised ("cut").     *)
(*                                                                         *)
(* Abstractions.  The timestamp, event and payload of a record are its     *)
(* serial number, new for every call.  SHA-256 is a symbolic hash without  *)
(* collisions: the digest of an entry is the sequence of the serials       *)
(* chained up to it, so that a digest determines content and predecessor.  *)
(* A line that json.loads cannot read is the value Torn.                   *)
(***************************************************************************)
EXTENDS Integers, Sequences, SequencesExt

CONSTANTS
    Thread,       \* threads that call record
    NoThread,     \* the lock has no holder
    Torn,         \* a line of the file that is not JSON
    Faults,       \* the ways a write may fail, of {"lost", "torn", "cut"}
    MaxRecords,   \* bound: calls of record
    MaxCrashes    \* bound: deaths of the process

VARIABLES
    mem,       \* AuditLog._entries of the running process
    file,      \* the lines of the file, across processes
    open,      \* the file's last line lacks its newline
    lock,      \* AuditLog._lock: its holder
    pc,        \* where each thread is in record
    pending,   \* the entry each thread is recording
    status,    \* "up", "down", or "refused": __init__ raised in _load
    issued,    \* calls of record so far; the last serial given
    returned,  \* history: serials whose record returned
    raised,    \* history: serials whose record raised
    crashes,   \* history: deaths of the process
    cut        \* history: one of them left a piece of a line

vars == <<mem, file, open, lock, pc, pending, status, issued, returned, raised, crashes, cut>>

----------------------------------------------------------------------------
(* Entries and their hashes. *)

Serial == Nat \ {0}
Digest == Seq(Serial)
Entry  == [serial : Serial, prev_hash : Digest, hash : Digest]

ASSUME AuditLogAssumption ==
    /\ NoThread \notin Thread
    /\ Torn \notin Entry
    /\ Faults \subseteq {"lost", "torn", "cut"}
    /\ MaxRecords \in Nat
    /\ MaxCrashes \in Nat

GENESIS == <<>>

(* Seeded fault: the digest leaves the content out. *)
compute_hash_of_link(serial, prev_hash) == Append(prev_hash, 1)

(* AuditEntry.compute_hash: a digest of the content and of prev_hash. *)
compute_hash(serial, prev_hash) == Append(prev_hash, serial)

(* The hash the next entry of the list s is chained to. *)
LastHash(s) == IF s = <<>> THEN GENESIS ELSE s[Len(s)].hash

(* AuditLog.verify, over a list of entries. *)
Verifies(s) ==
    \A i \in 1..Len(s) :
        /\ s[i].prev_hash = IF i = 1 THEN GENESIS ELSE s[i - 1].hash
        /\ s[i].hash = compute_hash(s[i].serial, s[i].prev_hash)

Serials(s) == {s[i].serial : i \in 1..Len(s)}

----------------------------------------------------------------------------
(* The file.  A write appends to the last line when that lacks its newline, *)
(* and then the line is no JSON any more.                                   *)

(* Seeded fault: repairing a file without its newline drops what precedes. *)
WithLineRepaired(line) == IF open THEN <<line>> ELSE Append(file, line)

WithLine(line) ==
    IF open THEN [file EXCEPT ![Len(file)] = Torn] ELSE Append(file, line)

Readable(f) == \A i \in 1..Len(f) : f[i] # Torn

----------------------------------------------------------------------------
Idle == [serial |-> 1, prev_hash |-> GENESIS, hash |-> GENESIS]

Init ==
    /\ mem = <<>>
    /\ file = <<>>
    /\ open = FALSE
    /\ lock = NoThread
    /\ pc = [t \in Thread |-> "idle"]
    /\ pending = [t \in Thread |-> Idle]
    /\ status = "up"
    /\ issued = 0
    /\ returned = {}
    /\ raised = {}
    /\ crashes = 0
    /\ cut = FALSE

(* Seeded fault: record without the lock. *)
AcquireUnlocked(t) ==
    /\ status = "up"
    /\ pc[t] = "idle"
    /\ issued < MaxRecords
    /\ lock' = t
    /\ pc' = [pc EXCEPT ![t] = "locked"]
    /\ UNCHANGED <<mem, file, open, pending, status, issued, returned, raised, crashes, cut>>

(* record: with self._lock. *)
Acquire(t) ==
    /\ status = "up"
    /\ pc[t] = "idle"
    /\ issued < MaxRecords
    /\ lock = NoThread
    /\ lock' = t
    /\ pc' = [pc EXCEPT ![t] = "locked"]
    /\ UNCHANGED <<mem, file, open, pending, status, issued, returned, raised, crashes, cut>>

(* record: read the last hash, build the entry, hash it. *)
Chain(t) ==
    /\ pc[t] = "locked"
    /\ issued' = issued + 1
    /\ LET prev == LastHash(mem)
       IN  pending' = [pending EXCEPT ![t] =
              [serial    |-> issued + 1,
               prev_hash |-> prev,
               hash      |-> compute_hash(issued + 1, prev)]]
    /\ pc' = [pc EXCEPT ![t] = "chained"]
    /\ UNCHANGED <<mem, file, open, lock, status, returned, raised, crashes, cut>>

(* record: self._entries.append(entry). *)
AppendEntry(t) ==
    /\ pc[t] = "chained"
    /\ mem' = Append(mem, pending[t])
    /\ pc' = [pc EXCEPT ![t] = "appended"]
    /\ UNCHANGED <<file, open, lock, pending, status, issued, returned, raised, crashes, cut>>

(* _write: the whole line reaches the file. *)
Write(t) ==
    /\ pc[t] = "appended"
    /\ file' = WithLine(pending[t])
    /\ open' = FALSE
    /\ pc' = [pc EXCEPT ![t] = "written"]
    /\ UNCHANGED <<mem, lock, pending, status, issued, returned, raised, crashes, cut>>

(* Seeded fault: acquire and release by hand, and an early way out. *)
LeaveHolding(t) ==
    /\ lock' = lock
    /\ pc' = [pc EXCEPT ![t] = "idle"]
    /\ pending' = [pending EXCEPT ![t] = Idle]

(* The lock is released on the way out of record, normal or not. *)
Leave(t) ==
    /\ lock' = NoThread
    /\ pc' = [pc EXCEPT ![t] = "idle"]
    /\ pending' = [pending EXCEPT ![t] = Idle]

(* Seeded fault: record returns and leaves the write to run behind it. *)
ReturnEarly(t) ==
    /\ pc[t] \in {"appended", "written"}
    /\ returned' = returned \union {pending[t].serial}
    /\ Leave(t)
    /\ UNCHANGED <<mem, file, open, status, issued, raised, crashes, cut>>

(* record: return entry. *)
Return(t) ==
    /\ pc[t] = "written"
    /\ returned' = returned \union {pending[t].serial}
    /\ Leave(t)
    /\ UNCHANGED <<mem, file, open, status, issued, raised, crashes, cut>>

(* _write raises and record with it.  A strict prefix of the line, its      *)
(* newline in any case excluded, is in the file: nothing, a fragment, or    *)
(* the JSON without its newline.                                            *)
WriteFails(t) ==
    /\ pc[t] = "appended"
    /\ \/ /\ "lost" \in Faults
          /\ UNCHANGED <<file, open>>
       \/ /\ "torn" \in Faults
          /\ \E piece \in {Torn, pending[t]} : file' = WithLine(piece)
          /\ open' = TRUE
    /\ raised' = raised \union {pending[t].serial}
    /\ Leave(t)
    /\ UNCHANGED <<mem, status, issued, returned, crashes, cut>>

(* The process dies, with its list, its threads and its lock.  If it was in *)
(* fh.write, a strict prefix of the line may have reached the file.         *)
Crash ==
    /\ status = "up"
    /\ crashes < MaxCrashes
    /\ crashes' = crashes + 1
    /\ status' = "down"
    /\ mem' = <<>>
    /\ lock' = NoThread
    /\ pc' = [t \in Thread |-> "idle"]
    /\ pending' = [t \in Thread |-> Idle]
    /\ \/ UNCHANGED <<file, open, cut>>
       \/ /\ "cut" \in Faults
          /\ \E t \in Thread :
                /\ pc[t] = "appended"
                /\ \E piece \in {Torn, pending[t]} : file' = WithLine(piece)
          /\ open' = TRUE
          /\ cut' = TRUE
    /\ UNCHANGED <<issued, returned, raised>>

(* Seeded fault: __init__ starts an empty list over an existing file. *)
RestartEmpty ==
    /\ status = "down"
    /\ mem' = <<>>
    /\ status' = "up"
    /\ UNCHANGED <<file, open, lock, pc, pending, issued, returned, raised, crashes, cut>>

(* AuditLog(path): __init__ loads the file, or raises on a line that is no *)
(* JSON; nothing checks the chain.                                         *)
Restart ==
    /\ status = "down"
    /\ IF Readable(file)
       THEN mem' = file /\ status' = "up"
       ELSE mem' = mem /\ status' = "refused"
    /\ UNCHANGED <<file, open, lock, pc, pending, issued, returned, raised, crashes, cut>>

record(t) ==
    \/ Acquire(t)
    \/ Chain(t)
    \/ AppendEntry(t)
    \/ Write(t)
    \/ Return(t)
    \/ WriteFails(t)

Next ==
    \/ \E t \in Thread : record(t)
    \/ Crash
    \/ Restart

Spec == Init /\ [][Next]_vars

(* A thread inside record runs on to its end. *)
FairSpec ==
    /\ Spec
    /\ \A t \in Thread : WF_vars(record(t) /\ pc[t] # "idle")

----------------------------------------------------------------------------
(* Properties. *)

(* Every variable keeps its type: in particular the running process holds   *)
(* entries only, never a piece of a line it could not read.                 *)
TypeOK ==
    /\ mem \in Seq(Entry)
    /\ file \in Seq(Entry \union {Torn})
    /\ open \in BOOLEAN
    /\ lock \in Thread \union {NoThread}
    /\ pc \in [Thread -> {"idle", "locked", "chained", "appended", "written"}]
    /\ pending \in [Thread -> Entry]
    /\ status \in {"up", "down", "refused"}
    /\ issued \in Nat
    /\ returned \in SUBSET Serial
    /\ raised \in SUBSET Serial
    /\ crashes \in Nat
    /\ cut \in BOOLEAN

(* verify() is TRUE in every process that has seen no failed write or has   *)
(* not been restarted since: whatever the order the threads came in, every  *)
(* entry is chained to the one before it (AuditLog.record, under _lock).    *)
MemVerifies == (raised = {} \/ crashes = 0) => Verifies(mem)

(* The lines before the first that is damaged: one that is no JSON, or the  *)
(* last when it lacks its newline, which the next write will run into.      *)
Intact(f, unended, i) == f[i] # Torn /\ ~(unended /\ i = Len(f))

IsIntactUpTo(f, unended, n) ==
    /\ \A i \in 1..n : Intact(f, unended, i)
    /\ n < Len(f) => ~Intact(f, unended, n + 1)

IntactLines(f, unended) == CHOOSE n \in 0..Len(f) : IsIntactUpTo(f, unended, n)

Whole == ~open /\ Readable(file)

(* The lines before the first that is no JSON. *)
Legible == SubSeq(file, 1, IntactLines(file, FALSE))

(* As long as no record raised, the lines of the file that can be read are  *)
(* a chain from GENESIS, wherever the processes died; and the file can be   *)
(* read to its end unless one of them died in the middle of a write.        *)
FileVerifies ==
    raised = {} =>
        /\ Verifies(Legible)
        /\ ~cut => Whole

(* As long as no record raised, the list of a running process continues     *)
(* what can be read of the file; and while that is all of it they say the   *)
(* same, but for the one entry that is being written.                       *)
MemMirrorsFile ==
    raised = {} /\ status = "up" =>
        /\ IsPrefix(Legible, mem)
        /\ Readable(file) =>
              /\ Len(mem) <= Len(file) + 1
              /\ lock = NoThread => mem = file

(* "Tampering with any prior line breaks the chain": verify() notices when  *)
(* an entry other than the last is replaced or taken out, when two that     *)
(* follow each other change places, and when one is put in before another.  *)
Forgeries ==
    LET digests == {GENESIS} \union {mem[i].hash : i \in 1..Len(mem)}
    IN  [serial : 1..MaxRecords, prev_hash : digests, hash : digests]

Exchanged(s, i) == [s EXCEPT ![i] = s[i + 1], ![i + 1] = s[i]]

TamperEvident ==
    Verifies(mem) =>
        /\ \A i \in 1..(Len(mem) - 1) :
              /\ ~Verifies(RemoveAt(mem, i))
              /\ ~Verifies(Exchanged(mem, i))
              /\ \A e \in Forgeries : e # mem[i] => ~Verifies([mem EXCEPT ![i] = e])
        /\ \A i \in 1..Len(mem), e \in Forgeries : ~Verifies(InsertAt(mem, i, e))

(* What the file still says that can be read. *)
Persisted == {file[i].serial : i \in {j \in 1..Len(file) : file[j] # Torn}}

(* A record that returned to its caller can be read in the file, and goes   *)
(* on being readable there, as long as no write has left a piece of a line. *)
ReturnedIsPersisted == Whole => returned \subseteq Persisted

(* Even when a write stops half-way only the last line can be damaged.      *)
EarlierLinesStay ==
    [][\A i \in 1..(Len(file) - 1) : i <= Len(file') /\ file'[i] = file[i]]_vars

(* However record ends, by a return, by an exception or by the death of the *)
(* process, no thread keeps the lock for ever.                              *)
LockReleased == \A t \in Thread : (lock = t) ~> (lock # t)

FileSerials == [i \in 1..IntactLines(file, open) |-> file[i].serial]

(* The file is a Ledger: each record enters it whole and once, before its   *)
(* call returns, and stays, across crashes and also across the write that   *)
(* stops half-way, in a raise or in a death, after which the lines before   *)
(* the damage still stand.                                                  *)
L == INSTANCE Ledger WITH
        Record <- 1..MaxRecords, ledger <- FileSerials, returned <- returned,
        whole <- Whole

ImplementsLedger == L!Spec
=============================================================================
