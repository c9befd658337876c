--------------------------- MODULE AuditLog_proofs ---------------------------
(***************************************************************************)
(* Proofs about AuditLog, for every set of threads, every bound and every  *)
(* kind of write failure:                                                  *)
(*   - its type invariant;                                                 *)
(*   - the chain of the list and of the file, across threads, crashes and  *)
(*     restarts;                                                           *)
(*   - what has been returned is in the file as long as no write left a    *)
(*     piece of a line, and the file is a Ledger, such writes included;    *)
(*   - no line but the last can be replaced, taken out, exchanged with its *)
(*     neighbour or preceded by another without verify() noticing.         *)
(***************************************************************************)
EXTENDS AuditLog, TLAPS

----------------------------------------------------------------------------
(* Facts about lists of entries. *)

(* The digest of an entry determines its content and its predecessor. *)
LEMMA HashInjective ==
    ASSUME NEW s1 \in Serial, NEW s2 \in Serial,
           NEW p1 \in Digest, NEW p2 \in Digest,
           compute_hash(s1, p1) = compute_hash(s2, p2)
    PROVE  s1 = s2 /\ p1 = p2
<1> DEFINE h1 == Append(p1, s1)
           h2 == Append(p2, s2)
<1>1. h1 = h2
  BY DEF compute_hash
<1>2. Len(h1) = Len(p1) + 1 /\ Len(h2) = Len(p2) + 1
  BY DEF Digest
<1>3. Len(p1) = Len(p2)
  BY <1>1, <1>2 DEF Digest
<1>4. s1 = s2
  <2>1. h1[Len(p1) + 1] = s1 /\ h2[Len(p2) + 1] = s2
    BY DEF Digest
  <2>2. QED  BY <1>1, <1>3, <2>1
<1>5. \A i \in 1..Len(p1) : p1[i] = p2[i]
  <2>1. \A i \in 1..Len(p1) : h1[i] = p1[i] /\ h2[i] = p2[i]
    BY <1>3 DEF Digest
  <2>2. QED  BY <1>1, <2>1
<1>6. p1 = p2
  BY <1>3, <1>5 DEF Digest
<1>7. QED  BY <1>4, <1>6

(* The digest of an entry is not the one it is chained to. *)
LEMMA HashIsLonger ==
    ASSUME NEW n \in Serial, NEW p \in Digest
    PROVE  compute_hash(n, p) # p
<1>1. Len(Append(p, n)) = Len(p) + 1 /\ Len(p) \in Nat
  BY DEF Digest
<1>2. QED  BY <1>1 DEF compute_hash

(* An entry hashed onto the last one continues a chain. *)
LEMMA ChainExtends ==
    ASSUME NEW s \in Seq(Entry), Verifies(s),
           NEW e \in Entry,
           e.prev_hash = LastHash(s),
           e.hash = compute_hash(e.serial, e.prev_hash)
    PROVE  Verifies(Append(s, e))
<1> DEFINE t == Append(s, e)
<1>1. t \in Seq(Entry) /\ Len(t) = Len(s) + 1 /\ t[Len(s) + 1] = e
  OBVIOUS
<1>2. \A i \in 1..Len(s) : t[i] = s[i]
  OBVIOUS
<1>3. ASSUME NEW i \in 1..Len(t)
      PROVE  /\ t[i].prev_hash = IF i = 1 THEN GENESIS ELSE t[i - 1].hash
             /\ t[i].hash = compute_hash(t[i].serial, t[i].prev_hash)
  <2>1. CASE i <= Len(s)
    BY <2>1, <1>1, <1>2 DEF Verifies
  <2>2. CASE i = Len(s) + 1
    <3>1. s = <<>> <=> i = 1
      BY <2>2
    <3>2. i # 1 => t[i - 1] = s[Len(s)]
      BY <2>2, <1>2
    <3>3. QED  BY <1>1, <2>2, <3>1, <3>2 DEF LastHash
  <2>3. QED  BY <1>1, <2>1, <2>2
<1>4. QED  BY <1>3 DEF Verifies

(* One entry, not the last, replaced by another.                            *)
LEMMA ForgeryIsDetected ==
    ASSUME NEW s \in Seq(Entry), Verifies(s),
           NEW i \in 1..(Len(s) - 1),
           NEW e \in Entry, e # s[i]
    PROVE  ~Verifies([s EXCEPT ![i] = e])
<1> DEFINE t == [s EXCEPT ![i] = e]
<1>1. SUFFICES ASSUME Verifies(t) PROVE FALSE
  OBVIOUS
<1>2. /\ Len(t) = Len(s) /\ i \in 1..Len(s) /\ i + 1 \in 1..Len(s)
      /\ t[i] = e /\ t[i + 1] = s[i + 1]
      /\ s[i] \in Entry
  OBVIOUS
<1>3. /\ s[i + 1].prev_hash = s[i].hash
      /\ s[i].hash = compute_hash(s[i].serial, s[i].prev_hash)
  BY <1>2 DEF Verifies
<1>4. /\ t[i + 1].prev_hash = t[i].hash
      /\ t[i].hash = compute_hash(t[i].serial, t[i].prev_hash)
  BY <1>1, <1>2 DEF Verifies
<1>5. e.hash = s[i].hash
  BY <1>2, <1>3, <1>4
<1>6. e.serial = s[i].serial /\ e.prev_hash = s[i].prev_hash
  BY <1>2, <1>3, <1>4, <1>5, HashInjective DEF Entry
<1>7. e = s[i]
  BY <1>2, <1>5, <1>6 DEF Entry
<1>8. QED  BY <1>7

(* One entry, not the last, taken out. *)
LEMMA RemovalIsDetected ==
    ASSUME NEW s \in Seq(Entry), Verifies(s),
           NEW i \in 1..(Len(s) - 1)
    PROVE  ~Verifies(RemoveAt(s, i))
<1> DEFINE t == RemoveAt(s, i)
<1>1. SUFFICES ASSUME Verifies(t) PROVE FALSE
  OBVIOUS
<1>2. /\ i \in 1..Len(s) /\ i + 1 \in 1..Len(s)
      /\ s[i] \in Entry /\ s[i + 1] \in Entry
      /\ i # 1 => i - 1 \in 1..Len(s)
  OBVIOUS
<1>3. /\ Len(t) = Len(s) - 1 /\ t[i] = s[i + 1]
      /\ i # 1 => t[i - 1] = s[i - 1]
  BY <1>2 DEF RemoveAt
<1>4. i \in 1..Len(t)
  BY <1>3
<1> HIDE DEF t
<1>5. s[i + 1].prev_hash = s[i].hash
  BY <1>2 DEF Verifies
<1>6. s[i + 1].prev_hash = s[i].prev_hash
  BY <1>1, <1>2, <1>3, <1>4 DEF Verifies
<1>7. s[i].hash = compute_hash(s[i].serial, s[i].prev_hash)
  BY <1>2 DEF Verifies
<1>8. QED  BY <1>2, <1>5, <1>6, <1>7, HashIsLonger DEF Entry

(* Two entries that follow each other, exchanged. *)
LEMMA ExchangeIsDetected ==
    ASSUME NEW s \in Seq(Entry), Verifies(s),
           NEW i \in 1..(Len(s) - 1)
    PROVE  ~Verifies(Exchanged(s, i))
<1> DEFINE t == Exchanged(s, i)
<1>1. SUFFICES ASSUME Verifies(t) PROVE FALSE
  OBVIOUS
<1>2. /\ i \in 1..Len(s) /\ i + 1 \in 1..Len(s)
      /\ s[i] \in Entry /\ s[i + 1] \in Entry
      /\ i # 1 => i - 1 \in 1..Len(s)
  OBVIOUS
<1>3. /\ Len(t) = Len(s) /\ t[i] = s[i + 1]
      /\ i # 1 => t[i - 1] = s[i - 1]
  BY <1>2 DEF Exchanged
<1> HIDE DEF t
<1>5. s[i + 1].prev_hash = s[i].hash
  BY <1>2 DEF Verifies
<1>6. s[i + 1].prev_hash = s[i].prev_hash
  BY <1>1, <1>2, <1>3 DEF Verifies
<1>7. s[i].hash = compute_hash(s[i].serial, s[i].prev_hash)
  BY <1>2 DEF Verifies
<1>8. QED  BY <1>2, <1>5, <1>6, <1>7, HashIsLonger DEF Entry

(* An entry put in before another. *)
LEMMA InsertionIsDetected ==
    ASSUME NEW s \in Seq(Entry), Verifies(s),
           NEW i \in 1..Len(s), NEW e \in Entry
    PROVE  ~Verifies(InsertAt(s, i, e))
<1> DEFINE t == InsertAt(s, i, e)
<1>1. SUFFICES ASSUME Verifies(t) PROVE FALSE
  OBVIOUS
<1>2. s[i] \in Entry /\ (i # 1 => i - 1 \in 1..Len(s))
  OBVIOUS
<1>3. /\ Len(t) = Len(s) + 1 /\ t[i] = e /\ t[i + 1] = s[i]
      /\ i # 1 => t[i - 1] = s[i - 1]
  BY <1>2 DEF InsertAt
<1>4. i \in 1..Len(t) /\ i + 1 \in 1..Len(t)
  BY <1>3
<1> HIDE DEF t
<1>5. e.prev_hash = s[i].prev_hash
  BY <1>1, <1>2, <1>3, <1>4 DEF Verifies
<1>6. s[i].prev_hash = e.hash /\ e.hash = compute_hash(e.serial, e.prev_hash)
  BY <1>1, <1>3, <1>4 DEF Verifies
<1>7. QED  BY <1>5, <1>6, HashIsLonger DEF Entry

(* AuditLog's claim that "tampering with any prior line breaks the chain":  *)
(* take a log that verifies; put another entry in the place of one that is  *)
(* not the last, or take that one out, or exchange it with the next, or put *)
(* an entry in before any: verify() returns False.                          *)
THEOREM TamperingIsDetected ==
    ASSUME NEW s \in Seq(Entry), Verifies(s)
    PROVE  /\ \A i \in 1..(Len(s) - 1) :
                 /\ ~Verifies(RemoveAt(s, i))
                 /\ ~Verifies(Exchanged(s, i))
                 /\ \A e \in Entry : e # s[i] => ~Verifies([s EXCEPT ![i] = e])
           /\ \A i \in 1..Len(s), e \in Entry : ~Verifies(InsertAt(s, i, e))
BY ForgeryIsDetected, RemovalIsDetected, ExchangeIsDetected, InsertionIsDetected
----------------------------------------------------------------------------
(* Types. *)

LEMMA NextEntryTyped ==
    ASSUME TypeOK
    PROVE  LastHash(mem) \in Digest
<1>1. CASE mem = <<>>
  BY <1>1 DEF LastHash, Digest, GENESIS
<1>2. CASE mem # <<>>
  <2>1. mem[Len(mem)] \in Entry
    BY <1>2 DEF TypeOK
  <2>2. QED  BY <1>2, <2>1 DEF LastHash, Entry
<1>3. QED  BY <1>1, <1>2

LEMMA WithLineTyped ==
    ASSUME TypeOK, NEW line \in Entry \union {Torn}
    PROVE  WithLine(line) \in Seq(Entry \union {Torn})
BY DEF TypeOK, WithLine

LEMMA ReadableTyped == TypeOK /\ Readable(file) => file \in Seq(Entry)
BY DEF TypeOK, Readable

LEMMA IdleTyped == Idle \in Entry
BY DEF Idle, Entry, Serial, Digest, GENESIS

LEMMA TypeInit == Init => TypeOK
<1>1. SUFFICES ASSUME Init PROVE TypeOK
  OBVIOUS
<1>2. mem \in Seq(Entry) /\ file \in Seq(Entry \union {Torn})
  BY <1>1 DEF Init
<1>3. pending \in [Thread -> Entry]
  BY <1>1, IdleTyped DEF Init
<1>4. QED  BY <1>1, <1>2, <1>3 DEF Init, TypeOK

LEMMA LeaveTyped ==
    ASSUME TypeOK, NEW t \in Thread, Leave(t)
    PROVE  /\ lock' \in Thread \union {NoThread}
           /\ pc' \in [Thread -> {"idle", "locked", "chained", "appended", "written"}]
           /\ pending' \in [Thread -> Entry]
BY IdleTyped DEF TypeOK, Leave

LEMMA TypeStep == TypeOK /\ [Next]_vars => TypeOK'
<1>1. SUFFICES ASSUME TypeOK, [Next]_vars PROVE TypeOK'
  OBVIOUS
<1>2. ASSUME NEW t \in Thread, Acquire(t) PROVE TypeOK'
  BY <1>1, <1>2 DEF TypeOK, Acquire
<1>3. ASSUME NEW t \in Thread, Chain(t) PROVE TypeOK'
  <2>1. issued + 1 \in Serial
    BY <1>1 DEF TypeOK, Serial
  <2>2. compute_hash(issued + 1, LastHash(mem)) \in Digest
    BY <1>1, <2>1, NextEntryTyped DEF compute_hash, Digest
  <2>3. pending' \in [Thread -> Entry]
    BY <1>1, <1>3, <2>1, <2>2, NextEntryTyped DEF TypeOK, Chain, Entry
  <2>4. QED  BY <1>1, <1>3, <2>3 DEF TypeOK, Chain
<1>4. ASSUME NEW t \in Thread, AppendEntry(t) PROVE TypeOK'
  BY <1>1, <1>4 DEF TypeOK, AppendEntry
<1>5. ASSUME NEW t \in Thread, Write(t) PROVE TypeOK'
  <2>1. pending[t] \in Entry \union {Torn}
    BY <1>1 DEF TypeOK
  <2>2. file' \in Seq(Entry \union {Torn})
    BY <1>1, <1>5, <2>1, WithLineTyped DEF Write
  <2>3. QED  BY <1>1, <1>5, <2>2 DEF TypeOK, Write
<1>6. ASSUME NEW t \in Thread, Return(t) PROVE TypeOK'
  <2>1. pending[t].serial \in Serial
    BY <1>1 DEF TypeOK, Entry
  <2>2. QED  BY <1>1, <1>6, <2>1, LeaveTyped DEF TypeOK, Return
<1>7. ASSUME NEW t \in Thread, WriteFails(t) PROVE TypeOK'
  <2>1. pending[t].serial \in Serial /\ pending[t] \in Entry
    BY <1>1 DEF TypeOK, Entry
  <2>2. file' \in Seq(Entry \union {Torn}) /\ open' \in BOOLEAN
    <3>1. CASE UNCHANGED <<file, open>>
      BY <1>1, <3>1 DEF TypeOK
    <3>2. CASE \E piece \in {Torn, pending[t]} : file' = WithLine(piece) /\ open' = TRUE
      BY <1>1, <2>1, <3>2, WithLineTyped
    <3>3. QED  BY <1>7, <3>1, <3>2 DEF WriteFails
  <2>3. QED  BY <1>1, <1>7, <2>1, <2>2, LeaveTyped DEF TypeOK, WriteFails
<1>8. CASE Crash
  <2>1. file' \in Seq(Entry \union {Torn}) /\ open' \in BOOLEAN /\ cut' \in BOOLEAN
    <3>1. CASE UNCHANGED <<file, open, cut>>
      BY <1>1, <3>1 DEF TypeOK
    <3>2. ASSUME NEW t \in Thread, NEW piece \in {Torn, pending[t]},
                 file' = WithLine(piece), open' = TRUE, cut' = TRUE
          PROVE  file' \in Seq(Entry \union {Torn}) /\ open' \in BOOLEAN /\ cut' \in BOOLEAN
      <4>1. piece \in Entry \union {Torn}
        BY <1>1 DEF TypeOK
      <4>2. QED  BY <1>1, <3>2, <4>1, WithLineTyped
    <3>3. QED  BY <1>8, <3>1, <3>2 DEF Crash
  <2>2. QED  BY <1>1, <1>8, <2>1, IdleTyped DEF TypeOK, Crash
<1>9. CASE Restart
  <2>1. Readable(file) => file \in Seq(Entry)
    BY <1>1, ReadableTyped
  <2>2. mem' \in Seq(Entry) /\ status' \in {"up", "down", "refused"}
    BY <1>1, <1>9, <2>1 DEF TypeOK, Restart
  <2>3. QED  BY <1>1, <1>9, <2>2 DEF TypeOK, Restart
<1>10. CASE UNCHANGED vars
  BY <1>1, <1>10 DEF TypeOK, vars
<1>11. QED
  BY <1>1, <1>2, <1>3, <1>4, <1>5, <1>6, <1>7, <1>8, <1>9, <1>10 DEF Next, record

(* The list of a running process holds entries and nothing else, whatever   *)
(* the threads, the write failures and the restarts (AuditLog.TypeOK).      *)
THEOREM TypeCorrect == Spec => []TypeOK
<1>1. QED  BY TypeInit, TypeStep, PTL DEF Spec

(* Whatever the threads, the failed writes, the deaths and the restarts,    *)
(* verify() notices every edit of the log that TamperingIsDetected names.   *)
THEOREM TamperingShows == Spec => []TamperEvident
<1>1. TypeOK => TamperEvident
  <2>1. SUFFICES ASSUME TypeOK, Verifies(mem) PROVE TamperEvident
    BY DEF TamperEvident
  <2>2. mem \in Seq(Entry)
    BY <2>1 DEF TypeOK
  <2> DEFINE digests == {GENESIS} \union {mem[k].hash : k \in 1..Len(mem)}
  <2>3. digests \subseteq Digest
    <3>1. GENESIS \in Digest
      BY DEF GENESIS, Digest
    <3>2. \A k \in 1..Len(mem) : mem[k] \in Entry
      BY <2>2
    <3>3. \A k \in 1..Len(mem) : mem[k].hash \in Digest
      BY <3>2 DEF Entry
    <3>4. QED  BY <3>1, <3>3
  <2>4. 1..MaxRecords \subseteq Serial
    BY AuditLogAssumption DEF Serial
  <2>5. Forgeries = [serial : 1..MaxRecords, prev_hash : digests, hash : digests]
    BY DEF Forgeries
  <2>6. Forgeries \subseteq Entry
    <3> HIDE DEF digests
    <3>1. QED  BY <2>3, <2>4, <2>5 DEF Entry
  <2>7. QED  BY <2>1, <2>2, <2>6, TamperingIsDetected DEF TamperEvident
<1>2. QED  BY <1>1, TypeCorrect, PTL

LEMMA WithLineKeeps ==
    ASSUME TypeOK, NEW line \in Entry \union {Torn}, NEW i \in 1..(Len(file) - 1)
    PROVE  i <= Len(WithLine(line)) /\ WithLine(line)[i] = file[i]
<1>1. file \in Seq(Entry \union {Torn}) /\ Len(file) \in Nat
  BY DEF TypeOK
<1>2. i \in 1..Len(file) /\ i # Len(file) /\ i <= Len(file)
  BY <1>1
<1>3. CASE open
  <2> DEFINE g == [file EXCEPT ![Len(file)] = Torn]
  <2>1. Len(g) = Len(file)
    BY <1>1
  <2>2. g[i] = file[i]
    BY <1>1, <1>2
  <2> HIDE DEF g
  <2>3. i <= Len(g) /\ g[i] = file[i]
    BY <1>2, <2>1, <2>2
  <2>4. WithLine(line) = g
    BY <1>3 DEF WithLine, g
  <2>5. QED  BY <2>3, <2>4
<1>4. CASE ~open
  <2>1. i <= Len(Append(file, line)) /\ Append(file, line)[i] = file[i]
    BY <1>1, <1>2
  <2>2. QED  BY <1>4, <2>1 DEF WithLine
<1>5. QED  BY <1>3, <1>4

(* No step takes back or changes a line before the last one: a write that   *)
(* stops half-way damages the last line only (AuditLog._write).             *)
THEOREM EarlierLinesKept == Spec => EarlierLinesStay
<1> DEFINE Kept == \A i \in 1..(Len(file) - 1) : i <= Len(file') /\ file'[i] = file[i]
<1>1. TypeOK /\ [Next]_vars => [Kept]_vars
  <2> SUFFICES ASSUME TypeOK, Next PROVE Kept
    OBVIOUS
  <2>1. CASE UNCHANGED file
    <3>1. Len(file) \in Nat
      BY DEF TypeOK
    <3>2. QED  BY <2>1, <3>1
  <2>2. CASE Crash \/ \E t \in Thread : Write(t) \/ WriteFails(t)
    <3>1. \A t \in Thread : pending[t] \in Entry
      BY DEF TypeOK
    <3>2. UNCHANGED file \/ \E line \in Entry \union {Torn} : file' = WithLine(line)
      BY <2>2, <3>1 DEF Write, WriteFails, Crash
    <3>3. QED  BY <2>1, <3>2, WithLineKeeps
  <2>3. QED
    BY <2>1, <2>2 DEF Next, record, Acquire, Chain, AppendEntry, Return, Restart
<1>2. QED  BY <1>1, TypeCorrect, PTL DEF Spec, EarlierLinesStay
----------------------------------------------------------------------------
(* The chain.  MemVerifies and FileVerifies are not inductive: a step keeps *)
(* them because the thread at work holds the lock, because what it is about *)
(* to append was hashed onto the last entry, and because the list continues *)
(* what can be read of the file and, while that is all of it, differs by    *)
(* that entry only.  ChainInv says these things.                            *)

HolderInv ==
    /\ \A t \in Thread : pc[t] # "idle" => lock = t /\ status = "up"
    /\ crashes = 0 => status = "up"

PendingInv ==
    \A t \in Thread : pc[t] = "chained" =>
        /\ pending[t].prev_hash = LastHash(mem)
        /\ pending[t].hash = compute_hash(pending[t].serial, pending[t].prev_hash)

(* The first n lines can be read. *)
ReadableTo(n) == \A i \in 1..n : file[i] # Torn

InStepInv ==
    raised = {} =>
        /\ ~cut => Whole /\ status # "refused"
        /\ \A n \in 0..Len(file) : ReadableTo(n) =>
              /\ Verifies(SubSeq(file, 1, n))
              /\ status = "up" => n <= Len(mem) /\ \A i \in 1..n : mem[i] = file[i]
        /\ status = "up" /\ Readable(file) =>
              /\ (\A t \in Thread : pc[t] # "appended") => mem = file
              /\ \A t \in Thread : pc[t] = "appended" => mem = Append(file, pending[t])

FileInv == open => file # <<>>

ChainInv == TypeOK /\ HolderInv /\ PendingInv /\ FileInv /\ InStepInv /\ MemVerifies

(* What begins a chain is one. *)
LEMMA ChainPrefix ==
    ASSUME NEW s \in Seq(Entry), Verifies(s), NEW n \in 0..Len(s)
    PROVE  Verifies(SubSeq(s, 1, n))
<1>1. Len(SubSeq(s, 1, n)) = n /\ \A i \in 1..n : SubSeq(s, 1, n)[i] = s[i]
  OBVIOUS
<1>2. QED  BY <1>1 DEF Verifies

(* Once something has been written the file is not empty. *)
LEMMA PieceStays ==
    ASSUME TypeOK, FileInv, NEW line \in Entry \union {Torn}, file' = WithLine(line)
    PROVE  file' # <<>>
<1>1. CASE open
  <2>1. Len(file') = Len(file) /\ file # <<>>
    BY <1>1 DEF WithLine, FileInv, TypeOK
  <2>2. QED  BY <2>1 DEF TypeOK
<1>2. CASE ~open
  BY <1>2 DEF WithLine, TypeOK
<1>3. QED  BY <1>1, <1>2

(* A line written after a damaged one, into one without its newline, or not *)
(* to its end lets nothing more be read.                                    *)
LEMMA NoMoreReadable ==
    ASSUME TypeOK, FileInv, NEW line \in Entry \union {Torn},
           file' = WithLine(line), line = Torn \/ ~Whole
    PROVE  /\ ~Readable(file')
           /\ file' # <<>>
           /\ \A n \in 0..Len(file') : ReadableTo(n)' =>
                 /\ n \in 0..Len(file) /\ ReadableTo(n)
                 /\ \A i \in 1..n : file'[i] = file[i]
                 /\ SubSeq(file', 1, n) = SubSeq(file, 1, n)
<1>1. file \in Seq(Entry \union {Torn}) /\ Len(file) \in Nat
  BY DEF TypeOK
<1>2. \E j \in 1..Len(file') :
         /\ file'[j] = Torn /\ j <= Len(file) + 1
         /\ \A i \in 1..(j - 1) : file'[i] = file[i]
  <2>1. CASE open
    <3>1. file' = [file EXCEPT ![Len(file)] = Torn] /\ file # <<>>
      BY <2>1 DEF WithLine, FileInv
    <3>2. QED  BY <1>1, <3>1
  <2>2. CASE ~open
    <3>1. file' = Append(file, line)
      BY <2>2 DEF WithLine
    <3>2. CASE line = Torn
      BY <1>1, <3>1, <3>2
    <3>3. CASE ~Whole
      <4>1. PICK j \in 1..Len(file) : file[j] = Torn
        BY <2>2, <3>3 DEF Whole, Readable
      <4>2. QED  BY <1>1, <3>1, <4>1
    <3>4. QED  BY <3>2, <3>3
  <2>3. QED  BY <2>1, <2>2
<1>3. PICK j \in 1..Len(file') :
         /\ file'[j] = Torn /\ j <= Len(file) + 1
         /\ \A i \in 1..(j - 1) : file'[i] = file[i]
  BY <1>2
<1>4. file' \in Seq(Entry \union {Torn})
  BY WithLineTyped
<1>5. ASSUME NEW n \in 0..Len(file'), ReadableTo(n)'
      PROVE  /\ n \in 0..Len(file) /\ ReadableTo(n)
             /\ \A i \in 1..n : file'[i] = file[i]
             /\ SubSeq(file', 1, n) = SubSeq(file, 1, n)
  <2>1. n < j
    BY <1>3, <1>4, <1>5 DEF ReadableTo
  <2>2. n \in 0..Len(file) /\ \A i \in 1..n : file'[i] = file[i]
    BY <1>1, <1>3, <1>4, <2>1
  <2>3. ReadableTo(n)
    BY <1>5, <2>2 DEF ReadableTo
  <2>4. SubSeq(file', 1, n) = SubSeq(file, 1, n)
    BY <1>1, <1>4, <2>2
  <2>5. QED  BY <2>2, <2>3, <2>4
<1>6. ~Readable(file') /\ file' # <<>>
  BY <1>3, <1>4 DEF Readable
<1>7. QED  BY <1>5, <1>6

LEMMA ChainInit == Init => ChainInv
<1>1. SUFFICES ASSUME Init PROVE ChainInv
  OBVIOUS
<1>2. TypeOK
  BY <1>1, TypeInit
<1>3. HolderInv /\ PendingInv /\ FileInv
  BY <1>1 DEF Init, HolderInv, PendingInv, FileInv
<1>4. InStepInv /\ MemVerifies
  BY <1>1 DEF Init, InStepInv, MemVerifies, Verifies, Readable, Whole
<1>5. QED  BY <1>2, <1>3, <1>4 DEF ChainInv

(* Only one thread is inside record. *)
LEMMA OneInside ==
    ASSUME ChainInv, NEW t \in Thread, pc[t] # "idle"
    PROVE  /\ lock = t /\ status = "up"
           /\ \A u \in Thread : u # t => pc[u] = "idle"
BY DEF ChainInv, HolderInv

LEMMA ChainStep == ChainInv /\ [Next]_vars => ChainInv'
<1>1. SUFFICES ASSUME ChainInv, [Next]_vars PROVE ChainInv'
  OBVIOUS
<1>2. TypeOK /\ TypeOK'
  BY <1>1, TypeStep DEF ChainInv
<1>3. ASSUME NEW t \in Thread, Acquire(t) PROVE ChainInv'
  <2>1. \A u \in Thread : pc[u] = "idle"
    BY <1>1, <1>3, AuditLogAssumption DEF ChainInv, HolderInv, Acquire
  <2>2. pc' = [pc EXCEPT ![t] = "locked"] /\ pc' \in [Thread -> {"idle", "locked"}]
    BY <1>2, <1>3, <2>1 DEF Acquire, TypeOK
  <2>3. HolderInv'
    BY <1>1, <1>2, <1>3, <2>1 DEF ChainInv, HolderInv, Acquire, TypeOK
  <2>4. PendingInv' /\ MemVerifies' /\ FileInv'
    BY <1>1, <1>3, <2>2 DEF ChainInv, PendingInv, MemVerifies, FileInv, Acquire
  <2>5. InStepInv'
    BY <1>1, <1>3, <2>1, <2>2 DEF ChainInv, InStepInv, ReadableTo, Whole, Acquire
  <2>6. QED  BY <1>2, <2>3, <2>4, <2>5 DEF ChainInv
<1>4. ASSUME NEW t \in Thread, Chain(t) PROVE ChainInv'
  <2>1. \A u \in Thread : u # t => pc[u] = "idle"
    BY <1>1, <1>4, OneInside DEF Chain
  <2>2. HolderInv'
    BY <1>1, <1>2, <1>4 DEF ChainInv, HolderInv, Chain, TypeOK
  <2>3. PendingInv'
    <3>1. /\ pending'[t].prev_hash = LastHash(mem)
          /\ pending'[t].hash = compute_hash(pending'[t].serial, pending'[t].prev_hash)
      BY <1>2, <1>4 DEF Chain, TypeOK
    <3>2. \A u \in Thread : u # t => pc'[u] = "idle"
      BY <1>2, <1>4, <2>1 DEF Chain, TypeOK
    <3>3. QED  BY <1>4, <3>1, <3>2 DEF PendingInv, Chain
  <2>4. InStepInv' /\ MemVerifies' /\ FileInv'
    <3>1. (\A u \in Thread : pc[u] # "appended") /\ (\A u \in Thread : pc'[u] # "appended")
      BY <1>2, <1>4, <2>1 DEF Chain, TypeOK
    <3>2. QED  BY <1>1, <1>4, <3>1 DEF ChainInv, InStepInv, ReadableTo, Whole, MemVerifies, FileInv, Chain
  <2>5. QED  BY <1>2, <2>2, <2>3, <2>4 DEF ChainInv
<1>5. ASSUME NEW t \in Thread, AppendEntry(t) PROVE ChainInv'
  <2>1. \A u \in Thread : u # t => pc[u] = "idle"
    BY <1>1, <1>5, OneInside DEF AppendEntry
  <2>2. /\ pc'[t] = "appended" /\ \A u \in Thread : u # t => pc'[u] = "idle"
        /\ mem' = Append(mem, pending[t])
    BY <1>2, <1>5, <2>1 DEF AppendEntry, TypeOK
  <2>3. HolderInv' /\ PendingInv' /\ FileInv'
    BY <1>1, <1>5, <2>1, <2>2 DEF ChainInv, HolderInv, PendingInv, FileInv, AppendEntry
  <2>4. raised = {} /\ Readable(file) => mem = file
    <3>1. status = "up" /\ \A u \in Thread : pc[u] # "appended"
      BY <1>1, <1>5, <2>1, OneInside DEF AppendEntry
    <3>2. QED  BY <1>1, <3>1 DEF ChainInv, InStepInv
  <2>5. InStepInv'
    <3>1. mem \in Seq(Entry) /\ file \in Seq(Entry \union {Torn})
      BY <1>2 DEF TypeOK
    <3>2. ASSUME NEW n \in 0..Len(file), n <= Len(mem), \A i \in 1..n : mem[i] = file[i]
          PROVE  n <= Len(mem') /\ \A i \in 1..n : mem'[i] = file[i]
      BY <2>2, <3>1, <3>2
    <3>3. QED
      BY <1>1, <1>5, <2>2, <2>4, <3>2 DEF ChainInv, InStepInv, ReadableTo, Whole, AppendEntry
  <2>6. MemVerifies'
    <3>1. SUFFICES ASSUME Verifies(mem) PROVE Verifies(mem')
      BY <1>1, <1>5 DEF ChainInv, MemVerifies, AppendEntry
    <3>2. /\ pending[t] \in Entry /\ pending[t].prev_hash = LastHash(mem)
          /\ pending[t].hash = compute_hash(pending[t].serial, pending[t].prev_hash)
      BY <1>1, <1>2, <1>5 DEF ChainInv, PendingInv, AppendEntry, TypeOK
    <3>3. QED  BY <1>2, <2>2, <3>1, <3>2, ChainExtends DEF TypeOK
  <2>7. QED  BY <1>2, <2>3, <2>5, <2>6 DEF ChainInv
<1>6. ASSUME NEW t \in Thread, Write(t) PROVE ChainInv'
  <2>1. \A u \in Thread : u # t => pc[u] = "idle"
    BY <1>1, <1>6, OneInside DEF Write
  <2>2. pc'[t] = "written" /\ \A u \in Thread : u # t => pc'[u] = "idle"
    BY <1>2, <1>6, <2>1 DEF Write, TypeOK
  <2>3. HolderInv' /\ PendingInv' /\ MemVerifies'
    BY <1>1, <1>6, <2>1, <2>2 DEF ChainInv, HolderInv, PendingInv, MemVerifies, Write
  <2>4. /\ status = "up" /\ status' = status /\ mem' = mem /\ cut' = cut /\ raised' = raised
        /\ file' = WithLine(pending[t]) /\ open' = FALSE
        /\ pending[t] \in Entry /\ mem \in Seq(Entry)
    BY <1>1, <1>2, <1>6, OneInside DEF Write, TypeOK
  <2>5. CASE Whole
    <3>1. file' = Append(file, pending[t])
      BY <2>4, <2>5 DEF WithLine, Whole
    <3>2. file' # <<>>
      BY <1>2, <3>1 DEF TypeOK
    <3>3. ASSUME raised = {} PROVE file' = mem /\ Readable(file') /\ Verifies(file')
      <4>1. mem = Append(file, pending[t])
        BY <1>1, <1>6, <2>4, <2>5, <3>3 DEF ChainInv, InStepInv, Whole, Write
      <4>2. Readable(mem)
        BY <2>4, AuditLogAssumption DEF Readable
      <4>3. QED  BY <1>1, <3>1, <3>3, <4>1, <4>2 DEF ChainInv, MemVerifies
    <3>4. ASSUME raised = {}, NEW n \in 0..Len(file')
          PROVE  Verifies(SubSeq(file', 1, n))
      BY <2>4, <3>3, <3>4, ChainPrefix
    <3>5. InStepInv'
      BY <2>2, <2>4, <3>3, <3>4 DEF InStepInv, Whole
    <3>6. QED  BY <1>2, <2>3, <3>2, <3>5 DEF ChainInv, FileInv
  <2>6. CASE ~Whole
    <3>1. /\ ~Readable(file') /\ file' # <<>>
          /\ \A n \in 0..Len(file') : ReadableTo(n)' =>
                /\ n \in 0..Len(file) /\ ReadableTo(n)
                /\ \A i \in 1..n : file'[i] = file[i]
                /\ SubSeq(file', 1, n) = SubSeq(file, 1, n)
      BY <1>1, <1>2, <2>4, <2>6, NoMoreReadable DEF ChainInv
    <3>2. raised = {} => cut
      BY <1>1, <2>6 DEF ChainInv, InStepInv
    <3>3. InStepInv'
      BY <1>1, <2>4, <3>1, <3>2 DEF ChainInv, InStepInv
    <3>4. QED  BY <1>2, <2>3, <3>1, <3>3 DEF ChainInv, FileInv
  <2>7. QED  BY <2>5, <2>6
<1>7. ASSUME NEW t \in Thread, Return(t) PROVE ChainInv'
  <2>1. \A u \in Thread : u # t => pc[u] = "idle"
    BY <1>1, <1>7, OneInside DEF Return
  <2>2. \A u \in Thread : pc'[u] = "idle"
    BY <1>2, <1>7, <2>1 DEF Return, Leave, TypeOK
  <2>3. HolderInv' /\ PendingInv' /\ MemVerifies'
    BY <1>1, <1>7, <2>2 DEF ChainInv, HolderInv, PendingInv, MemVerifies, Return
  <2>4. \A u \in Thread : pc[u] # "appended"
    BY <1>7, <2>1 DEF Return
  <2>5. InStepInv' /\ FileInv'
    BY <1>1, <1>7, <2>2, <2>4 DEF ChainInv, InStepInv, FileInv, ReadableTo, Whole, Return
  <2>6. QED  BY <1>2, <2>3, <2>5 DEF ChainInv
<1>8. ASSUME NEW t \in Thread, WriteFails(t) PROVE ChainInv'
  <2>1. \A u \in Thread : u # t => pc[u] = "idle"
    BY <1>1, <1>8, OneInside DEF WriteFails
  <2>2. \A u \in Thread : pc'[u] = "idle"
    BY <1>2, <1>8, <2>1 DEF WriteFails, Leave, TypeOK
  <2>3. raised' # {}
    BY <1>8 DEF WriteFails
  <2>4. HolderInv' /\ PendingInv' /\ InStepInv' /\ MemVerifies'
    BY <1>1, <1>8, <2>2, <2>3
       DEF ChainInv, HolderInv, PendingInv, InStepInv, MemVerifies, WriteFails
  <2>5. FileInv'
    <3>1. pending[t] \in Entry
      BY <1>2 DEF TypeOK
    <3>2. \A line \in Entry \union {Torn} : file' = WithLine(line) => file' # <<>>
      BY <1>1, <1>2, PieceStays DEF ChainInv
    <3>3. QED  BY <1>1, <1>8, <3>1, <3>2 DEF ChainInv, FileInv, WriteFails
  <2>6. QED  BY <1>2, <2>4, <2>5 DEF ChainInv
<1>9. CASE Crash
  <2>1. \A u \in Thread : pc'[u] = "idle"
    BY <1>9 DEF Crash
  <2>2. crashes' # 0 /\ status' = "down" /\ raised' = raised /\ Verifies(mem')
    BY <1>2, <1>9 DEF Crash, TypeOK, Verifies
  <2>3. HolderInv' /\ PendingInv' /\ MemVerifies'
    BY <1>1, <2>1, <2>2 DEF ChainInv, HolderInv, PendingInv, MemVerifies
  <2>4. CASE UNCHANGED <<file, open, cut>>
    <3>1. InStepInv' /\ FileInv'
      BY <1>1, <2>1, <2>2, <2>4
         DEF ChainInv, InStepInv, FileInv, ReadableTo, Whole
    <3>2. QED  BY <1>2, <2>3, <3>1 DEF ChainInv
  <2>5. ASSUME NEW t \in Thread, pc[t] = "appended",
               NEW piece \in {Torn, pending[t]}, file' = WithLine(piece),
               open' = TRUE, cut' = TRUE
        PROVE  ChainInv'
    <3>1. piece \in Entry \union {Torn} /\ mem \in Seq(Entry) /\ status = "up"
      BY <1>1, <1>2, <2>5, OneInside DEF TypeOK
    <3>2. FileInv'
      BY <1>1, <1>2, <2>5, <3>1, PieceStays DEF ChainInv, FileInv
    <3>3. CASE piece = Torn \/ ~Whole
      <4>1. \A n \in 0..Len(file') : ReadableTo(n)' =>
                /\ n \in 0..Len(file) /\ ReadableTo(n)
                /\ SubSeq(file', 1, n) = SubSeq(file, 1, n)
        BY <1>1, <1>2, <2>5, <3>1, <3>3, NoMoreReadable DEF ChainInv
      <4>2. InStepInv'
        BY <1>1, <2>2, <2>5, <4>1 DEF ChainInv, InStepInv
      <4>3. QED  BY <1>2, <2>3, <3>2, <4>2 DEF ChainInv
    <3>4. CASE piece = pending[t] /\ Whole
      <4>1. file' = Append(file, pending[t])
        BY <2>5, <3>4 DEF WithLine, Whole
      <4>2. ASSUME raised = {} PROVE file' = mem /\ Verifies(mem)
        <5>1. mem = Append(file, pending[t])
          BY <1>1, <2>5, <3>1, <3>4, <4>2 DEF ChainInv, InStepInv, Whole
        <5>2. QED  BY <1>1, <4>1, <4>2, <5>1 DEF ChainInv, MemVerifies
      <4>3. ASSUME raised = {}, NEW n \in 0..Len(file')
            PROVE  Verifies(SubSeq(file', 1, n))
        BY <3>1, <4>2, <4>3, ChainPrefix
      <4>4. InStepInv'
        BY <2>2, <2>5, <4>3 DEF InStepInv
      <4>5. QED  BY <1>2, <2>3, <3>2, <4>4 DEF ChainInv
    <3>5. QED  BY <3>3, <3>4
  <2>6. QED  BY <1>9, <2>4, <2>5 DEF Crash
<1>10. CASE Restart
  <2>1. \A u \in Thread : pc'[u] = "idle"
    BY <1>1, <1>10 DEF ChainInv, HolderInv, Restart
  <2>2. crashes # 0
    BY <1>1, <1>10 DEF ChainInv, HolderInv, Restart
  <2>3. HolderInv' /\ PendingInv' /\ FileInv'
    BY <1>1, <1>10, <2>1, <2>2 DEF ChainInv, HolderInv, PendingInv, FileInv, Restart
  <2>4. CASE Readable(file)
    <3>1. mem' = file /\ status' = "up" /\ UNCHANGED <<file, open, raised, cut, crashes>>
      BY <1>10, <2>4 DEF Restart
    <3>2. file \in Seq(Entry)
      BY <1>2, <2>4, ReadableTyped
    <3>3. ASSUME raised = {} PROVE Verifies(file)
      <4>1. Len(file) \in 0..Len(file) /\ SubSeq(file, 1, Len(file)) = file
        BY <3>2
      <4>2. QED
        BY <1>1, <2>4, <3>3, <4>1 DEF ChainInv, InStepInv, Readable, ReadableTo
    <3>4. InStepInv'
      BY <1>1, <2>1, <2>4, <3>1, <3>2 DEF ChainInv, InStepInv, ReadableTo, Whole
    <3>5. MemVerifies'
      BY <2>2, <3>1, <3>3 DEF MemVerifies
    <3>6. QED  BY <1>2, <2>3, <3>4, <3>5 DEF ChainInv
  <2>5. CASE ~Readable(file)
    <3>1. /\ mem' = mem /\ status' = "refused"
          /\ UNCHANGED <<file, open, raised, cut, crashes>>
      BY <1>10, <2>5 DEF Restart
    <3>2. InStepInv' /\ MemVerifies'
      BY <1>1, <2>5, <3>1 DEF ChainInv, InStepInv, MemVerifies, ReadableTo, Whole
    <3>3. QED  BY <1>2, <2>3, <3>2 DEF ChainInv
  <2>6. QED  BY <2>4, <2>5
<1>11. CASE UNCHANGED vars
  <2>1. /\ HolderInv' /\ PendingInv' /\ FileInv'
        /\ InStepInv' /\ MemVerifies'
    BY <1>1, <1>11 DEF ChainInv, HolderInv, PendingInv, FileInv, InStepInv, ReadableTo,
                       Whole, MemVerifies, vars
  <2>2. QED  BY <1>2, <2>1 DEF ChainInv
<1>12. QED
  BY <1>1, <1>3, <1>4, <1>5, <1>6, <1>7, <1>8, <1>9, <1>10, <1>11 DEF Next, record

(* For any number of threads, records, crashes and restarts: verify() is    *)
(* TRUE unless a write has failed and the process been restarted since.     *)
THEOREM MemChained == Spec => []MemVerifies
<1>1. ChainInv => MemVerifies
  BY DEF ChainInv
<1>2. QED  BY ChainInit, ChainStep, <1>1, PTL DEF Spec

----------------------------------------------------------------------------
(* The file as a Ledger.  Until a write stops half-way a serial is written  *)
(* once, because it is new when it is chained and the lock keeps it the     *)
(* last until it is written; from then on the damaged line stays where it   *)
(* is and the lines before it stay what they are.                           *)

HasLegible == \E n \in 0..Len(file) : IsIntactUpTo(file, FALSE, n)

SerialInv ==
    /\ issued <= MaxRecords
    /\ Whole => \A i \in 1..Len(file) : file[i].serial \in 1..issued
    /\ \A t \in Thread :
          /\ pc[t] = "locked" => issued < MaxRecords
          /\ pc[t] \in {"chained", "appended"} =>
                /\ pending[t].serial = issued
                /\ issued \in Serial
                /\ Whole => \A i \in 1..Len(file) : file[i].serial # issued
          /\ pc[t] = "written" =>
                /\ pending[t].serial \in 1..issued
                /\ Whole => \E i \in 1..Len(file) : file[i].serial = pending[t].serial
    /\ Whole => \A n \in returned : \E i \in 1..Len(file) : file[i].serial = n
    /\ \E n \in 0..Len(file) : IsIntactUpTo(file, open, n)
    /\ HasLegible

LedgerInv == ChainInv /\ SerialInv

(* The intact lines are those of the whole file when nothing is damaged,    *)
(* and stop before the damage otherwise.                                    *)
LEMMA IntactUnique ==
    ASSUME NEW f \in Seq(Entry \union {Torn}), NEW unended \in BOOLEAN,
           NEW n \in 0..Len(f), IsIntactUpTo(f, unended, n)
    PROVE  IntactLines(f, unended) = n
<1>1. Len(f) \in Nat
  OBVIOUS
<1>2. ASSUME NEW m \in 0..Len(f), IsIntactUpTo(f, unended, m) PROVE m = n
  <2>1. CASE m < n
    <3>1. m + 1 \in 1..n /\ m < Len(f)
      BY <1>1, <2>1
    <3>2. QED  BY <1>2, <3>1 DEF IsIntactUpTo
  <2>2. CASE n < m
    <3>1. n + 1 \in 1..m /\ n < Len(f)
      BY <1>1, <2>2
    <3>2. QED  BY <1>2, <3>1 DEF IsIntactUpTo
  <2>3. QED  BY <1>1, <2>1, <2>2
<1>3. QED  BY <1>2 DEF IntactLines

LEMMA WholeIsIntact ==
    ASSUME NEW f \in Seq(Entry \union {Torn}), Readable(f)
    PROVE  IsIntactUpTo(f, FALSE, Len(f)) /\ IntactLines(f, FALSE) = Len(f)
<1>1. Len(f) \in Nat
  OBVIOUS
<1>2. IsIntactUpTo(f, FALSE, Len(f))
  BY <1>1 DEF IsIntactUpTo, Intact, Readable
<1>3. FALSE \in BOOLEAN /\ Len(f) \in 0..Len(f)
  BY <1>1
<1>4. QED  BY <1>2, <1>3, IntactUnique

(* The line that damages a whole file comes after its lines.                *)
LEMMA TearKeeps ==
    ASSUME TypeOK, Whole, NEW piece \in Entry \union {Torn},
           file' = WithLine(piece), open' = TRUE
    PROVE  /\ file' \in Seq(Entry \union {Torn})
           /\ Len(file') = Len(file) + 1
           /\ \A i \in 1..Len(file) : file'[i] = file[i]
           /\ IsIntactUpTo(file', open', Len(file))
           /\ ~Whole'
<1>1. file' = Append(file, piece)
  BY DEF WithLine, Whole
<1>2. /\ file' \in Seq(Entry \union {Torn}) /\ Len(file) \in Nat
      /\ Len(file') = Len(file) + 1
      /\ \A i \in 1..Len(file) : file'[i] = file[i]
  BY <1>1 DEF TypeOK
<1>3. IsIntactUpTo(file', open', Len(file))
  BY <1>2 DEF IsIntactUpTo, Intact, Whole, Readable
<1>4. QED  BY <1>2, <1>3 DEF Whole

(* Once a line is damaged one is damaged for ever, and whatever is written  *)
(* comes after the first that is.                                           *)
LEMMA DamageStays ==
    ASSUME TypeOK, ~Whole, open => file # <<>>,
           NEW n \in 0..Len(file), IsIntactUpTo(file, open, n),
           NEW line \in Entry \union {Torn},
           file' = WithLine(line), open' \in BOOLEAN
    PROVE  /\ n \in 0..Len(file')
           /\ \A i \in 1..n : file'[i] = file[i]
           /\ IsIntactUpTo(file', open', n)
           /\ ~Whole'
           /\ file' # <<>>
<1>1. file \in Seq(Entry \union {Torn}) /\ Len(file) \in Nat
  BY DEF TypeOK
<1>2. n < Len(file)
  <2>1. CASE open
    BY <1>1, <2>1 DEF IsIntactUpTo, Intact
  <2>2. CASE ~open
    <3>1. PICK j \in 1..Len(file) : file[j] = Torn
      BY <2>2 DEF Whole, Readable
    <3>2. QED  BY <1>1, <3>1 DEF IsIntactUpTo, Intact
  <2>3. QED  BY <2>1, <2>2
<1>3. ~Intact(file, open, n + 1)
  BY <1>2 DEF IsIntactUpTo
<1>4. CASE open
  <2>1. /\ Len(file') = Len(file)
        /\ \A i \in 1..Len(file) :
              file'[i] = IF i = Len(file) THEN Torn ELSE file[i]
    <3>1. file' = [file EXCEPT ![Len(file)] = Torn]
      BY <1>4 DEF WithLine
    <3>2. QED  BY <1>1, <3>1
  <2>2. \A i \in 1..n : file'[i] = file[i] /\ file[i] # Torn
    BY <1>1, <1>2, <2>1 DEF IsIntactUpTo, Intact
  <2>3. file'[n + 1] = Torn
    BY <1>1, <1>2, <1>3, <1>4, <2>1 DEF Intact
  <2>4. IsIntactUpTo(file', open', n)
    BY <1>1, <1>2, <2>1, <2>2, <2>3 DEF IsIntactUpTo, Intact
  <2>5. QED
    BY <1>1, <1>2, <2>1, <2>2, <2>3, <2>4 DEF Whole, Readable
<1>5. CASE ~open
  <2>1. file' = Append(file, line)
    BY <1>5 DEF WithLine
  <2>2. /\ Len(file') = Len(file) + 1
        /\ \A i \in 1..Len(file) : file'[i] = file[i]
    BY <1>1, <2>1
  <2>3. file'[n + 1] = Torn
    BY <1>1, <1>2, <1>3, <1>5, <2>2 DEF Intact
  <2>4. IsIntactUpTo(file', open', n)
    BY <1>1, <1>2, <2>2, <2>3 DEF IsIntactUpTo, Intact
  <2>5. QED
    BY <1>1, <1>2, <2>2, <2>3, <2>4 DEF Whole, Readable
<1>6. QED  BY <1>4, <1>5

(* There is always a last line that can be read. *)
LEMMA LegibleStays ==
    ASSUME TypeOK, FileInv, NEW line \in Entry \union {Torn}, file' = WithLine(line),
           HasLegible
    PROVE  HasLegible'
<1>1. file \in Seq(Entry \union {Torn}) /\ Len(file) \in Nat
  BY DEF TypeOK
<1>0. PICK n \in 0..Len(file) : IsIntactUpTo(file, FALSE, n)
  BY DEF HasLegible
<1>2. /\ \A i \in 1..n : file[i] # Torn
      /\ n < Len(file) => file[n + 1] = Torn
  BY <1>0, <1>1 DEF IsIntactUpTo, Intact
<1>3. ASSUME NEW m \in 0..Len(file'), \A i \in 1..m : file'[i] # Torn,
             m < Len(file') => file'[m + 1] = Torn
      PROVE  HasLegible'
  BY <1>3 DEF HasLegible, IsIntactUpTo, Intact
<1>4. CASE open
  <2>1. file' = [file EXCEPT ![Len(file)] = Torn] /\ file # <<>>
    BY <1>4 DEF WithLine, FileInv
  <2>2. CASE n < Len(file)
    <3>1. n \in 0..Len(file') /\ (\A i \in 1..n : file'[i] # Torn) /\ file'[n + 1] = Torn
      BY <1>0, <1>1, <1>2, <2>1, <2>2
    <3>2. QED  BY <1>3, <3>1
  <2>3. CASE n = Len(file)
    <3>1. /\ n - 1 \in 0..Len(file') /\ (\A i \in 1..(n - 1) : file'[i] # Torn)
          /\ file'[(n - 1) + 1] = Torn
      BY <1>0, <1>1, <1>2, <2>1, <2>3
    <3>2. QED  BY <1>3, <3>1
  <2>4. QED  BY <1>0, <1>1, <2>2, <2>3
<1>5. CASE ~open
  <2>1. file' = Append(file, line)
    BY <1>5 DEF WithLine
  <2>2. CASE n < Len(file) \/ line = Torn
    <3>1. n \in 0..Len(file') /\ (\A i \in 1..n : file'[i] # Torn) /\ file'[n + 1] = Torn
      BY <1>0, <1>1, <1>2, <2>1, <2>2
    <3>2. QED  BY <1>3, <3>1
  <2>3. CASE n = Len(file) /\ line # Torn
    <3>1. /\ n + 1 \in 0..Len(file') /\ (\A i \in 1..(n + 1) : file'[i] # Torn)
          /\ ~(n + 1 < Len(file'))
      BY <1>0, <1>1, <1>2, <2>1, <2>3
    <3>2. QED  BY <1>3, <3>1
  <2>4. QED  BY <1>0, <1>1, <2>2, <2>3
<1>6. QED  BY <1>4, <1>5

LEMMA LedgerInit == Init => LedgerInv
<1>1. SUFFICES ASSUME Init PROVE SerialInv
  BY ChainInit DEF LedgerInv
<1>2. Whole /\ IsIntactUpTo(file, open, 0) /\ IsIntactUpTo(file, FALSE, 0) /\ Len(file) = 0
  BY <1>1 DEF Init, Whole, Readable, IsIntactUpTo
<1>4. HasLegible
  <2>1. \A i \in 1..0 : Intact(file, FALSE, i)
    OBVIOUS
  <2>2. QED  BY <1>2, <2>1 DEF HasLegible, IsIntactUpTo
<1>3. QED  BY <1>1, <1>2, <1>4, AuditLogAssumption DEF Init, SerialInv

LEMMA LedgerStep == LedgerInv /\ [Next]_vars => LedgerInv'
<1>1. SUFFICES ASSUME LedgerInv, [Next]_vars PROVE SerialInv'
  BY ChainStep DEF LedgerInv
<1>2. TypeOK /\ ChainInv /\ SerialInv
  BY <1>1 DEF LedgerInv, ChainInv
<1>3. ASSUME file' = file, open' = open
      PROVE  /\ Whole' = Whole
             /\ \E n \in 0..Len(file') : IsIntactUpTo(file', open', n)
             /\ HasLegible'
  BY <1>2, <1>3 DEF SerialInv, HasLegible, Whole, Readable, IsIntactUpTo, Intact
<1>0. ASSUME NEW line \in Entry \union {Torn}, file' = WithLine(line)
      PROVE  HasLegible'
  BY <1>0, <1>2, LegibleStays DEF ChainInv, SerialInv
(* A piece of a line, left by a write that failed or by a death. *)
<1>14. ASSUME NEW piece \in Entry \union {Torn}, file' = WithLine(piece), open' = TRUE,
              issued' = issued, returned' = returned,
              \A u \in Thread : pc'[u] = "idle"
       PROVE  SerialInv'
  <2>1. HasLegible'
    BY <1>0, <1>14
  <2>2. CASE Whole
    <3>1. /\ file' \in Seq(Entry \union {Torn}) /\ Len(file') = Len(file) + 1
          /\ IsIntactUpTo(file', open', Len(file)) /\ ~Whole'
      BY <1>2, <1>14, <2>2, TearKeeps
    <3>2. Len(file) \in Nat
      BY <1>2 DEF TypeOK
    <3>3. \E n \in 0..Len(file') : IsIntactUpTo(file', open', n)
      BY <3>1, <3>2
    <3>4. QED  BY <1>2, <1>14, <2>1, <3>1, <3>3 DEF SerialInv
  <2>3. CASE ~Whole
    <3>1. PICK n \in 0..Len(file) : IsIntactUpTo(file, open, n)
      BY <1>2 DEF SerialInv
    <3>2. n \in 0..Len(file') /\ IsIntactUpTo(file', open', n) /\ ~Whole'
      BY <1>2, <1>14, <2>3, <3>1, DamageStays DEF ChainInv, FileInv
    <3>3. QED  BY <1>2, <1>14, <2>1, <3>2 DEF SerialInv
  <2>4. QED  BY <2>2, <2>3
<1>4. ASSUME NEW t \in Thread, Acquire(t) PROVE SerialInv'
  <2>1. /\ UNCHANGED <<file, open, pending, issued, returned>>
        /\ issued < MaxRecords
    BY <1>4 DEF Acquire
  <2>2. \A u \in Thread : pc'[u] = IF u = t THEN "locked" ELSE pc[u]
    BY <1>2, <1>4 DEF Acquire, TypeOK
  <2>3. QED  BY <1>2, <1>3, <2>1, <2>2 DEF SerialInv
<1>5. ASSUME NEW t \in Thread, Chain(t) PROVE SerialInv'
  <2>1. /\ issued' = issued + 1 /\ issued' <= MaxRecords /\ issued' \in Serial
        /\ pending'[t].serial = issued' /\ pc'[t] = "chained"
        /\ \A u \in Thread : u # t => pc'[u] = "idle"
    BY <1>2, <1>5, OneInside, AuditLogAssumption DEF Chain, SerialInv, TypeOK, Serial
  <2>2. Whole => \A i \in 1..Len(file) :
                     file[i].serial \in 1..issued' /\ file[i].serial # issued'
    BY <1>2, <2>1 DEF SerialInv, TypeOK
  <2>3. file' = file /\ open' = open /\ returned' = returned
    BY <1>5 DEF Chain
  <2>4. QED  BY <1>2, <1>3, <2>1, <2>2, <2>3 DEF SerialInv
<1>6. ASSUME NEW t \in Thread, AppendEntry(t) PROVE SerialInv'
  BY <1>2, <1>3, <1>6 DEF SerialInv, AppendEntry, TypeOK
<1>7. ASSUME NEW t \in Thread, Write(t) PROVE SerialInv'
  <2>1. /\ file' = WithLine(pending[t]) /\ open' = FALSE /\ pending' = pending
        /\ pending[t] \in Entry /\ pending[t].serial = issued /\ issued \in Serial
        /\ issued' = issued /\ returned' = returned
    BY <1>2, <1>7 DEF SerialInv, Write, TypeOK
  <2>2. \A u \in Thread : u # t => pc'[u] = "idle"
    BY <1>2, <1>7, OneInside DEF Write, TypeOK
  <2>3. pc'[t] = "written" /\ pending'[t].serial \in 1..issued'
    BY <1>2, <1>7, <2>1 DEF Write, TypeOK, Serial
  <2>4. CASE Whole
    <3>1. file' = Append(file, pending[t])
      BY <2>1, <2>4 DEF WithLine, Whole
    <3>2. /\ file' \in Seq(Entry \union {Torn})
          /\ Len(file') = Len(file) + 1 /\ file'[Len(file) + 1] = pending[t]
          /\ \A i \in 1..Len(file) : file'[i] = file[i]
      BY <1>2, <2>1, <3>1 DEF TypeOK
    <3>0. \A i \in 1..Len(file') : i \in 1..Len(file) \/ i = Len(file) + 1
      BY <1>2, <3>2 DEF TypeOK
    <3>3. Readable(file')
      <4>1. pending[t] # Torn
        BY <2>1, AuditLogAssumption
      <4>2. \A i \in 1..Len(file) : file[i] # Torn
        BY <2>4 DEF Whole, Readable
      <4>3. QED  BY <3>0, <3>2, <4>1, <4>2 DEF Readable
    <3>4. \A i \in 1..Len(file') : file'[i].serial \in 1..issued
      <4>1. \A i \in 1..Len(file) : file[i].serial \in 1..issued
        BY <1>2, <2>4 DEF SerialInv
      <4>2. pending[t].serial \in 1..issued
        BY <1>2, <2>1 DEF TypeOK, Serial
      <4>3. QED  BY <3>0, <3>2, <4>1, <4>2
    <3>5. \E i \in 1..Len(file') : file'[i].serial = pending'[t].serial
      BY <1>2, <2>1, <3>2 DEF TypeOK
    <3>6. \A n \in returned : \E i \in 1..Len(file') : file'[i].serial = n
      <4>1. \A n \in returned : \E i \in 1..Len(file) : file[i].serial = n
        BY <1>2, <2>4 DEF SerialInv
      <4>2. Len(file) \in Nat
        BY <1>2 DEF TypeOK
      <4>3. QED  BY <3>2, <4>1, <4>2
    <3>7. Whole' /\ HasLegible'
      BY <1>0, <2>1, <3>3 DEF Whole
    <3>8. \E n \in 0..Len(file') : IsIntactUpTo(file', open', n)
      BY <2>1, <3>2, <3>3 DEF IsIntactUpTo, Intact, Readable
    <3>9. issued' <= MaxRecords
      BY <1>2, <2>1 DEF SerialInv
    <3>10. QED
      BY <2>1, <2>2, <2>3, <3>4, <3>5, <3>6, <3>7, <3>8, <3>9 DEF SerialInv
  <2>5. CASE ~Whole
    <3>1. PICK n \in 0..Len(file) : IsIntactUpTo(file, open, n)
      BY <1>2 DEF SerialInv
    <3>2. n \in 0..Len(file') /\ IsIntactUpTo(file', open', n) /\ ~Whole'
      BY <1>2, <2>1, <2>5, <3>1, DamageStays DEF ChainInv, FileInv
    <3>3. issued' <= MaxRecords /\ HasLegible'
      BY <1>0, <1>2, <2>1, <2>5 DEF SerialInv
    <3>4. QED  BY <2>1, <2>2, <2>3, <3>2, <3>3 DEF SerialInv
  <2>6. QED  BY <2>4, <2>5
<1>8. ASSUME NEW t \in Thread, Return(t) PROVE SerialInv'
  <2>1. \A u \in Thread : pc'[u] = "idle"
    BY <1>2, <1>8, OneInside DEF Return, Leave, TypeOK
  <2>2. Whole => \A n \in returned' : \E i \in 1..Len(file) : file[i].serial = n
    BY <1>2, <1>8 DEF SerialInv, Return
  <2>3. QED  BY <1>2, <1>3, <1>8, <2>1, <2>2 DEF SerialInv, Return
<1>9. ASSUME NEW t \in Thread, WriteFails(t) PROVE SerialInv'
  <2>1. \A u \in Thread : pc'[u] = "idle"
    BY <1>2, <1>9, OneInside DEF WriteFails, Leave, TypeOK
  <2>2. UNCHANGED <<issued, returned>>
    BY <1>9 DEF WriteFails
  <2>3. CASE UNCHANGED <<file, open>>
    BY <1>2, <1>3, <2>1, <2>2, <2>3 DEF SerialInv
  <2>4. CASE \E piece \in {Torn, pending[t]} : file' = WithLine(piece) /\ open' = TRUE
    <3>1. pending[t] \in Entry
      BY <1>2 DEF TypeOK
    <3>2. QED  BY <1>14, <2>1, <2>2, <2>4, <3>1
  <2>5. QED  BY <1>9, <2>3, <2>4 DEF WriteFails
<1>10. CASE Crash
  <2>1. (\A u \in Thread : pc'[u] = "idle") /\ UNCHANGED <<issued, returned>>
    BY <1>10 DEF Crash
  <2>2. CASE UNCHANGED <<file, open>>
    BY <1>2, <1>3, <2>1, <2>2 DEF SerialInv
  <2>3. CASE \E t \in Thread :
               \E piece \in {Torn, pending[t]} : file' = WithLine(piece) /\ open' = TRUE
    <3>1. \A t \in Thread : pending[t] \in Entry
      BY <1>2 DEF TypeOK
    <3>2. QED  BY <1>14, <2>1, <2>3, <3>1
  <2>4. QED  BY <1>10, <2>2, <2>3 DEF Crash
<1>11. CASE Restart
  BY <1>2, <1>3, <1>11 DEF SerialInv, Restart
<1>12. CASE UNCHANGED vars
  BY <1>2, <1>3, <1>12 DEF SerialInv, vars
<1>13. QED
  BY <1>1, <1>4, <1>5, <1>6, <1>7, <1>8, <1>9, <1>10, <1>11, <1>12 DEF Next, record

(* There is a last line that can be read, and the list of those lines.      *)
LEMMA LegibleLines ==
    ASSUME TypeOK, HasLegible
    PROVE  \E n \in 0..Len(file) :
              /\ IntactLines(file, FALSE) = n
              /\ Legible = SubSeq(file, 1, n)
              /\ ReadableTo(n)
<1>1. PICK n \in 0..Len(file) : IsIntactUpTo(file, FALSE, n)
  BY DEF HasLegible
<1>2. IntactLines(file, FALSE) = n
  BY <1>1, IntactUnique DEF TypeOK
<1>3. QED  BY <1>1, <1>2 DEF Legible, IsIntactUpTo, Intact, ReadableTo

(* As long as no record raised, what can be read of the file verifies, and  *)
(* all of it can be unless a process died in the middle of a write.         *)
THEOREM FileChained == Spec => []FileVerifies
<1>1. LedgerInv => FileVerifies
  <2>1. SUFFICES ASSUME LedgerInv, raised = {}
                 PROVE  Verifies(Legible) /\ (~cut => Whole)
    BY DEF FileVerifies
  <2>2. PICK n \in 0..Len(file) : Legible = SubSeq(file, 1, n) /\ ReadableTo(n)
    BY <2>1, LegibleLines DEF LedgerInv, SerialInv, ChainInv
  <2>3. QED  BY <2>1, <2>2 DEF LedgerInv, ChainInv, InStepInv
<1>2. QED  BY LedgerInit, LedgerStep, <1>1, PTL DEF Spec

(* The list of a running process continues what can be read of the file,    *)
(* and while all of it can be a restart loses at most the entry that is     *)
(* being written.                                                           *)
THEOREM MemAndFileAgree == Spec => []MemMirrorsFile
<1>1. LedgerInv => MemMirrorsFile
  <2>1. SUFFICES ASSUME LedgerInv, raised = {}, status = "up"
                 PROVE  /\ IsPrefix(Legible, mem)
                        /\ Readable(file) =>
                              /\ Len(mem) <= Len(file) + 1
                              /\ lock = NoThread => mem = file
    BY DEF MemMirrorsFile
  <2>2. mem \in Seq(Entry) /\ file \in Seq(Entry \union {Torn})
    BY <2>1 DEF LedgerInv, ChainInv, TypeOK
  <2>3. IsPrefix(Legible, mem)
    <3>1. PICK n \in 0..Len(file) : Legible = SubSeq(file, 1, n) /\ ReadableTo(n)
      BY <2>1, LegibleLines DEF LedgerInv, SerialInv, ChainInv
    <3>2. n <= Len(mem) /\ \A i \in 1..n : mem[i] = file[i]
      BY <2>1, <3>1 DEF LedgerInv, ChainInv, InStepInv
    <3>3. Len(Legible) = n /\ \A i \in 1..n : Legible[i] = mem[i]
      BY <2>2, <3>1, <3>2
    <3>4. SubSeq(Legible, 1, Len(Legible)) = SubSeq(mem, 1, Len(Legible))
      BY <2>2, <3>1, <3>2, <3>3
    <3>5. QED  BY <3>2, <3>3, <3>4 DEF IsPrefix
  <2>4. ASSUME Readable(file)
        PROVE  Len(mem) <= Len(file) + 1 /\ (lock = NoThread => mem = file)
    <3>1. CASE \A t \in Thread : pc[t] # "appended"
      <4>1. mem = file
        BY <2>1, <2>4, <3>1 DEF LedgerInv, ChainInv, InStepInv
      <4>2. QED  BY <2>2, <4>1
    <3>2. CASE \E t \in Thread : pc[t] = "appended"
      <4>1. PICK t \in Thread : pc[t] = "appended"
        BY <3>2
      <4>2. mem = Append(file, pending[t]) /\ lock = t
        BY <2>1, <2>4, <4>1 DEF LedgerInv, ChainInv, InStepInv, HolderInv
      <4>3. lock # NoThread
        BY <4>2, AuditLogAssumption
      <4>4. QED  BY <2>2, <4>2, <4>3
    <3>3. QED  BY <3>1, <3>2
  <2>5. QED  BY <2>3, <2>4
<1>2. QED  BY LedgerInit, LedgerStep, <1>1, PTL DEF Spec

(* A record that returned to its caller is in the file, now and after any   *)
(* crash, as long as no write has left a piece of a line behind.            *)
THEOREM ReturnedSurvives == Spec => []ReturnedIsPersisted
<1>1. LedgerInv => ReturnedIsPersisted
  BY DEF LedgerInv, SerialInv, ReturnedIsPersisted, Persisted, Readable, Whole
<1>2. QED  BY LedgerInit, LedgerStep, <1>1, PTL DEF Spec

(* Each step of the log is a step of the Ledger or leaves it alone: Write   *)
(* commits the record while the file is whole, Return returns it, a failed  *)
(* write or a death that leaves a piece tears the file, and nothing else    *)
(* shows.                                                                   *)
LEMMA LedgerSimulation ==
    ASSUME LedgerInv, [Next]_vars
    PROVE  [L!Next]_(L!ledgerVars)
<1>1. TypeOK /\ ChainInv /\ SerialInv /\ Len(file) \in Nat
  BY DEF LedgerInv, ChainInv, TypeOK
<1>2. TypeOK'
  BY <1>1, ChainStep DEF ChainInv
<1>3. ASSUME file' = file, open' = open
      PROVE  FileSerials' = FileSerials /\ Whole' = Whole
  BY <1>3 DEF FileSerials, IntactLines, IsIntactUpTo, Intact, Whole, Readable
<1>4. ASSUME file' = file, open' = open, returned' = returned
      PROVE  [L!Next]_(L!ledgerVars)
  BY <1>3, <1>4 DEF L!ledgerVars
<1>5. ASSUME ~Whole, open' \in BOOLEAN, returned' = returned,
             NEW line \in Entry \union {Torn}, file' = WithLine(line)
      PROVE  [L!Next]_(L!ledgerVars)
  <2>1. PICK n \in 0..Len(file) : IsIntactUpTo(file, open, n)
    BY <1>1 DEF SerialInv
  <2>2. /\ n \in 0..Len(file') /\ IsIntactUpTo(file', open', n) /\ ~Whole'
        /\ \A i \in 1..n : file'[i] = file[i]
    BY <1>1, <1>5, <2>1, DamageStays DEF ChainInv, FileInv
  <2>3. IntactLines(file, open) = n
    BY <1>1, <2>1, IntactUnique DEF TypeOK
  <2>4. IntactLines(file', open') = n
    BY <1>2, <2>2, IntactUnique DEF TypeOK
  <2>5. FileSerials' = FileSerials
    BY <2>2, <2>3, <2>4 DEF FileSerials
  <2>6. Whole' = Whole
    BY <1>5, <2>2 DEF Whole
  <2>7. QED  BY <1>5, <2>5, <2>6 DEF L!ledgerVars
<1>12. ASSUME NEW piece \in Entry \union {Torn}, file' = WithLine(piece), open' = TRUE,
              returned' = returned
       PROVE  [L!Next]_(L!ledgerVars)
  <2>1. CASE Whole
    <3>1. /\ Len(file') = Len(file) + 1 /\ IsIntactUpTo(file', open', Len(file)) /\ ~Whole'
          /\ \A i \in 1..Len(file) : file'[i] = file[i]
      BY <1>1, <1>12, <2>1, TearKeeps
    <3>2. IntactLines(file, open) = Len(file)
      BY <1>1, <2>1, WholeIsIntact DEF Whole, TypeOK
    <3>3. IntactLines(file', open') = Len(file)
      <4>1. /\ file' \in Seq(Entry \union {Torn}) /\ open' \in BOOLEAN
            /\ Len(file) \in 0..Len(file')
        BY <1>1, <1>2, <3>1 DEF TypeOK
      <4>2. QED  BY <3>1, <4>1, IntactUnique
    <3>4. FileSerials' = FileSerials
      BY <3>1, <3>2, <3>3 DEF FileSerials
    <3>5. L!Tear
      BY <1>12, <3>1, <3>4 DEF L!Tear
    <3>6. QED  BY <3>5 DEF L!Next
  <2>2. CASE ~Whole
    BY <1>5, <1>12, <2>2
  <2>3. QED  BY <2>1, <2>2
<1>6. ASSUME NEW t \in Thread, Write(t) PROVE [L!Next]_(L!ledgerVars)
  <2>1. /\ file' = WithLine(pending[t]) /\ pending[t].serial = issued
        /\ issued \in 1..MaxRecords /\ pending[t] \in Entry
        /\ Whole => \A i \in 1..Len(file) : file[i].serial # issued
        /\ open' = FALSE /\ returned' = returned
    BY <1>1, <1>6, AuditLogAssumption DEF SerialInv, Write, TypeOK, Serial
  <2>2. CASE Whole
    <3>1. file' = Append(file, pending[t])
      BY <2>1, <2>2 DEF WithLine, Whole
    <3>2. /\ Len(file') = Len(file) + 1 /\ file'[Len(file) + 1] = pending[t]
          /\ \A i \in 1..Len(file) : file'[i] = file[i]
      BY <1>1, <3>1 DEF TypeOK
    <3>3. Whole'
      BY <1>1, <2>1, <2>2, <3>2, AuditLogAssumption DEF Whole, Readable, TypeOK
    <3>4. IntactLines(file, open) = Len(file) /\ IntactLines(file', open') = Len(file) + 1
      <4>1. IntactLines(file', open') = Len(file')
        BY <1>2, <3>3, WholeIsIntact DEF Whole, TypeOK
      <4>2. QED  BY <1>1, <2>2, <3>2, <4>1, WholeIsIntact DEF Whole, TypeOK
    <3>5. FileSerials' = Append(FileSerials, issued)
      <4>1. FileSerials' = [i \in 1..(Len(file) + 1) |->
                              IF i <= Len(file) THEN file[i].serial ELSE issued]
        BY <1>1, <2>1, <3>2, <3>4 DEF FileSerials
      <4>2. Append(FileSerials, issued) = [i \in 1..(Len(file) + 1) |->
                              IF i <= Len(file) THEN file[i].serial ELSE issued]
        BY <1>1, <3>4 DEF FileSerials
      <4>3. QED  BY <4>1, <4>2
    <3>6. issued \notin L!Entered
      <4>1. Len(FileSerials) = Len(file)
        BY <1>1, <3>4 DEF FileSerials
      <4>2. \A i \in 1..Len(file) : FileSerials[i] # issued
        BY <2>1, <2>2, <3>4 DEF FileSerials
      <4>3. QED  BY <4>1, <4>2 DEF L!Entered
    <3>7. L!Commit(issued)
      BY <2>1, <2>2, <3>3, <3>5, <3>6 DEF L!Commit
    <3>8. QED  BY <2>1, <3>7 DEF L!Next
  <2>3. CASE ~Whole
    BY <1>5, <2>1, <2>3
  <2>4. QED  BY <2>2, <2>3
<1>7. ASSUME NEW t \in Thread, Return(t) PROVE [L!Next]_(L!ledgerVars)
  <2>1. /\ pending[t].serial \in 1..issued
        /\ Whole => \E i \in 1..Len(file) : file[i].serial = pending[t].serial
    BY <1>1, <1>7 DEF SerialInv, Return
  <2>2. pending[t].serial \in 1..MaxRecords
    BY <1>1, <2>1, AuditLogAssumption DEF SerialInv, TypeOK
  <2>3. Whole => pending[t].serial \in L!Entered
    <3>1. SUFFICES ASSUME Whole PROVE pending[t].serial \in L!Entered
      OBVIOUS
    <3>2. IntactLines(file, open) = Len(file)
      BY <1>1, <3>1, WholeIsIntact DEF Whole, TypeOK
    <3>3. QED  BY <1>1, <2>1, <3>1, <3>2 DEF L!Entered, FileSerials
  <2>4. returned' = returned \union {pending[t].serial} /\ file' = file /\ open' = open
    BY <1>7 DEF Return
  <2>5. L!Return(pending[t].serial)
    BY <1>3, <2>3, <2>4 DEF L!Return
  <2>6. QED  BY <2>2, <2>5 DEF L!Next
<1>8. ASSUME NEW t \in Thread, WriteFails(t) PROVE [L!Next]_(L!ledgerVars)
  <2>1. returned' = returned
    BY <1>8 DEF WriteFails
  <2>2. CASE UNCHANGED <<file, open>>
    BY <1>4, <2>1, <2>2
  <2>3. CASE \E piece \in {Torn, pending[t]} : file' = WithLine(piece) /\ open' = TRUE
    <3>1. pending[t] \in Entry
      BY <1>1 DEF TypeOK
    <3>2. QED  BY <1>12, <2>1, <2>3, <3>1
  <2>4. QED  BY <1>8, <2>2, <2>3 DEF WriteFails
<1>9. ASSUME NEW t \in Thread, record(t) PROVE [L!Next]_(L!ledgerVars)
  <2>1. CASE Acquire(t) \/ Chain(t) \/ AppendEntry(t)
    BY <1>4, <2>1 DEF Acquire, Chain, AppendEntry
  <2>2. QED  BY <1>6, <1>7, <1>8, <1>9, <2>1 DEF record
<1>10. CASE Restart \/ UNCHANGED vars
  BY <1>4, <1>10 DEF Restart, vars
<1>13. CASE Crash
  <2>1. returned' = returned
    BY <1>13 DEF Crash
  <2>2. CASE UNCHANGED <<file, open>>
    BY <1>4, <2>1, <2>2
  <2>3. CASE \E t \in Thread :
               \E piece \in {Torn, pending[t]} : file' = WithLine(piece) /\ open' = TRUE
    <3>1. \A t \in Thread : pending[t] \in Entry
      BY <1>1 DEF TypeOK
    <3>2. QED  BY <1>12, <2>1, <2>3, <3>1
  <2>4. QED  BY <1>13, <2>2, <2>3 DEF Crash
<1>11. QED  BY <1>9, <1>10, <1>13 DEF Next

(* The audit log implements the Ledger: every record enters the file whole  *)
(* and once, before its call returns, and stays there across crashes; a     *)
(* write that stops half-way leaves the lines before it as they are.        *)
THEOREM AuditLogIsLedger == Spec => ImplementsLedger
<1>1. Init => L!Init
  <2>1. SUFFICES ASSUME Init PROVE L!Init
    OBVIOUS
  <2>2. TypeOK /\ Whole /\ Len(file) = 0 /\ returned = {}
    BY TypeInit, <2>1 DEF Init, Whole, Readable
  <2>3. FileSerials = <<>>
    <3>1. IntactLines(file, open) = 0
      BY <2>2, WholeIsIntact DEF Whole, TypeOK
    <3>2. QED  BY <3>1 DEF FileSerials
  <2>4. QED  BY <2>2, <2>3 DEF L!Init
<1>2. LedgerInv /\ [Next]_vars => LedgerInv'
  BY LedgerStep
<1>3. LedgerInv /\ [Next]_vars => [L!Next]_(L!ledgerVars)
  BY LedgerSimulation
<1>4. QED
  BY LedgerInit, <1>1, <1>2, <1>3, PTL DEF Spec, ImplementsLedger, L!Spec
=============================================================================
