----------------------------- MODULE Data_proofs -----------------------------
(***************************************************************************)
(* Proofs about the data and what answers from it: the days that DataSync  *)
(* stores, the tables of ReferenceData, and the cache of the MCP tools.    *)
(*                                                                         *)
(* DataSync, for any days, revisions and number of processes: the rows of  *)
(* a date and key are those of one publication, a day of equity is one     *)
(* publication, whole, a day that was stored is in its year's file, when   *)
(* that can be read, but for the lost update of an overlapping write, and  *)
(* what is available is stored when the syncs have ended.  The rows travel: from a raw file into a process, from the  *)
(* year's file into the process, and back.  SyncInv says of the rows on    *)
(* their way what the properties say of those at rest.  DutyInv says of    *)
(* each good raw file that was not stored which process cannot end before  *)
(* it is.                                                                  *)
(*                                                                         *)
(* ReferenceData, for any number of entries in any order: the windows of   *)
(* WindowsInv answer as the moves between indices do, and renames and      *)
(* mergers, chained in the file, lead where the changes led day by day.    *)
(* Adjusted closes go as the account of who holds a share: between two     *)
(* closes the factor series has, besides the factors it had, the ones of   *)
(* the actions between them, which what a share grows by cancels.          *)
(*                                                                         *)
(* ToolCache, for any number of questions, with a time to live and a size  *)
(* of each cache: CacheInv says that a cache has one entry of each key and *)
(* none that lives longer than its age allows.                             *)
(***************************************************************************)
EXTENDS DataSync, ReferenceData, ToolCache, Lemmas, SequenceTheorems

----------------------------------------------------------------------------
(* Rows and processes. *)

Busy == {"fetch", "cache", "caching", "parse", "again", "existing", "write", "writing"}
HasBlob == {"cache", "caching", "parse", "again", "existing", "write", "writing"}
Publication == {Good(d, v) : d \in Day, v \in Version}

OfDay(rows, d) == {r \in rows : r.date = d}

(* The rows of one day and key are those of one publication. *)
KeyWise(rows) ==
    \A d \in Day, k \in Key : OfKey(OfDay(rows, d), k) # {} =>
        \E e \in Day, v \in Version : OfKey(OfDay(rows, d), k) = OfKey(Parsed(Good(e, v), d), k)

(* Each day's rows are those of one publication. *)
OnePublication(rows) ==
    \A d \in Day : OfDay(rows, d) # {} =>
        \E e \in Day, v \in Version : OfDay(rows, d) = Parsed(Good(e, v), d)

Clean(rows) == KeyWise(rows) /\ (dataset = "equity" => OnePublication(rows))

(* What holds of a process by itself. *)
JobOK(j) ==
    /\ j \in Job
    /\ j.at \notin {"idle", "done"} => j.last \in Day /\ \E e \in Day : e <= j.cur
    /\ j.at \in Busy => j.cur \in Day
    /\ j.at \in HasBlob => j.blob # Absent
    /\ j.at \in {"existing", "write", "writing"} => j.blob \in Publication
    /\ j.at \in {"write", "writing"} => Content[j.blob.version] # <<>>
    /\ Clean(j.rows)

(* The raw file a process will open again is there. *)
RawThere(j) == j.at \in {"parse", "again"} => cache[j.cur] # Absent

(* A process that is to write a year has the days it must not lose. *)
Carries(j) ==
    \A d \in stored \ exposed :
        (j.at \in {"write", "writing"} /\ YearOf[j.cur] = YearOf[d]) => OfDay(j.rows, d) # {}

SyncInv ==
    /\ TypeOK
    /\ \A p \in Process : JobOK(job[p]) /\ RawThere(job[p]) /\ Carries(job[p])
    /\ \A y \in Year : Clean(part[y].rows)
    /\ DaysStay

----------------------------------------------------------------------------
(* Merging. *)

(* The rows of a parsed publication. *)
LEMMA ParsedRows ==
    ASSUME NEW b \in Publication, NEW d \in Day
    PROVE  /\ Parsed(b, d) \subseteq Row
           /\ \A r \in Parsed(b, d) : r.date = d
           /\ Content[b.version] # <<>> => Parsed(b, d) # {}
           /\ \E e \in Day, v \in Version : b = Good(e, v)
<1>1. PICK e \in Day, v \in Version : b = Good(e, v)
  BY DEF Publication
<1>2. b.about = e /\ b.version = v
  BY <1>1 DEF Good
<1> DEFINE keys == Content[v]
<1>3. keys \in Seq(Key)
  BY DataAssumption DEF Version
<1>4. Parsed(b, d) = {[date |-> d, key |-> keys[i], line |-> i, about |-> e, version |-> v] : i \in DOMAIN keys}
  BY <1>2 DEF Parsed
<1>5. \A i \in DOMAIN keys : keys[i] \in Key /\ i \in Nat
  BY <1>3
<1>6. keys # <<>> => \E i : i \in DOMAIN keys
  <2>1. SUFFICES ASSUME keys # <<>> PROVE 1 \in DOMAIN keys
    OBVIOUS
  <2>2. QED  BY <1>3, <2>1, EmptySeq
<1> HIDE DEF keys
<1>7. Parsed(b, d) \subseteq Row
  BY <1>4, <1>5 DEF Row
<1>8. \A r \in Parsed(b, d) : r.date = d
  BY <1>4
<1>9. Content[b.version] # <<>> => Parsed(b, d) # {}
  BY <1>2, <1>4, <1>6 DEF keys
<1>10. QED  BY <1>1, <1>7, <1>8, <1>9

(* write_partitioned: the rows of a key are one publication's, no day lost. *)
LEMMA WithKeysClean ==
    ASSUME NEW rows \in SUBSET Row, KeyWise(rows), NEW b \in Publication, NEW d \in Day,
           Content[b.version] # <<>>
    PROVE  LET new == WithKeys(rows, Parsed(b, d))
           IN  /\ new \in SUBSET Row
               /\ KeyWise(new)
               /\ OfDay(new, d) # {}
               /\ \A e \in Day : OfDay(rows, e) # {} => OfDay(new, e) # {}
<1> DEFINE chunk == Parsed(b, d)
<1>1. /\ chunk \subseteq Row /\ chunk # {}
      /\ \A r \in chunk : r.date = d
      /\ \E e \in Day, v \in Version : b = Good(e, v)
  BY ParsedRows
<1>2. \E e \in Day, v \in Version : chunk = Parsed(Good(e, v), d)
  BY <1>1
<1> HIDE DEF chunk
<1> DEFINE new == WithKeys(rows, chunk)
<1>3. new \in SUBSET Row /\ chunk \subseteq new
  BY <1>1 DEF WithKeys
<1>4. \A e \in Day : e # d => OfDay(new, e) = OfDay(rows, e)
  BY <1>1 DEF WithKeys, OfDay
<1>5. OfDay(new, d) # {}
  BY <1>1, <1>3 DEF OfDay
<1>6. \A k \in Key : OfKey(chunk, k) # {} => OfKey(OfDay(new, d), k) = OfKey(chunk, k)
  BY <1>1 DEF WithKeys, OfDay, OfKey
<1>7. \A k \in Key : OfKey(chunk, k) = {} => OfKey(OfDay(new, d), k) = OfKey(OfDay(rows, d), k)
  BY <1>1 DEF WithKeys, OfDay, OfKey
<1> HIDE DEF new
<1>8. KeyWise(new)
  <2>1. SUFFICES ASSUME NEW e \in Day, NEW k \in Key, OfKey(OfDay(new, e), k) # {}
                 PROVE  \E f \in Day, v \in Version :
                            OfKey(OfDay(new, e), k) = OfKey(Parsed(Good(f, v), e), k)
    BY DEF KeyWise
  <2>2. CASE e = d /\ OfKey(chunk, k) # {}
    BY <1>2, <1>6, <2>2
  <2>3. CASE ~(e = d /\ OfKey(chunk, k) # {})
    <3>1. OfKey(OfDay(new, e), k) = OfKey(OfDay(rows, e), k)
      BY <1>4, <1>7, <2>3
    <3>2. QED  BY <2>1, <3>1 DEF KeyWise
  <2>4. QED  BY <2>2, <2>3
<1>9. QED  BY <1>3, <1>4, <1>5, <1>8 DEF chunk, new

(* write_eod: the day becomes the publication, the others stay as they are. *)
LEMMA WithDayClean ==
    ASSUME NEW rows \in SUBSET Row, KeyWise(rows), OnePublication(rows),
           NEW b \in Publication, NEW d \in Day, Content[b.version] # <<>>
    PROVE  LET new == WithDay(rows, Parsed(b, d))
           IN  /\ new \in SUBSET Row
               /\ KeyWise(new) /\ OnePublication(new)
               /\ OfDay(new, d) # {}
               /\ \A e \in Day : OfDay(rows, e) # {} => OfDay(new, e) # {}
<1> DEFINE chunk == Parsed(b, d)
<1>1. /\ chunk \subseteq Row /\ chunk # {}
      /\ \A r \in chunk : r.date = d
      /\ \E e \in Day, v \in Version : b = Good(e, v)
  BY ParsedRows
<1>2. \E e \in Day, v \in Version : chunk = Parsed(Good(e, v), d)
  BY <1>1
<1> HIDE DEF chunk
<1> DEFINE new == WithDay(rows, chunk)
<1>3. new = {r \in rows : r.date # d} \union chunk
  <2>1. PICK c \in chunk : c.date = d
    BY <1>1
  <2>2. \A r \in rows : (\A n \in chunk : n.date # r.date) <=> r.date # d
    BY <1>1, <2>1
  <2>3. QED  BY <2>2 DEF WithDay
<1>4. new \in SUBSET Row
  BY <1>1, <1>3
<1>5. OfDay(new, d) = chunk
  BY <1>1, <1>3 DEF OfDay
<1>6. \A e \in Day : e # d => OfDay(new, e) = OfDay(rows, e)
  BY <1>1, <1>3 DEF OfDay
<1> HIDE DEF new
<1>7. OnePublication(new)
  BY <1>2, <1>5, <1>6 DEF OnePublication
<1>8. KeyWise(new)
  <2>1. SUFFICES ASSUME NEW e \in Day, NEW k \in Key, OfKey(OfDay(new, e), k) # {}
                 PROVE  \E f \in Day, v \in Version :
                            OfKey(OfDay(new, e), k) = OfKey(Parsed(Good(f, v), e), k)
    BY DEF KeyWise
  <2>2. CASE e = d
    BY <1>2, <1>5, <2>2
  <2>3. CASE e # d
    BY <1>6, <2>1, <2>3 DEF KeyWise
  <2>4. QED  BY <2>2, <2>3
<1>9. QED  BY <1>1, <1>4, <1>5, <1>6, <1>7, <1>8 DEF chunk, new

(* Whichever of the two the dataset has. *)
LEMMA CombinedClean ==
    ASSUME NEW rows \in SUBSET Row, Clean(rows), NEW b \in Publication, NEW d \in Day,
           Content[b.version] # <<>>
    PROVE  LET new == Combined(rows, Parsed(b, d))
           IN  /\ new \in SUBSET Row
               /\ Clean(new)
               /\ OfDay(new, d) # {}
               /\ \A e \in Day : OfDay(rows, e) # {} => OfDay(new, e) # {}
<1>1. CASE dataset = "equity"
  BY <1>1, WithDayClean DEF Clean, Combined
<1>2. CASE dataset # "equity"
  BY <1>2, WithKeysClean DEF Clean, Combined
<1>3. QED  BY <1>1, <1>2

----------------------------------------------------------------------------
(* A process that only moves on. *)

LEMMA NoJunk ==
    /\ Absent # Junk
    /\ \A b \in Publication : b # Absent /\ b # Junk
    /\ \A b \in Blob : b # Absent /\ b # Junk => b \in Publication
BY DEF Absent, Junk, Publication, Good, Blob

(* These say nothing of the variables but the scenario, which stays. *)
LEMMA SayTheSame ==
    ASSUME scenario' = scenario
    PROVE  /\ \A rows : Clean(rows)' <=> Clean(rows)
           /\ \A j : JobOK(j)' <=> JobOK(j)
<1>1. dataset' = dataset
  BY DEF dataset
<1>2. \A rows : Clean(rows)' <=> Clean(rows)
  BY <1>1 DEF Clean
<1>3. \A j : JobOK(j)' <=> JobOK(j)
  BY <1>2 DEF JobOK
<1>4. QED  BY <1>2, <1>3

(* p's job becomes j; the files, and what is stored, are left alone. *)
JobOnly(p, j) ==
    /\ job' = [job EXCEPT ![p] = j]
    /\ UNCHANGED <<scenario, archive, cache, part, stored, exposed>>

LEMMA JobMoves ==
    ASSUME SyncInv, NEW p \in Process, NEW j, JobOK(j), RawThere(j), Carries(j), JobOnly(p, j)
    PROVE  SyncInv'
<1>1. /\ job \in [Process -> Job] /\ j \in Job
      /\ job' = [job EXCEPT ![p] = j]
      /\ UNCHANGED <<scenario, archive, cache, part, stored, exposed>>
  BY DEF SyncInv, TypeOK, JobOK, JobOnly
<1>2. /\ job' \in [Process -> Job] /\ job'[p] = j
      /\ \A q \in Process : q # p => job'[q] = job[q]
  BY <1>1
<1>3. TypeOK'
  BY <1>1, <1>2 DEF SyncInv, TypeOK
<1>4. \A k : (RawThere(k)' <=> RawThere(k)) /\ (Carries(k)' <=> Carries(k))
  BY <1>1 DEF RawThere, Carries
<1>5. \A q \in Process : JobOK(job'[q]) /\ RawThere(job'[q]) /\ Carries(job'[q])
  BY <1>2 DEF SyncInv
<1>6. \A q \in Process : (JobOK(job[q]) /\ RawThere(job[q]) /\ Carries(job[q]))'
  BY <1>1, <1>4, <1>5, SayTheSame
<1>7. \A y \in Year : Clean(part[y].rows)'
  BY <1>1, SayTheSame DEF SyncInv
<1>8. DaysStay'
  BY <1>1 DEF SyncInv, DaysStay, Stored
<1>9. QED  BY <1>3, <1>6, <1>7, <1>8 DEF SyncInv

LEMMA IdleOK ==
    /\ Idle \in Job /\ JobOK(Idle) /\ RawThere(Idle) /\ Carries(Idle)
<1>1. Idle \in Job
  BY DEF Idle, Job, At, Blob
<1>2. /\ Idle.at = "idle" /\ Idle.rows = {}
  BY DEF Idle
<1>3. Clean({})
  BY DEF Clean, KeyWise, OnePublication, OfDay, OfKey
<1>4. QED  BY <1>1, <1>2, <1>3 DEF JobOK, RawThere, Carries, Busy, HasBlob

(* A process that starts a day. *)
Starting(cur, last) == [Idle EXCEPT !.at = "day", !.cur = cur, !.last = last]

LEMMA DayOK ==
    ASSUME NEW cur \in Nat, NEW last \in Day, NEW e \in Day, e <= cur
    PROVE  /\ JobOK(Starting(cur, last)) /\ RawThere(Starting(cur, last))
           /\ Carries(Starting(cur, last))
<1> DEFINE j == Starting(cur, last)
<1>1. /\ j.at = "day" /\ j.cur = cur /\ j.last = last /\ j.rows = {}
      /\ j \in Job
  <2>1. Idle \in Job /\ last \in Nat /\ Idle.rows = {}
    BY IdleOK, DataAssumption DEF Idle
  <2>2. QED  BY <2>1 DEF Job, At, Starting
<1>2. Clean({})
  BY DEF Clean, KeyWise, OnePublication, OfDay, OfKey
<1> HIDE DEF j
<1>3. QED  BY <1>1, <1>2 DEF JobOK, RawThere, Carries, Busy, HasBlob, j

(* The next day, or the end of the call: the process holds no rows. *)
LEMMA OnwardOK ==
    ASSUME NEW p \in Process, job \in [Process -> Job], JobOK(job[p]), job[p].at \notin {"idle", "done"},
           Onward(p) \/ NextDay(p) \/ Abort(p)
    PROVE  \E j : /\ JobOK(j) /\ RawThere(j) /\ Carries(j)
                  /\ j.at \in {"idle", "day"}
                  /\ job' = [job EXCEPT ![p] = j]
<1>1. CASE Abort(p)
  BY <1>1, IdleOK DEF Abort, Idle
<1>2. CASE NextDay(p)
  <2>1. /\ job[p].cur + 1 \in Nat /\ job[p].last \in Day
        /\ \E e \in Day : e <= job[p].cur + 1
    BY DataAssumption DEF JobOK, Job
  <2> DEFINE j == Starting(job[p].cur + 1, job[p].last)
  <2>2. JobOK(j) /\ RawThere(j) /\ Carries(j)
    BY <2>1, DayOK
  <2>3. j.at = "day" /\ job' = [job EXCEPT ![p] = j]
    BY <1>2 DEF NextDay, Idle, Starting
  <2>4. QED  BY <2>2, <2>3
<1>3. QED  BY <1>1, <1>2 DEF Onward

(* Steps that read what is there, or nothing, and write no file. *)
LEMMA MovesOn ==
    ASSUME SyncInv, NEW p \in Process,
           \/ Sync(p) \/ EndSync(p) \/ SkipWeekend(p) \/ FetchFails(p) \/ Parse(p)
           \/ ParseFails(p) \/ PagePasses(p) \/ Crash(p)
           \/ \E d \in scenario.refreshing : Refresh(p, d)
    PROVE  SyncInv'
<1> DEFINE k == job[p]
<1>1. job \in [Process -> Job] /\ k \in Job /\ JobOK(k) /\ RawThere(k) /\ Carries(k)
  BY DEF SyncInv, TypeOK
<1>2. SUFFICES \E j : JobOK(j) /\ RawThere(j) /\ Carries(j) /\ job' = [job EXCEPT ![p] = j]
  <2>1. UNCHANGED <<scenario, archive, cache, part, stored, exposed>>
    BY DEF Sync, EndSync, SkipWeekend, FetchFails, Parse, ParseFails, PagePasses, Crash, Refresh
  <2>2. QED  BY <1>2, <2>1, JobMoves DEF JobOnly
<1>3. CASE Sync(p)
  <2>1. /\ Span[p].first \in Day /\ Span[p].last \in Day /\ Span[p].first \in Nat
        /\ Span[p].first <= Span[p].first
    <3>1. Span[p] \in [first : Day, last : Day]
      BY DataAssumption
    <3>2. Span[p].first \in Nat
      BY <3>1, DataAssumption
    <3>3. QED  BY <3>1, <3>2
  <2> DEFINE j == Starting(Span[p].first, Span[p].last)
  <2>2. JobOK(j) /\ RawThere(j) /\ Carries(j)
    BY <2>1, DayOK
  <2>3. job' = [job EXCEPT ![p] = j]
    BY <1>3 DEF Sync, Starting
  <2>4. QED  BY <2>2, <2>3
<1>4. CASE \E d \in scenario.refreshing : Refresh(p, d)
  <2>1. PICK d \in scenario.refreshing : Refresh(p, d)
    BY <1>4
  <2>2. d \in Day /\ d \in Nat
    BY DataAssumption DEF SyncInv, TypeOK
  <2> DEFINE j == [Idle EXCEPT !.at = "fetch", !.cur = d, !.last = d, !.use_cache = FALSE]
  <2>3. /\ j \in Job /\ j.at = "fetch" /\ j.cur = d /\ j.last = d /\ j.rows = Idle.rows
    BY <2>2, IdleOK DEF Job, At
  <2>4. job' = [job EXCEPT ![p] = j]
    BY <2>1 DEF Refresh
  <2>5. Clean(j.rows)
    BY <2>3, IdleOK DEF JobOK
  <2> HIDE DEF j
  <2>6. d <= j.cur
    BY <2>2, <2>3
  <2>7. JobOK(j) /\ RawThere(j) /\ Carries(j)
    BY <2>2, <2>3, <2>5, <2>6 DEF JobOK, RawThere, Carries, Busy, HasBlob
  <2>8. QED  BY <2>4, <2>7
<1>5. CASE EndSync(p)
  <2> DEFINE j == [k EXCEPT !.at = "done"]
  <2>1. j \in Job /\ j.at = "done" /\ j.rows = k.rows
    BY <1>1 DEF Job, At
  <2>2. job' = [job EXCEPT ![p] = j]
    BY <1>1, <1>5 DEF EndSync, Step
  <2> HIDE DEF j
  <2>3. JobOK(j) /\ RawThere(j) /\ Carries(j)
    BY <1>1, <2>1 DEF JobOK, RawThere, Carries, Busy, HasBlob
  <2>4. QED  BY <2>2, <2>3
<1>6. CASE SkipWeekend(p) \/ FetchFails(p) \/ ParseFails(p) \/ Crash(p)
  <2>1. k.at \notin {"idle", "done"} /\ (Onward(p) \/ NextDay(p) \/ Abort(p))
    BY <1>6 DEF SkipWeekend, FetchFails, ParseFails, Crash, Unavailable
  <2>2. QED  BY <1>1, <2>1, OnwardOK
<1>7. CASE Parse(p) \/ PagePasses(p)
  <2>1. k.at = "parse" /\ k.blob \in Blob /\ k.blob # Absent /\ k.cur \in Day
    BY <1>1, <1>7 DEF Parse, PagePasses, Step, JobOK, Job, Busy, HasBlob
  <2>2. CASE job' = [job EXCEPT ![p].at = "again"]
    <3> DEFINE j == [k EXCEPT !.at = "again"]
    <3>1. /\ j \in Job /\ j.at = "again" /\ j.cur = k.cur /\ j.last = k.last
          /\ j.blob = k.blob /\ j.rows = k.rows
      BY <1>1 DEF Job, At
    <3>2. job' = [job EXCEPT ![p] = j]
      BY <1>1, <2>2
    <3> HIDE DEF j
    <3>3. JobOK(j) /\ RawThere(j) /\ Carries(j)
      BY <1>1, <2>1, <3>1 DEF JobOK, RawThere, Carries, Busy, HasBlob
    <3>4. QED  BY <3>2, <3>3
  <2>3. CASE k.blob # Junk /\ job' = [job EXCEPT ![p].at = "existing"]
    <3> DEFINE j == [k EXCEPT !.at = "existing"]
    <3>1. /\ j \in Job /\ j.at = "existing" /\ j.cur = k.cur /\ j.last = k.last
          /\ j.blob = k.blob /\ j.rows = k.rows
      BY <1>1 DEF Job, At
    <3>2. job' = [job EXCEPT ![p] = j]
      BY <1>1, <2>3
    <3>3. k.blob \in Publication
      BY <2>1, <2>3, NoJunk
    <3> HIDE DEF j
    <3>4. JobOK(j) /\ RawThere(j) /\ Carries(j)
      BY <1>1, <2>1, <3>1, <3>3 DEF JobOK, RawThere, Carries, Busy, HasBlob
    <3>5. QED  BY <3>2, <3>4
  <2>4. QED  BY <1>7, <2>2, <2>3 DEF Parse, PagePasses, Step
<1>8. QED  BY <1>3, <1>4, <1>5, <1>6, <1>7

(* What the exchange answers is a publication. *)
LEMMA Answered ==
    ASSUME TypeOK, NEW when \in Day
    PROVE  Answers(when) \subseteq Publication
<1>1. \A d \in Published : d \in Day /\ archive[d] \in Version
  BY DEF TypeOK, Published
<1>2. QED  BY <1>1 DEF Answers, Publication

LEMMA ReadsOn ==
    ASSUME SyncInv, NEW p \in Process, Look(p) \/ Fetch(p) \/ Again(p) \/ ReadPartition(p)
    PROVE  SyncInv'
<1> DEFINE k == job[p]
<1>1. job \in [Process -> Job] /\ k \in Job /\ JobOK(k) /\ RawThere(k) /\ Carries(k)
  BY DEF SyncInv, TypeOK
<1>2. SUFFICES \E j : JobOK(j) /\ RawThere(j) /\ Carries(j) /\ job' = [job EXCEPT ![p] = j]
  <2>1. UNCHANGED <<scenario, archive, cache, part, stored, exposed>>
    BY DEF Look, Fetch, Again, ReadPartition
  <2>2. QED  BY <1>2, <2>1, JobMoves DEF JobOnly
<1>3. CASE Look(p)
  <2>1. k.at = "day" /\ k.cur <= k.last
    BY <1>3 DEF Look
  <2>2. k.cur \in Day
    <3>1. PICK e \in Day : e <= k.cur
      BY <1>1, <2>1 DEF JobOK
    <3>2. k.cur \in e..k.last /\ k.last \in Day
      BY <1>1, <2>1, <3>1, DataAssumption DEF JobOK, Job
    <3>3. QED  BY <3>1, <3>2, DataAssumption
  <2>3. cache[k.cur] \in Blob
    BY <2>2 DEF SyncInv, TypeOK
  <2>4. CASE cache[k.cur] # Absent
    <3> DEFINE j == [k EXCEPT !.at = "parse", !.blob = cache[k.cur]]
    <3>1. /\ j \in Job /\ j.at = "parse" /\ j.blob = cache[k.cur]
          /\ j.cur = k.cur /\ j.last = k.last /\ j.rows = k.rows
      BY <1>1, <2>3 DEF Job, At
    <3>2. job' = [job EXCEPT ![p] = j]
      BY <1>1, <1>3, <2>4 DEF Look
    <3> HIDE DEF j
    <3>3. JobOK(j) /\ RawThere(j) /\ Carries(j)
      BY <1>1, <2>1, <2>2, <2>4, <3>1 DEF JobOK, RawThere, Carries, Busy, HasBlob
    <3>4. QED  BY <3>2, <3>3
  <2>5. CASE cache[k.cur] = Absent
    <3> DEFINE j == [k EXCEPT !.at = "fetch"]
    <3>1. j \in Job /\ j.at = "fetch" /\ j.cur = k.cur /\ j.last = k.last /\ j.rows = k.rows
      BY <1>1 DEF Job, At
    <3>2. job' = [job EXCEPT ![p] = j]
      BY <1>1, <1>3, <2>5 DEF Look
    <3> HIDE DEF j
    <3>3. JobOK(j) /\ RawThere(j) /\ Carries(j)
      BY <1>1, <2>1, <2>2, <3>1 DEF JobOK, RawThere, Carries, Busy, HasBlob
    <3>4. QED  BY <3>2, <3>3
  <2>6. QED  BY <2>4, <2>5
<1>4. CASE Fetch(p)
  <2>1. k.at = "fetch" /\ k.cur \in Day
    BY <1>1, <1>4 DEF Fetch, JobOK, Busy
  <2>2. PICK b \in Publication \union {Junk} :
            job' = [job EXCEPT ![p].at = "cache", ![p].blob = b]
    BY <1>4, <2>1, Answered DEF Fetch, SyncInv
  <2>3. b \in Blob /\ b # Absent
    BY <2>2, NoJunk DEF Blob, Publication
  <2> DEFINE j == [k EXCEPT !.at = "cache", !.blob = b]
  <2>4. /\ j \in Job /\ j.at = "cache" /\ j.blob = b
        /\ j.cur = k.cur /\ j.last = k.last /\ j.rows = k.rows
    BY <1>1, <2>3 DEF Job, At
  <2>5. job' = [job EXCEPT ![p] = j]
    BY <1>1, <2>2
  <2> HIDE DEF j
  <2>6. JobOK(j) /\ RawThere(j) /\ Carries(j)
    BY <1>1, <2>1, <2>3, <2>4 DEF JobOK, RawThere, Carries, Busy, HasBlob
  <2>7. QED  BY <2>5, <2>6
<1>5. CASE Again(p)
  <2> DEFINE b == cache[k.cur]
  <2>1. k.at = "again" /\ k.cur \in Day /\ b # Absent
    BY <1>1, <1>5 DEF Again, JobOK, RawThere, Busy
  <2>2. b \in Blob
    BY <2>1 DEF SyncInv, TypeOK
  <2>3. CASE b # Junk /\ job' = [job EXCEPT ![p].at = "existing", ![p].blob = b]
    <3> DEFINE j == [k EXCEPT !.at = "existing", !.blob = b]
    <3>1. /\ j \in Job /\ j.at = "existing" /\ j.blob = b
          /\ j.cur = k.cur /\ j.last = k.last /\ j.rows = k.rows
      BY <1>1, <2>2 DEF Job, At
    <3>2. job' = [job EXCEPT ![p] = j]
      BY <1>1, <2>3
    <3>3. b \in Publication
      BY <2>1, <2>2, <2>3, NoJunk
    <3> HIDE DEF j, b
    <3>4. JobOK(j) /\ RawThere(j) /\ Carries(j)
      BY <1>1, <2>1, <3>1, <3>3 DEF JobOK, RawThere, Carries, Busy, HasBlob
    <3>5. QED  BY <3>2, <3>4
  <2>4. CASE Abort(p) \/ NextDay(p)
    BY <1>1, <2>1, <2>4, OnwardOK
  <2>5. QED  BY <1>5, <2>3, <2>4 DEF Again
<1>6. CASE ReadPartition(p)
  <2> DEFINE y == YearOf[k.cur]
             old == part[y]
  <2>1. k.at = "existing" /\ k.cur \in Day
    BY <1>1, <1>6 DEF ReadPartition, JobOK, Busy
  <2>2. y \in Year /\ old \in [readable : BOOLEAN, rows : SUBSET Row] /\ Clean(old.rows)
    BY <2>1 DEF SyncInv, TypeOK, Year
  <2>3. CASE /\ Content[k.blob.version] # <<>> /\ old.readable
             /\ job' = [job EXCEPT ![p].at = "write", ![p].rows = old.rows]
    <3> DEFINE j == [k EXCEPT !.at = "write", !.rows = old.rows]
    <3>1. /\ j \in Job /\ j.at = "write" /\ j.rows = old.rows
          /\ j.cur = k.cur /\ j.last = k.last /\ j.blob = k.blob
      BY <1>1, <2>2 DEF Job, At
    <3>2. job' = [job EXCEPT ![p] = j]
      BY <1>1, <2>3
    <3> HIDE DEF j
    <3>3. JobOK(j) /\ RawThere(j)
      BY <1>1, <2>1, <2>2, <2>3, <3>1 DEF JobOK, RawThere, Busy, HasBlob
    <3>4. Carries(j)
      BY <2>3, <3>1 DEF Carries, SyncInv, DaysStay, Stored, OfDay
    <3>5. QED  BY <3>2, <3>3, <3>4
  <2>4. CASE Onward(p) \/ Abort(p)
    BY <1>1, <2>1, <2>4, OnwardOK
  <2>5. QED  BY <1>6, <2>3, <2>4 DEF ReadPartition
<1>7. QED  BY <1>3, <1>4, <1>5, <1>6

----------------------------------------------------------------------------
(* The raw files. *)

(* p writes the raw file of its day: never back to no file. *)
LEMMA CacheMoves ==
    ASSUME SyncInv, NEW p \in Process, NEW j, JobOK(j), Carries(j), j.cur \in Day,
           job' = [job EXCEPT ![p] = j],
           NEW b \in Blob, b # Absent, cache' = [cache EXCEPT ![j.cur] = b],
           UNCHANGED <<scenario, archive, part, stored, exposed>>
    PROVE  SyncInv'
<1>1. /\ job \in [Process -> Job] /\ j \in Job /\ cache \in [Day -> Blob]
  BY DEF SyncInv, TypeOK, JobOK
<1>2. /\ job' \in [Process -> Job] /\ job'[p] = j
      /\ \A q \in Process : q # p => job'[q] = job[q]
  BY <1>1
<1>3. /\ cache' \in [Day -> Blob] /\ cache'[j.cur] = b
      /\ \A d \in Day : cache[d] # Absent => cache'[d] # Absent
  BY <1>1
<1>4. TypeOK'
  BY <1>2, <1>3 DEF SyncInv, TypeOK
<1>5. \A q \in Process : RawThere(job[q])'
  <2>1. RawThere(job[p])'
    BY <1>2, <1>3 DEF RawThere
  <2>2. ASSUME NEW q \in Process, q # p PROVE RawThere(job[q])'
    <3>1. job'[q] = job[q] /\ RawThere(job[q]) /\ JobOK(job[q])
      BY <1>2, <2>2 DEF SyncInv
    <3>2. QED  BY <1>3, <3>1 DEF RawThere, JobOK, Busy
  <2>3. QED  BY <2>1, <2>2
<1>6. \A q \in Process : (JobOK(job[q]) /\ Carries(job[q]))'
  <2>1. \A q \in Process : JobOK(job'[q]) /\ Carries(job'[q])
    BY <1>2 DEF SyncInv
  <2>2. \A k : Carries(k)' <=> Carries(k)
    BY DEF Carries
  <2>3. QED  BY <2>1, <2>2, SayTheSame
<1>7. (\A y \in Year : Clean(part[y].rows)) /\ DaysStay
  BY DEF SyncInv
<1>8. \A y \in Year : Clean(part[y].rows)'
  BY <1>7, SayTheSame
<1>9. DaysStay'
  BY <1>7 DEF DaysStay, Stored
<1>10. QED  BY <1>4, <1>5, <1>6, <1>8, <1>9 DEF SyncInv

LEMMA WritesRaw ==
    ASSUME SyncInv, NEW p \in Process, OpenCache(p) \/ FillCache(p)
    PROVE  SyncInv'
<1> DEFINE k == job[p]
<1>1. job \in [Process -> Job] /\ k \in Job /\ JobOK(k) /\ Carries(k)
  BY DEF SyncInv, TypeOK
<1>2. k.at \in {"cache", "caching"} /\ k.cur \in Day /\ k.blob \in Blob /\ k.blob # Absent
  BY <1>1 DEF OpenCache, FillCache, Step, JobOK, Busy, HasBlob, Job
<1>3. Junk \in Blob /\ Junk # Absent
  BY NoJunk DEF Blob
<1>4. UNCHANGED <<scenario, archive, part, stored, exposed>>
  BY DEF OpenCache, FillCache
<1>5. CASE OpenCache(p)
  <2> DEFINE j == [k EXCEPT !.at = "caching"]
  <2>1. /\ j \in Job /\ j.at = "caching" /\ j.cur = k.cur /\ j.last = k.last
        /\ j.blob = k.blob /\ j.rows = k.rows
    BY <1>1 DEF Job, At
  <2>2. job' = [job EXCEPT ![p] = j] /\ cache' = [cache EXCEPT ![k.cur] = Junk]
    BY <1>1, <1>5 DEF OpenCache, Step
  <2> HIDE DEF j
  <2>3. JobOK(j) /\ Carries(j)
    BY <1>1, <1>2, <2>1 DEF JobOK, Carries, Busy, HasBlob
  <2>4. cache' = [cache EXCEPT ![j.cur] = Junk] /\ j.cur \in Day
    BY <1>2, <2>1, <2>2
  <2>5. QED  BY <1>3, <1>4, <2>2, <2>3, <2>4, CacheMoves
<1>6. CASE FillCache(p)
  <2> DEFINE j == [k EXCEPT !.at = "parse"]
  <2>1. /\ j \in Job /\ j.at = "parse" /\ j.cur = k.cur /\ j.last = k.last
        /\ j.blob = k.blob /\ j.rows = k.rows
    BY <1>1 DEF Job, At
  <2>2. PICK b \in {k.blob, Junk} :
            job' = [job EXCEPT ![p] = j] /\ cache' = [cache EXCEPT ![k.cur] = b]
    BY <1>1, <1>6 DEF FillCache, Step
  <2> HIDE DEF j
  <2>3. JobOK(j) /\ Carries(j)
    BY <1>1, <1>2, <2>1 DEF JobOK, Carries, Busy, HasBlob
  <2>4. /\ cache' = [cache EXCEPT ![j.cur] = b] /\ j.cur \in Day
        /\ b \in Blob /\ b # Absent
    BY <1>2, <1>3, <2>1, <2>2
  <2>5. QED  BY <1>4, <2>2, <2>3, <2>4, CacheMoves
<1>7. QED  BY <1>5, <1>6

----------------------------------------------------------------------------
(* The year's file. *)

LEMMA OpensPartition ==
    ASSUME SyncInv, NEW p \in Process, OpenPartition(p)
    PROVE  SyncInv'
<1> DEFINE k == job[p]
           j == [k EXCEPT !.at = "writing"]
           empty == [readable |-> FALSE, rows |-> {}]
<1>1. job \in [Process -> Job] /\ k \in Job /\ JobOK(k) /\ Carries(k)
  BY DEF SyncInv, TypeOK
<1>2. k.at = "write" /\ k.cur \in Day /\ YearOf[k.cur] \in Year
  BY <1>1 DEF OpenPartition, Step, JobOK, Busy, Year
<1>3. /\ j \in Job /\ j.at = "writing" /\ j.cur = k.cur /\ j.last = k.last
      /\ j.blob = k.blob /\ j.rows = k.rows
  BY <1>1 DEF Job, At
<1>4. /\ job' = [job EXCEPT ![p] = j]
      /\ part' = [part EXCEPT ![YearOf[k.cur]] = empty]
      /\ UNCHANGED <<scenario, archive, cache, stored, exposed>>
  BY <1>1 DEF OpenPartition, Step
<1> HIDE DEF j
<1>5. JobOK(j) /\ RawThere(j) /\ Carries(j)
  BY <1>1, <1>2, <1>3 DEF JobOK, RawThere, Carries, Busy, HasBlob
<1>6. /\ job' \in [Process -> Job] /\ job'[p] = j
      /\ \A q \in Process : q # p => job'[q] = job[q]
  BY <1>1, <1>3, <1>4
<1>7. /\ empty \in [readable : BOOLEAN, rows : SUBSET Row]
      /\ empty.readable = FALSE /\ Clean(empty.rows)
  BY DEF Clean, KeyWise, OnePublication, OfDay, OfKey
<1>8. part \in [Year -> [readable : BOOLEAN, rows : SUBSET Row]]
  BY DEF SyncInv, TypeOK
<1> HIDE DEF empty
<1>9. /\ part' \in [Year -> [readable : BOOLEAN, rows : SUBSET Row]]
      /\ part'[YearOf[k.cur]] = empty
      /\ \A y \in Year : y # YearOf[k.cur] => part'[y] = part[y]
  BY <1>2, <1>4, <1>7, <1>8
<1>10. TypeOK'
  BY <1>4, <1>6, <1>9 DEF SyncInv, TypeOK
<1>11. \A q \in Process : (JobOK(job[q]) /\ RawThere(job[q]) /\ Carries(job[q]))'
  <2>1. \A q \in Process : JobOK(job'[q]) /\ RawThere(job'[q]) /\ Carries(job'[q])
    BY <1>5, <1>6 DEF SyncInv
  <2>2. \A i : (RawThere(i)' <=> RawThere(i)) /\ (Carries(i)' <=> Carries(i))
    BY <1>4 DEF RawThere, Carries
  <2>3. QED  BY <1>4, <2>1, <2>2, SayTheSame
<1>12. \A y \in Year : Clean(part[y].rows)'
  <2>1. \A y \in Year : Clean(part'[y].rows)
    BY <1>7, <1>9 DEF SyncInv
  <2>2. QED  BY <1>4, <2>1, SayTheSame
<1>13. DaysStay'
  <2>1. ASSUME NEW d \in stored \ exposed, part'[YearOf[d]].readable
        PROVE  {r \in part'[YearOf[d]].rows : r.date = d} # {}
    <3>1. d \in Day /\ YearOf[d] \in Year
      BY DEF SyncInv, TypeOK, Year
    <3>2. YearOf[d] # YearOf[k.cur]
      BY <1>7, <1>9, <2>1, <3>1
    <3>3. part'[YearOf[d]] = part[YearOf[d]]
      BY <1>9, <3>1, <3>2
    <3>4. QED  BY <2>1, <3>3 DEF SyncInv, DaysStay, Stored
  <2>2. QED  BY <1>4, <2>1 DEF DaysStay, Stored
<1>14. QED  BY <1>10, <1>11, <1>12, <1>13 DEF SyncInv

LEMMA FillsPartition ==
    ASSUME SyncInv, NEW p \in Process, FillPartition(p)
    PROVE  SyncInv'
<1> DEFINE k == job[p]
           d == k.cur
           y == YearOf[d]
           rows == Combined(k.rows, Parsed(k.blob, d))
<1>1. job \in [Process -> Job] /\ k \in Job /\ JobOK(k) /\ Carries(k)
  BY DEF SyncInv, TypeOK
<1>2. /\ k.at = "writing" /\ d \in Day /\ y \in Year
      /\ k.blob \in Publication /\ Content[k.blob.version] # <<>>
      /\ k.rows \in SUBSET Row /\ Clean(k.rows)
  BY <1>1 DEF FillPartition, JobOK, Busy, Year, Job
<1>3. /\ rows \in SUBSET Row /\ Clean(rows) /\ OfDay(rows, d) # {}
      /\ \A e \in Day : OfDay(k.rows, e) # {} => OfDay(rows, e) # {}
  BY <1>2, CombinedClean
<1>4. PICK j : /\ JobOK(j) /\ RawThere(j) /\ Carries(j)
               /\ j.at \in {"idle", "day"}
               /\ job' = [job EXCEPT ![p] = j]
  BY <1>1, <1>2, OnwardOK DEF FillPartition
<1>5. /\ UNCHANGED <<scenario, archive, cache>>
      /\ stored' = stored \union {d}
      /\ exposed' = IF \E q \in Process \ {p} : Overlaps(q, y) THEN exposed \union {d}
                    ELSE exposed \ {d}
  BY DEF FillPartition
<1> HIDE DEF rows
<1>6. PICK after \in {[readable |-> TRUE, rows |-> rows], [readable |-> FALSE, rows |-> {}]} :
          part' = [part EXCEPT ![y] = after]
  BY DEF FillPartition, rows
<1>7. /\ after \in [readable : BOOLEAN, rows : SUBSET Row] /\ Clean(after.rows)
      /\ after.readable => after.rows = rows
  <2>1. Clean({})
    BY IdleOK DEF JobOK, Idle
  <2>2. CASE after = [readable |-> TRUE, rows |-> rows]
    BY <1>3, <2>2
  <2>3. CASE after = [readable |-> FALSE, rows |-> {}]
    BY <2>1, <2>3
  <2>4. QED  BY <1>6, <2>2, <2>3
<1> HIDE DEF k, d, y
<1>8. /\ part' \in [Year -> [readable : BOOLEAN, rows : SUBSET Row]]
      /\ part'[y] = after
      /\ \A z \in Year : z # y => part'[z] = part[z]
  BY <1>2, <1>6, <1>7 DEF SyncInv, TypeOK
<1>9. /\ job' \in [Process -> Job] /\ job'[p] = j
      /\ \A q \in Process : q # p => job'[q] = job[q]
  BY <1>1, <1>4 DEF JobOK
<1>10. TypeOK'
  BY <1>2, <1>5, <1>8, <1>9 DEF SyncInv, TypeOK
<1>11. \A q \in Process : (JobOK(job[q]) /\ RawThere(job[q]))'
  <2>1. \A q \in Process : JobOK(job'[q]) /\ RawThere(job'[q])
    BY <1>4, <1>9 DEF SyncInv
  <2>2. \A i : RawThere(i)' <=> RawThere(i)
    BY <1>5 DEF RawThere
  <2>3. QED  BY <1>5, <2>1, <2>2, SayTheSame
<1>12. \A z \in Year : Clean(part[z].rows)'
  <2>1. \A z \in Year : Clean(part'[z].rows)
    BY <1>7, <1>8 DEF SyncInv
  <2>2. QED  BY <1>5, <2>1, SayTheSame
<1>13. \A e \in stored' \ exposed' :
          e \in Day /\ (e \in stored \ exposed \/ (e = d /\ \A q \in Process \ {p} : ~Overlaps(q, y)))
  BY <1>2, <1>5 DEF SyncInv, TypeOK
<1>14. \A q \in Process : Carries(job[q])'
  <2>1. ASSUME NEW q \in Process, NEW e \in stored' \ exposed',
               job'[q].at \in {"write", "writing"}, YearOf[job'[q].cur] = YearOf[e]
        PROVE  OfDay(job'[q].rows, e) # {}
    <3>1. q # p /\ job'[q] = job[q]
      BY <1>4, <1>9, <2>1
    <3>2. CASE e \in stored \ exposed
      BY <2>1, <3>1, <3>2 DEF SyncInv, Carries
    <3>3. CASE e = d /\ \A r \in Process \ {p} : ~Overlaps(r, y)
      BY <2>1, <3>1, <3>3 DEF Overlaps, y
    <3>4. QED  BY <1>13, <3>2, <3>3
  <2>2. QED  BY <2>1 DEF Carries
<1>15. DaysStay'
  <2>1. ASSUME NEW e \in stored' \ exposed', part'[YearOf[e]].readable
        PROVE  OfDay(part'[YearOf[e]].rows, e) # {}
    <3>1. e \in Day /\ YearOf[e] \in Year
      BY <1>13 DEF Year
    <3>2. CASE YearOf[e] # y
      <4>1. e \in stored \ exposed /\ part'[YearOf[e]] = part[YearOf[e]]
        BY <1>8, <1>13, <3>1, <3>2 DEF y
      <4>2. QED  BY <2>1, <4>1 DEF SyncInv, DaysStay, Stored, OfDay
    <3>3. CASE YearOf[e] = y
      <4>1. part'[YearOf[e]].rows = rows
        BY <1>7, <1>8, <2>1, <3>3
      <4>2. CASE e = d
        BY <1>3, <4>1, <4>2
      <4>3. CASE e \in stored \ exposed
        <5>1. OfDay(k.rows, e) # {}
          BY <1>1, <1>2, <3>3, <4>3 DEF Carries, y, d
        <5>2. QED  BY <1>3, <3>1, <4>1, <5>1
      <4>4. QED  BY <1>13, <4>2, <4>3
    <3>4. QED  BY <3>2, <3>3
  <2>2. QED  BY <2>1 DEF DaysStay, Stored, OfDay
<1>16. QED  BY <1>10, <1>11, <1>12, <1>14, <1>15 DEF SyncInv

----------------------------------------------------------------------------
(* The exchange changes nothing the processes have. *)
LEMMA Publishes ==
    ASSUME SyncInv, NEW d \in Day, Publish(d)
    PROVE  SyncInv'
<1>1. /\ UNCHANGED <<scenario, cache, part, job, stored, exposed>>
      /\ archive' \in [Day -> {0} \union Version]
  BY DEF Publish, SyncInv, TypeOK
<1>2. TypeOK'
  BY <1>1 DEF SyncInv, TypeOK
<1>3. \A j : (RawThere(j)' <=> RawThere(j)) /\ (Carries(j)' <=> Carries(j))
  BY <1>1 DEF RawThere, Carries
<1>4. \A p \in Process : (JobOK(job[p]) /\ RawThere(job[p]) /\ Carries(job[p]))'
  BY <1>1, <1>3, SayTheSame DEF SyncInv
<1>5. \A y \in Year : Clean(part[y].rows)'
  BY <1>1, SayTheSame DEF SyncInv
<1>6. DaysStay'
  BY <1>1 DEF SyncInv, DaysStay, Stored
<1>7. QED  BY <1>2, <1>4, <1>5, <1>6 DEF SyncInv

LEMMA Starts ==
    ASSUME Init PROVE SyncInv
<1>1. Clean({})
  BY IdleOK DEF JobOK, Idle
<1>2. job = [p \in Process |-> Idle] /\ stored = {} /\ exposed = {}
      /\ part = [y \in Year |-> [readable |-> TRUE, rows |-> {}]]
  BY DEF Init
<1>3. TypeOK
  <2>1. cache \in [Day -> Blob] /\ archive \in [Day -> {0} \union Version]
    BY DEF Init, Blob
  <2>2. job \in [Process -> Job]
    BY <1>2, IdleOK
  <2>3. part \in [Year -> [readable : BOOLEAN, rows : SUBSET Row]]
    BY <1>2
  <2>4. QED  BY <1>2, <2>1, <2>2, <2>3 DEF Init, TypeOK
<1>4. \A p \in Process : JobOK(job[p]) /\ RawThere(job[p]) /\ Carries(job[p])
  BY <1>2, IdleOK
<1>5. \A y \in Year : Clean(part[y].rows)
  BY <1>1, <1>2
<1>6. QED  BY <1>2, <1>3, <1>4, <1>5 DEF SyncInv, DaysStay

LEMMA Kept ==
    ASSUME SyncInv, [Next]_vars PROVE SyncInv'
<1>1. ASSUME NEW d \in Day, Publish(d) PROVE SyncInv'
  BY <1>1, Publishes
<1>2. ASSUME NEW p \in scenario.syncing, Sync(p) \/ Advance(p) \/ Crash(p) PROVE SyncInv'
  <2>1. p \in Process
    BY DataAssumption DEF SyncInv, TypeOK
  <2>2. QED
    BY <1>2, <2>1, MovesOn, ReadsOn, WritesRaw, OpensPartition, FillsPartition DEF Advance
<1>3. ASSUME NEW p \in scenario.syncing, NEW d \in scenario.refreshing, Refresh(p, d)
      PROVE  SyncInv'
  <2>1. p \in Process
    BY DataAssumption DEF SyncInv, TypeOK
  <2>2. QED  BY <1>3, <2>1, MovesOn
<1>4. CASE UNCHANGED vars
  <2>1. UNCHANGED <<scenario, archive, cache, part, job, stored, exposed>>
    BY <1>4 DEF vars
  <2>2. TypeOK'
    BY <2>1 DEF SyncInv, TypeOK
  <2>3. \A j : (RawThere(j)' <=> RawThere(j)) /\ (Carries(j)' <=> Carries(j))
    BY <2>1 DEF RawThere, Carries
  <2>4. \A p \in Process : (JobOK(job[p]) /\ RawThere(job[p]) /\ Carries(job[p]))'
    BY <2>1, <2>3, SayTheSame DEF SyncInv
  <2>5. \A y \in Year : Clean(part[y].rows)'
    BY <2>1, SayTheSame DEF SyncInv
  <2>6. DaysStay'
    BY <2>1 DEF SyncInv, DaysStay, Stored
  <2>7. QED  BY <2>2, <2>4, <2>5, <2>6 DEF SyncInv
<1>5. QED  BY <1>1, <1>2, <1>3, <1>4 DEF Next

(* The invariant, through any interleaving, fault, revision and crash. *)
THEOREM SyncInvariant == Spec => []SyncInv
<1>1. Init => SyncInv
  BY Starts
<1>2. SyncInv /\ [Next]_vars => SyncInv'
  BY Kept
<1>3. QED  BY <1>1, <1>2, PTL DEF Spec

(* write_eod, write_partitioned: the stored rows of a date and key are all *)
(* those that one publication has of it, and no row of another, whatever   *)
(* is synced again, merged and overwritten by how many processes.          *)
THEOREM KeysAreWhole == Spec => []KeysWhole
<1>1. SyncInv => KeysWhole
  <2>1. SUFFICES ASSUME SyncInv, NEW d \in Day, NEW k \in Key, OfKey(Stored(d), k) # {}
                 PROVE  \E e \in Day, v \in Version :
                            OfKey(Stored(d), k) = OfKey(Parsed(Good(e, v), d), k)
    BY DEF KeysWhole
  <2>2. YearOf[d] \in Year /\ Stored(d) = OfDay(part[YearOf[d]].rows, d)
    BY DEF Year, Stored, OfDay
  <2>3. QED  BY <2>1, <2>2 DEF SyncInv, Clean, KeyWise
<1>2. QED  BY <1>1, SyncInvariant, PTL

(* write_eod: what is stored of a day of equity is one publication, whole, *)
(* and never a mixture of two.                                             *)
THEOREM DaysAreWhole == Spec => []DayWhole
<1>1. SyncInv => DayWhole
  <2>1. SUFFICES ASSUME SyncInv, dataset = "equity", NEW d \in Day, Stored(d) # {}
                 PROVE  \E e \in Day, v \in Version : Stored(d) = Parsed(Good(e, v), d)
    BY DEF DayWhole
  <2>2. YearOf[d] \in Year /\ Stored(d) = OfDay(part[YearOf[d]].rows, d)
    BY DEF Year, Stored, OfDay
  <2>3. QED  BY <2>1, <2>2 DEF SyncInv, Clean, OnePublication
<1>2. QED  BY <1>1, SyncInvariant, PTL

(* A stored day is in its year's file whenever that can be read, or was    *)
(* lost to the write of a process that had read the file before: a sync    *)
(* and its retries never drop one by themselves.  A process that dies      *)
(* between opening the file and filling it leaves a file that cannot be    *)
(* read, and every day of the year is lost with it.                        *)
THEOREM StoredDaysStay == Spec => []DaysStay
<1>1. SyncInv => DaysStay
  BY DEF SyncInv
<1>2. QED  BY <1>1, SyncInvariant, PTL

----------------------------------------------------------------------------
(* Who will store a day. *)

InRange(p) == Span[p].first .. Span[p].last

(* Scripts refresh only days that the process that runs them also syncs.    *)
RefreshesWithin ==
    \A s \in Scenario : \A p \in s.syncing, d \in s.refreshing : d \in InRange(p)

(* A job keeps to the range of its process, or to the day it refreshes.     *)
Keeps(p, j) ==
    /\ j.at \in {"idle", "day", "again", "done"} => j.use_cache
    /\ j.at \notin {"idle", "done"} /\ j.use_cache => j.last = Span[p].last /\ Span[p].first <= j.cur
    /\ j.at \in Busy => j.cur \in InRange(p)

(* A good raw file of a day that was never stored. *)
Missing(d) == cache[d].state = "good" /\ Content[cache[d].version] # <<>> /\ d \notin stored

(* A process owes d when it cannot be done before d is stored, unless the   *)
(* raw file of d is spoilt: it is to start again, or comes to d yet, or is  *)
(* on the way from d's raw file to the year's.                              *)
Owes(j, d) ==
    \/ j.at = "idle"
    \/ ~j.use_cache
    \/ j.at # "done" /\ j.cur < d
    \/ j.at = "day" /\ j.cur <= d
    \/ j.cur = d /\ j.at = "parse" /\ j.blob # Junk
    \/ j.cur = d /\ j.at = "again"
    \/ j.cur = d /\ j.at = "existing" /\ Content[j.blob.version] # <<>>
    \/ j.cur = d /\ j.at \in {"write", "writing"}

DutyInv ==
    /\ \A p \in scenario.syncing : Keeps(p, job[p])
    /\ \A d \in Day \ Weekend : Missing(d) =>
          \E p \in scenario.syncing : d \in InRange(p) /\ Owes(job[p], d)

(* p's job, and where it goes: what it owed it owes. *)
Dutiful(p) ==
    /\ Keeps(p, job'[p])
    /\ \A d \in Day \ Weekend :
          (d \in InRange(p) /\ Missing(d) /\ d \notin stored' /\ Owes(job[p], d)) => Owes(job'[p], d)

LEMMA RangeNat ==
    ASSUME NEW p \in Process
    PROVE  /\ Span[p].first \in Nat /\ Span[p].last \in Nat
           /\ InRange(p) \subseteq Nat /\ Day \subseteq Nat
           /\ \A n \in Nat : n \in InRange(p) <=> Span[p].first <= n /\ n <= Span[p].last
<1>1. Span[p] \in [first : Day, last : Day] /\ Day \subseteq Nat
  BY DataAssumption
<1>2. Span[p].first \in Nat /\ Span[p].last \in Nat
  BY <1>1
<1>3. QED  BY <1>1, <1>2 DEF InRange

(* Beginnings. *)
LEMMA DutifulBegins ==
    ASSUME SyncInv, RefreshesWithin, NEW p \in scenario.syncing, p \in Process, Keeps(p, job[p]),
           Sync(p) \/ \E d \in scenario.refreshing : Refresh(p, d)
    PROVE  Dutiful(p)
<1>1. job \in [Process -> Job] /\ scenario \in Scenario
  BY DEF SyncInv, TypeOK
<1>2. CASE Sync(p)
  <2>1. /\ job'[p].at = "day" /\ job'[p].cur = Span[p].first /\ job'[p].last = Span[p].last
        /\ job'[p].use_cache
    BY <1>1, <1>2 DEF Sync, Idle
  <2>2. \A d \in InRange(p) : job'[p].cur <= d
    BY <2>1, RangeNat
  <2>3. QED  BY <2>1, <2>2, RangeNat DEF Dutiful, Keeps, Owes, Busy
<1>3. CASE \E d \in scenario.refreshing : Refresh(p, d)
  <2>1. PICK d \in scenario.refreshing : Refresh(p, d)
    BY <1>3
  <2>2. job'[p].at = "fetch" /\ job'[p].cur = d /\ ~job'[p].use_cache
    BY <1>1, <2>1 DEF Refresh, Idle
  <2>3. d \in InRange(p)
    BY <1>1 DEF RefreshesWithin
  <2>4. QED  BY <2>2, <2>3 DEF Dutiful, Keeps, Owes
<1>4. QED  BY <1>2, <1>3

(* Ends of a day. *)
LEMMA DutifulIdle ==
    ASSUME job \in [Process -> Job], NEW p \in Process, Abort(p)
    PROVE  Dutiful(p)
<1>1. job'[p].at = "idle" /\ job'[p].use_cache
  BY DEF Abort, Idle
<1>2. QED  BY <1>1 DEF Dutiful, Keeps, Owes, Busy

LEMMA DutifulNext ==
    ASSUME job \in [Process -> Job], NEW p \in Process, Keeps(p, job[p]), job[p].use_cache,
           job[p].at \notin {"idle", "done"}, NextDay(p),
           \A d \in Day \ Weekend : (Missing(d) /\ d \notin stored' /\ d = job[p].cur) => ~Owes(job[p], d)
    PROVE  Dutiful(p)
<1> DEFINE k == job[p]
           j == job'[p]
<1>1. /\ k.cur \in Nat
      /\ j.at = "day" /\ j.cur = k.cur + 1 /\ j.last = k.last /\ j.use_cache
  BY DEF NextDay, Idle, Job
<1>2. Keeps(p, j)
  BY <1>1, RangeNat DEF Keeps, Busy
<1>3. ASSUME NEW d \in Day \ Weekend, Missing(d), d \notin stored', Owes(k, d) PROVE Owes(j, d)
  <2>1. d \in Nat /\ d # k.cur
    BY <1>3, RangeNat
  <2>2. k.cur <= d
    BY <1>1, <1>3, <2>1 DEF Owes
  <2>3. j.cur <= d
    BY <1>1, <2>1, <2>2
  <2>4. QED  BY <1>1, <2>3 DEF Owes
<1>4. QED  BY <1>2, <1>3 DEF Dutiful

LEMMA DutifulOnward ==
    ASSUME job \in [Process -> Job], NEW p \in Process, Keeps(p, job[p]),
           job[p].at \notin {"idle", "done"}, Onward(p),
           \A d \in Day \ Weekend : (Missing(d) /\ d \notin stored' /\ d = job[p].cur) =>
              ~Owes(job[p], d) \/ ~job[p].use_cache
    PROVE  Dutiful(p)
  BY DutifulIdle, DutifulNext DEF Onward

(* Steps within a day. *)
LEMMA DutifulWithin ==
    ASSUME job \in [Process -> Job], NEW p \in Process, Keeps(p, job[p]), NEW j,
           job'[p] = j, j.cur = job[p].cur, j.last = job[p].last, j.use_cache = job[p].use_cache,
           job[p].at \notin {"idle", "done"}, j.at \in Busy, job[p].cur \in InRange(p),
           j.at = "again" => j.use_cache,
           \A d \in Day \ Weekend :
              (Missing(d) /\ d = j.cur /\ Owes(job[p], d)) => Owes(j, d)
    PROVE  Dutiful(p)
<1> DEFINE k == job[p]
<1>1. Keeps(p, j)
  BY DEF Keeps, Busy
<1>2. ASSUME NEW d \in Day \ Weekend, Missing(d), Owes(k, d) PROVE Owes(j, d)
  <2>1. CASE d = j.cur
    BY <1>2, <2>1
  <2>2. CASE d # j.cur
    <3>1. k.cur \in Nat /\ d \in Nat
      BY RangeNat DEF Job
    <3>2. ~k.use_cache \/ k.cur < d
      BY <1>2, <2>2, <3>1 DEF Owes
    <3>3. QED  BY <3>2 DEF Owes, Busy
  <2>3. QED  BY <2>1, <2>2
<1>3. QED  BY <1>1, <1>2 DEF Dutiful

LEMMA DutifulAdvances ==
    ASSUME SyncInv, NEW p \in scenario.syncing, p \in Process, Keeps(p, job[p]), Advance(p) \/ Crash(p)
    PROVE  Dutiful(p)
<1> DEFINE k == job[p]
<1>1. /\ job \in [Process -> Job] /\ k \in Job /\ JobOK(k)
      /\ cache \in [Day -> Blob] /\ stored \subseteq Day
  BY DEF SyncInv, TypeOK
<1>2. k.at \in Busy => k.cur \in InRange(p) /\ k.cur \in Day /\ k.cur \in Nat
  BY <1>1, RangeNat DEF Keeps, JobOK
<1>3. \A blob : blob \in Blob /\ blob.state = "good" => blob # Junk /\ blob # Absent
  BY DEF Junk, Absent
<1>4. CASE EndSync(p)
  <2>1. k.at = "day" /\ k.cur > k.last /\ k.last = Span[p].last /\ k.use_cache
    BY <1>4 DEF EndSync, Step, Keeps
  <2>2. job'[p].at = "done" /\ job'[p].use_cache
    BY <1>1, <1>4, <2>1 DEF EndSync, Step, Job
  <2>3. \A d \in InRange(p) : ~Owes(k, d)
    BY <1>1, <2>1, RangeNat DEF Owes, Job
  <2>4. QED  BY <2>2, <2>3 DEF Dutiful, Keeps, Busy
<1>5. CASE SkipWeekend(p)
  <2>1. k.at = "day" /\ k.cur \in Weekend /\ NextDay(p) /\ k.use_cache
    BY <1>5 DEF SkipWeekend, Keeps
  <2>2. QED  BY <1>1, <2>1, DutifulNext
<1>6. CASE FetchFails(p)
  <2>1. k.at = "fetch" /\ Unavailable(p)
    BY <1>6 DEF FetchFails
  <2>2. \A d \in Day : d = k.cur => ~Owes(k, d) \/ ~k.use_cache
    BY <1>2, <2>1 DEF Owes, Busy
  <2>3. QED  BY <1>1, <2>1, <2>2, DutifulOnward, DutifulIdle DEF Unavailable
<1>7. CASE ParseFails(p)
  <2>1. k.at = "parse" /\ k.blob = Junk /\ Unavailable(p)
    BY <1>7 DEF ParseFails
  <2>2. \A d \in Day : d = k.cur => ~Owes(k, d) \/ ~k.use_cache
    BY <1>2, <2>1 DEF Owes, Busy
  <2>3. QED  BY <1>1, <2>1, <2>2, DutifulOnward, DutifulIdle DEF Unavailable
<1>8. CASE Crash(p)
  BY <1>1, <1>8, DutifulIdle DEF Crash
<1>9. CASE Look(p)
  <2>1. k.at = "day" /\ k.cur <= k.last /\ k.cur \notin Weekend /\ k.use_cache
        /\ k.last = Span[p].last /\ Span[p].first <= k.cur
    BY <1>9 DEF Look, Keeps
  <2>2. k.cur \in InRange(p) /\ k.cur \in Nat
    BY <1>1, <2>1, RangeNat DEF Job
  <2>3. CASE cache[k.cur] # Absent /\ job' = [job EXCEPT ![p].at = "parse", ![p].blob = cache[k.cur]]
    <3> DEFINE j == [k EXCEPT !.at = "parse", !.blob = cache[k.cur]]
    <3>1. /\ job'[p] = j /\ j.cur = k.cur /\ j.last = k.last /\ j.use_cache = k.use_cache
          /\ j.at = "parse" /\ j.blob = cache[k.cur]
      BY <1>1, <2>3 DEF Job
    <3> HIDE DEF j
    <3>2. ASSUME NEW d \in Day \ Weekend, Missing(d), d = j.cur PROVE Owes(j, d)
      BY <1>1, <1>3, <3>1, <3>2 DEF Missing, Owes
    <3>3. QED  BY <1>1, <2>1, <2>2, <3>1, <3>2, DutifulWithin DEF Busy
  <2>4. CASE cache[k.cur] = Absent /\ job' = [job EXCEPT ![p].at = "fetch"]
    <3> DEFINE j == [k EXCEPT !.at = "fetch"]
    <3>1. /\ job'[p] = j /\ j.cur = k.cur /\ j.last = k.last /\ j.use_cache = k.use_cache
          /\ j.at = "fetch"
      BY <1>1, <2>4 DEF Job
    <3> HIDE DEF j
    <3>2. ASSUME NEW d \in Day \ Weekend, Missing(d), d = j.cur PROVE FALSE
      BY <2>4, <3>1, <3>2 DEF Missing, Absent
    <3>3. QED  BY <1>1, <2>1, <2>2, <3>1, <3>2, DutifulWithin DEF Busy
  <2>5. QED  BY <1>9, <2>3, <2>4 DEF Look
<1>10. CASE Fetch(p)
  <2>1. PICK blob : job' = [job EXCEPT ![p].at = "cache", ![p].blob = blob]
    BY <1>10 DEF Fetch
  <2>2. k.at = "fetch"
    BY <1>10 DEF Fetch
  <2> DEFINE j == [k EXCEPT !.at = "cache", !.blob = blob]
  <2>3. /\ job'[p] = j /\ j.cur = k.cur /\ j.last = k.last /\ j.use_cache = k.use_cache
        /\ j.at = "cache"
    BY <1>1, <2>1 DEF Job
  <2> HIDE DEF j
  <2>4. k.cur \in InRange(p) /\ k.cur \in Nat
    BY <1>2, <2>2 DEF Busy
  <2>5. ASSUME NEW d \in Day \ Weekend, d = j.cur, Owes(k, d) PROVE Owes(j, d)
    BY <2>2, <2>3, <2>4, <2>5 DEF Owes
  <2>6. QED  BY <1>1, <2>2, <2>3, <2>4, <2>5, DutifulWithin DEF Busy
<1>11. CASE OpenCache(p) \/ FillCache(p)
  <2>1. \/ k.at = "cache" /\ job' = [job EXCEPT ![p].at = "caching"]
        \/ k.at = "caching" /\ job' = [job EXCEPT ![p].at = "parse"]
    BY <1>11 DEF OpenCache, FillCache, Step
  <2>2. PICK at \in {"caching", "parse"} : job' = [job EXCEPT ![p].at = at]
    BY <2>1
  <2> DEFINE j == [k EXCEPT !.at = at]
  <2>3. /\ job'[p] = j /\ j.cur = k.cur /\ j.last = k.last /\ j.use_cache = k.use_cache
        /\ j.at \in {"caching", "parse"}
    BY <1>1, <2>2 DEF Job
  <2> HIDE DEF j
  <2>4. k.cur \in InRange(p) /\ k.cur \in Nat
    BY <1>2, <2>1 DEF Busy
  <2>5. ASSUME NEW d \in Day \ Weekend, d = j.cur, Owes(k, d) PROVE Owes(j, d)
    BY <2>1, <2>3, <2>4, <2>5 DEF Owes
  <2>6. QED  BY <1>1, <2>1, <2>3, <2>4, <2>5, DutifulWithin DEF Busy
<1>12. CASE Parse(p) \/ PagePasses(p)
  <2>1. /\ k.at = "parse"
        /\ \/ k.use_cache /\ job' = [job EXCEPT ![p].at = "again"]
           \/ ~k.use_cache /\ job' = [job EXCEPT ![p].at = "existing"]
    BY <1>12 DEF Parse, PagePasses, Step
  <2>2. PICK at \in {"again", "existing"} :
            job' = [job EXCEPT ![p].at = at] /\ (at = "again" <=> k.use_cache)
    BY <2>1
  <2> DEFINE j == [k EXCEPT !.at = at]
  <2>3. /\ job'[p] = j /\ j.cur = k.cur /\ j.last = k.last /\ j.use_cache = k.use_cache
        /\ j.at = at
    BY <1>1, <2>2 DEF Job
  <2> HIDE DEF j
  <2>4. k.cur \in InRange(p)
    BY <1>2, <2>1 DEF Busy
  <2>5. ASSUME NEW d \in Day \ Weekend, d = j.cur PROVE Owes(j, d)
    BY <2>2, <2>3, <2>5 DEF Owes
  <2>6. QED  BY <1>1, <2>1, <2>2, <2>3, <2>4, <2>5, DutifulWithin DEF Busy
<1>13. CASE Again(p)
  <2>1. k.at = "again" /\ k.use_cache
    BY <1>13 DEF Again, Keeps
  <2>2. k.cur \in InRange(p) /\ k.cur \in Day
    BY <1>2, <2>1 DEF Busy
  <2>3. CASE job' = [job EXCEPT ![p].at = "existing", ![p].blob = cache[k.cur]]
    <3> DEFINE j == [k EXCEPT !.at = "existing", !.blob = cache[k.cur]]
    <3>1. /\ job'[p] = j /\ j.cur = k.cur /\ j.last = k.last /\ j.use_cache = k.use_cache
          /\ j.at = "existing" /\ j.blob = cache[k.cur]
      BY <1>1, <2>3 DEF Job
    <3> HIDE DEF j
    <3>2. ASSUME NEW d \in Day \ Weekend, Missing(d), d = j.cur PROVE Owes(j, d)
      BY <3>1, <3>2 DEF Missing, Owes
    <3>3. QED  BY <1>1, <2>1, <2>2, <3>1, <3>2, DutifulWithin DEF Busy
  <2>4. CASE Abort(p)
    BY <1>1, <2>4, DutifulIdle
  <2>5. CASE cache[k.cur] = Junk /\ NextDay(p)
    <3>1. \A d \in Day : d = k.cur => ~Missing(d)
      BY <2>5 DEF Missing, Junk
    <3>2. QED  BY <1>1, <2>1, <2>5, <3>1, DutifulNext
  <2>6. QED  BY <1>13, <2>3, <2>4, <2>5 DEF Again
<1>14. CASE ReadPartition(p)
  <2>1. k.at = "existing" /\ k.cur \in InRange(p) /\ k.cur \in Nat
    BY <1>2, <1>14 DEF ReadPartition, Busy
  <2>2. CASE Content[k.blob.version] = <<>> /\ Onward(p)
    <3>1. \A d \in Day : d = k.cur => ~Owes(k, d) \/ ~k.use_cache
      BY <2>1, <2>2 DEF Owes
    <3>2. QED  BY <1>1, <2>1, <2>2, <3>1, DutifulOnward
  <2>3. CASE Abort(p)
    BY <1>1, <2>3, DutifulIdle
  <2>4. CASE \E rows : job' = [job EXCEPT ![p].at = "write", ![p].rows = rows]
    <3>1. PICK rows : job' = [job EXCEPT ![p].at = "write", ![p].rows = rows]
      BY <2>4
    <3> DEFINE j == [k EXCEPT !.at = "write", !.rows = rows]
    <3>2. /\ job'[p] = j /\ j.cur = k.cur /\ j.last = k.last /\ j.use_cache = k.use_cache
          /\ j.at = "write"
      BY <1>1, <3>1 DEF Job
    <3> HIDE DEF j
    <3>3. ASSUME NEW d \in Day \ Weekend, d = j.cur PROVE Owes(j, d)
      BY <3>2, <3>3 DEF Owes
    <3>4. QED  BY <1>1, <2>1, <3>2, <3>3, DutifulWithin DEF Busy
  <2>5. QED  BY <1>14, <2>2, <2>3, <2>4 DEF ReadPartition
<1>15. CASE OpenPartition(p)
  <2>1. k.at = "write" /\ job' = [job EXCEPT ![p].at = "writing"]
    BY <1>15 DEF OpenPartition, Step
  <2> DEFINE j == [k EXCEPT !.at = "writing"]
  <2>2. /\ job'[p] = j /\ j.cur = k.cur /\ j.last = k.last /\ j.use_cache = k.use_cache
        /\ j.at = "writing"
    BY <1>1, <2>1 DEF Job
  <2> HIDE DEF j
  <2>3. k.cur \in InRange(p)
    BY <1>2, <2>1 DEF Busy
  <2>4. ASSUME NEW d \in Day \ Weekend, d = j.cur PROVE Owes(j, d)
    BY <2>2, <2>4 DEF Owes
  <2>5. QED  BY <1>1, <2>1, <2>2, <2>3, <2>4, DutifulWithin DEF Busy
<1>16. CASE FillPartition(p)
  <2>1. k.at = "writing" /\ Onward(p) /\ stored' = stored \union {k.cur}
    BY <1>16 DEF FillPartition
  <2>2. QED  BY <1>1, <2>1, DutifulOnward
<1>17. QED
  BY <1>4, <1>5, <1>6, <1>7, <1>8, <1>9, <1>10, <1>11, <1>12, <1>13, <1>14, <1>15, <1>16 DEF Advance

(* A raw file gets good by one step, and the process that makes it owes it. *)
LEMMA FillerOwes ==
    ASSUME SyncInv, NEW p \in scenario.syncing, p \in Process, Keeps(p, job[p]),
           Sync(p) \/ Advance(p) \/ Crash(p) \/ (\E e \in scenario.refreshing : Refresh(p, e)),
           NEW d \in Day, Missing(d)', ~Missing(d)
    PROVE  d \in InRange(p) /\ Owes(job'[p], d)
<1> DEFINE k == job[p]
<1>1. /\ job \in [Process -> Job] /\ k \in Job /\ JobOK(k) /\ cache \in [Day -> Blob]
  BY DEF SyncInv, TypeOK
<1>2. stored \subseteq stored'
  BY DEF Sync, Crash, Refresh, Advance, EndSync, SkipWeekend, Look, Fetch, FetchFails, OpenCache,
         FillCache, Parse, ParseFails, PagePasses, Again, ReadPartition, OpenPartition, FillPartition
<1>3. cache'[d] # cache[d]
  BY <1>2 DEF Missing
<1>4. OpenCache(p) \/ FillCache(p)
  BY <1>3 DEF Sync, Crash, Refresh, Advance, EndSync, SkipWeekend, Look, Fetch, FetchFails,
         Parse, ParseFails, PagePasses, Again, ReadPartition, OpenPartition, FillPartition
<1>5. CASE OpenCache(p)
  <2>1. cache'[d] = Junk
    BY <1>1, <1>3, <1>5 DEF OpenCache
  <2>2. QED  BY <2>1 DEF Missing, Junk
<1>6. CASE FillCache(p)
  <2>1. k.at = "caching" /\ job' = [job EXCEPT ![p].at = "parse"]
    BY <1>6 DEF FillCache, Step
  <2>2. PICK content \in {k.blob, Junk} : cache' = [cache EXCEPT ![k.cur] = content]
    BY <1>6 DEF FillCache
  <2>3. d = k.cur /\ cache'[d] = content
    BY <1>1, <1>3, <2>2
  <2>4. k.blob.state = "good"
    BY <2>2, <2>3 DEF Missing, Junk
  <2>5. job'[p].at = "parse" /\ job'[p].cur = d /\ job'[p].blob = k.blob
    BY <1>1, <2>1, <2>3 DEF Job
  <2>6. d \in InRange(p)
    BY <2>1, <2>3 DEF Keeps, Busy
  <2>7. QED  BY <2>4, <2>5, <2>6 DEF Owes, Junk
<1>7. QED  BY <1>4, <1>5, <1>6

LEMMA DutyStep ==
    ASSUME SyncInv, RefreshesWithin, DutyInv, NEW p \in scenario.syncing, p \in Process,
           Sync(p) \/ Advance(p) \/ Crash(p) \/ (\E e \in scenario.refreshing : Refresh(p, e))
    PROVE  DutyInv'
<1>1. job \in [Process -> Job] /\ Keeps(p, job[p]) /\ scenario' = scenario /\ scenario.syncing \subseteq Process
  BY DataAssumption
  DEF SyncInv, TypeOK, DutyInv, Sync, Crash, Refresh, Advance, EndSync, SkipWeekend, Look, Fetch, FetchFails,
      OpenCache, FillCache, Parse, ParseFails, PagePasses, Again, ReadPartition, OpenPartition, FillPartition
<1>2. \A q \in Process : q # p => job'[q] = job[q]
  BY <1>1
  DEF Sync, Crash, Refresh, Advance, EndSync, SkipWeekend, Look, Fetch, FetchFails, Step, Unavailable, Onward, NextDay, Abort,
      OpenCache, FillCache, Parse, ParseFails, PagePasses, Again, ReadPartition, OpenPartition, FillPartition
<1>3. Dutiful(p)
  BY <1>1, DutifulBegins, DutifulAdvances
<1>4. \A q \in scenario.syncing : Keeps(q, job'[q])
  BY <1>1, <1>2, <1>3 DEF DutyInv, Dutiful
<1>5. ASSUME NEW d \in Day \ Weekend, Missing(d)'
      PROVE  \E q \in scenario.syncing : d \in InRange(q) /\ Owes(job'[q], d)
  <2>1. CASE Missing(d)
    <3>1. PICK q \in scenario.syncing : d \in InRange(q) /\ Owes(job[q], d)
      BY <2>1 DEF DutyInv
    <3>2. d \notin stored'
      BY <1>5 DEF Missing
    <3>3. Owes(job'[q], d)
      BY <1>1, <1>2, <1>3, <2>1, <3>1, <3>2 DEF Dutiful
    <3>4. QED  BY <3>1, <3>3
  <2>2. CASE ~Missing(d)
    BY <1>1, <1>5, <2>2, FillerOwes
  <2>3. QED  BY <2>1, <2>2
<1>6. \A q : Keeps(q, job[q])' <=> Keeps(q, job'[q])
  BY DEF Keeps, InRange
<1>7. \A q, d : (d \in InRange(q) /\ Owes(job[q], d))' <=> (d \in InRange(q) /\ Owes(job'[q], d))
  BY DEF Owes, InRange
<1>8. QED  BY <1>1, <1>4, <1>5, <1>6, <1>7 DEF DutyInv

(* sync_range, download_*: whatever fails, is revised, dies and is started *)
(* again, when all syncs have ended every day of their ranges whose raw    *)
(* file is good is stored, unless its year's file cannot be read or the    *)
(* day was lost to an overlapping write.  The assumption is one about the  *)
(* scripts, which no code sees to: one that refreshes days outside its     *)
(* range can leave a file nobody reads.                                    *)
THEOREM AvailableIsIngested ==
    ASSUME RefreshesWithin
    PROVE  Spec => []AvailableIngested
<1>1. Init => DutyInv
  <2>1. SUFFICES ASSUME Init PROVE DutyInv
    OBVIOUS
  <2>2. scenario.syncing \subseteq Process
    BY <2>1, DataAssumption DEF Init
  <2>3. \A p \in Process : job[p].at = "idle" /\ job[p].use_cache
    BY <2>1 DEF Init, Idle
  <2>4. \A d \in Day : ~Missing(d)
    BY <2>1 DEF Init, Missing, Absent
  <2>5. QED  BY <2>2, <2>3, <2>4 DEF DutyInv, Keeps, Busy
<1>2. SyncInv /\ DutyInv /\ [Next]_vars => DutyInv'
  <2>1. SUFFICES ASSUME SyncInv, DutyInv, [Next]_vars PROVE DutyInv'
    OBVIOUS
  <2>2. scenario.syncing \subseteq Process
    BY <2>1, DataAssumption DEF SyncInv, TypeOK
  <2>3. CASE UNCHANGED <<scenario, cache, job, stored>>
    <3>1. \A p : Keeps(p, job[p])' <=> Keeps(p, job[p])
      BY <2>3 DEF Keeps, InRange
    <3>2. \A d : Missing(d)' <=> Missing(d)
      BY <2>3 DEF Missing
    <3>3. \A p, d : (d \in InRange(p) /\ Owes(job[p], d))' <=> (d \in InRange(p) /\ Owes(job[p], d))
      BY <2>3 DEF InRange, Owes
    <3>4. scenario' = scenario
      BY <2>3
    <3>5. QED  BY <2>1, <3>1, <3>2, <3>3, <3>4 DEF DutyInv
  <2>4. CASE \E p \in scenario.syncing : \/ Sync(p) \/ Advance(p) \/ Crash(p)
                                        \/ \E e \in scenario.refreshing : Refresh(p, e)
    BY <2>1, <2>2, <2>4, DutyStep
  <2>5. QED  BY <2>1, <2>3, <2>4 DEF Next, Publish, vars
<1>3. SyncInv /\ DutyInv => AvailableIngested
  <2>1. SUFFICES ASSUME SyncInv, DutyInv, \A p \in scenario.syncing : job[p].at = "done",
                        NEW p \in scenario.syncing, NEW d \in InRange(p) \ Weekend,
                        cache[d].state = "good", Content[cache[d].version] # <<>>,
                        part[YearOf[d]].readable, d \notin exposed
                 PROVE  Stored(d) # {}
    BY DEF AvailableIngested, InRange
  <2>2. scenario.syncing \subseteq Process
    BY <2>1, DataAssumption DEF SyncInv, TypeOK
  <2>3. d \in Day
    <3>1. Span[p] \in [first : Day, last : Day]
      BY <2>1, <2>2, DataAssumption
    <3>2. QED  BY <2>1, <3>1, DataAssumption DEF InRange
  <2>4. \A q \in scenario.syncing : ~Owes(job[q], d)
    BY <2>1 DEF DutyInv, Keeps, Owes
  <2>5. d \in stored
    BY <2>1, <2>3, <2>4 DEF DutyInv, Missing
  <2>6. QED  BY <2>1, <2>5 DEF SyncInv, DaysStay
<1>4. QED  BY <1>1, <1>2, <1>3, SyncInvariant, PTL DEF Spec

----------------------------------------------------------------------------
(* The constituents of the indices. *)

MoveRecord == [index : Index, isin : Isin, day : Date, in : BOOLEAN]

(* The window that the joining m opened. *)
WindowOf(m) == [index_name |-> m.index, isin |-> m.isin, include_date |-> m.day]

IsLast(m, ms) == m \in ms /\ \A n \in ms : n.day <= m.day

IsNext(n, m, ms) == n \in ms /\ m.day < n.day /\ \A k \in ms : m.day < k.day => n.day <= k.day

(* The windows are those of the joinings, and end with the next move.       *)
WindowsInv ==
    /\ moves \subseteq MoveRecord
    /\ \A index, i : MovesOf(index, i) # {} => \E m : IsLast(m, MovesOf(index, i))
    /\ \A index, i : \A m, n \in MovesOf(index, i) : m.day = n.day => m = n
    /\ DOMAIN universes = {WindowOf(m) : m \in {n \in moves : n.in}}
    /\ \A index, i : \A m \in MovesOf(index, i) : m.in =>
          \/ universes[WindowOf(m)] = 0 /\ IsLast(m, MovesOf(index, i))
          \/ \E n : IsNext(n, m, MovesOf(index, i)) /\ universes[WindowOf(m)] = n.day

LEMMA LastIs ==
    ASSUME WindowsInv, NEW index, NEW i, MovesOf(index, i) # {}
    PROVE  IsLast(LastMove(index, i), MovesOf(index, i))
<1>1. \E m \in MovesOf(index, i) : \A n \in MovesOf(index, i) : n.day <= m.day
  BY DEF WindowsInv, IsLast
<1>2. QED  BY <1>1 DEF LastMove, IsLast

LEMMA WindowsKept ==
    ASSUME WindowsInv, NEW index \in Index, NEW changed \in SUBSET Isin, NEW day \in Date,
           Reconstituted(index, changed, day)
    PROVE  WindowsInv'
<1> DEFINE New == {Move(index, i, day) : i \in changed}
           batch == [w \in {Window(index, i, day) : i \in changed} |->
                        IF InNow(index, w.isin) THEN day ELSE 0]
<1>1. /\ moves' = moves \union New
      /\ universes' = Over(universes, batch)
      /\ \A i \in changed : \A m \in MovesOf(index, i) : m.day < day
  BY DEF Reconstituted, add_entries, CanMove
<1>2. Date \subseteq Nat
  BY ReferenceAssumption
<1>3. \A i \in changed : /\ Move(index, i, day) \in MoveRecord
                         /\ Move(index, i, day).index = index /\ Move(index, i, day).isin = i
                         /\ Move(index, i, day).day = day /\ Move(index, i, day).in = ~InNow(index, i)
  BY DEF Move, MoveRecord, InNow
<1>4. \A m \in moves : m \in MoveRecord /\ m.day \in Nat
  BY <1>2 DEF WindowsInv, MoveRecord
<1>5. moves' \subseteq MoveRecord
  BY <1>1, <1>3, <1>4
<1>6. \A i \in changed : MovesOf(index, i)' = MovesOf(index, i) \union {Move(index, i, day)}
  BY <1>1, <1>3 DEF MovesOf
<1>7. \A x, i : ~(x = index /\ i \in changed) => MovesOf(x, i)' = MovesOf(x, i)
  BY <1>1, <1>3 DEF MovesOf
<1>8. \A i \in changed : IsLast(Move(index, i, day), MovesOf(index, i)')
  BY <1>1, <1>2, <1>3, <1>4, <1>6 DEF IsLast, MovesOf
<1>9. \A x, i : MovesOf(x, i)' # {} => \E m : IsLast(m, MovesOf(x, i)')
  BY <1>7, <1>8 DEF WindowsInv
<1>10. ASSUME NEW x, NEW i, NEW m \in MovesOf(x, i)', NEW n \in MovesOf(x, i)', m.day = n.day
       PROVE  m = n
  <2>1. CASE x = index /\ i \in changed
    <3>1. \A k \in MovesOf(index, i) : k.day \in Nat /\ k.day < day
      BY <1>1, <1>4, <2>1 DEF MovesOf
    <3>2. day \in Nat
      BY <1>2
    <3>3. QED  BY <1>3, <1>6, <1>10, <2>1, <3>1, <3>2 DEF WindowsInv
  <2>2. CASE ~(x = index /\ i \in changed)
    BY <1>7, <1>10, <2>2 DEF WindowsInv
  <2>3. QED  BY <2>1, <2>2
<1>11. ASSUME NEW i \in changed
       PROVE  IF InNow(index, i)
              THEN /\ LastMove(index, i) \in MovesOf(index, i) /\ LastMove(index, i).in
                   /\ IsLast(LastMove(index, i), MovesOf(index, i))
                   /\ Window(index, i, day) = WindowOf(LastMove(index, i))
              ELSE Window(index, i, day) = WindowOf(Move(index, i, day))
  <2>1. CASE InNow(index, i)
    <3>1. MovesOf(index, i) # {} /\ LastMove(index, i).in
      BY <2>1 DEF InNow
    <3>2. IsLast(LastMove(index, i), MovesOf(index, i))
      BY <3>1, LastIs
    <3>3. LastMove(index, i) \in MovesOf(index, i)
      BY <3>2 DEF IsLast
    <3>4. LastMove(index, i).index = index /\ LastMove(index, i).isin = i
      BY <3>3 DEF MovesOf
    <3>5. QED  BY <2>1, <3>1, <3>2, <3>3, <3>4 DEF Window, WindowOf
  <2>2. CASE ~InNow(index, i)
    BY <1>3, <2>2 DEF Window, WindowOf
  <2>3. QED  BY <2>1, <2>2
<1>12. DOMAIN universes' = {WindowOf(m) : m \in {n \in moves' : n.in}}
  <2>1. DOMAIN universes' = DOMAIN universes \union {Window(index, i, day) : i \in changed}
    BY <1>1 DEF Over
  <2>2. DOMAIN universes = {WindowOf(m) : m \in {n \in moves : n.in}}
    BY DEF WindowsInv
  <2>3. \A i \in changed : \E m \in moves' : m.in /\ WindowOf(m) = Window(index, i, day)
    <3>1. SUFFICES ASSUME NEW i \in changed
                   PROVE  \E m \in moves' : m.in /\ WindowOf(m) = Window(index, i, day)
      OBVIOUS
    <3>2. CASE InNow(index, i)
      <4>1. LastMove(index, i) \in moves'
        BY <1>1, <1>11, <3>2 DEF MovesOf
      <4>2. QED  BY <1>11, <3>2, <4>1
    <3>3. CASE ~InNow(index, i)
      <4>1. Move(index, i, day) \in moves' /\ Move(index, i, day).in
        BY <1>1, <1>3, <3>3
      <4>2. QED  BY <1>11, <3>3, <4>1
    <3>4. QED  BY <3>2, <3>3
  <2>4. \A m \in New : m.in => \E i \in changed : WindowOf(m) = Window(index, i, day)
    <3>1. SUFFICES ASSUME NEW i \in changed, Move(index, i, day).in
                   PROVE  WindowOf(Move(index, i, day)) = Window(index, i, day)
      OBVIOUS
    <3>2. ~InNow(index, i)
      BY <1>3, <3>1
    <3>3. QED  BY <1>11, <3>2
  <2>5. \A w \in DOMAIN universes' : \E m \in moves' : m.in /\ WindowOf(m) = w
    BY <1>1, <2>1, <2>2, <2>3
  <2>6. \A m \in moves' : m.in => WindowOf(m) \in DOMAIN universes'
    BY <1>1, <2>1, <2>2, <2>4
  <2> HIDE DEF New, batch
  <2>7. QED  BY <2>5, <2>6
<1>13. ASSUME NEW x, NEW i, NEW m \in MovesOf(x, i)', m.in
       PROVE  \/ universes'[WindowOf(m)] = 0 /\ IsLast(m, MovesOf(x, i)')
              \/ \E n : IsNext(n, m, MovesOf(x, i)') /\ universes'[WindowOf(m)] = n.day
  <2>1. m.index = x /\ m.isin = i /\ m \in moves'
    BY <1>13 DEF MovesOf
  <2>2. WindowOf(m) \in DOMAIN universes'
    BY <1>12, <1>13, <2>1
  <2>3. universes'[WindowOf(m)] = IF WindowOf(m) \in DOMAIN batch THEN batch[WindowOf(m)]
                                  ELSE universes[WindowOf(m)]
    <3>1. DOMAIN universes' = DOMAIN universes \union DOMAIN batch
      BY <1>1 DEF Over
    <3> HIDE DEF batch
    <3>2. QED  BY <1>1, <2>2, <3>1 DEF Over
  <2>4. WindowOf(m).index_name = x /\ WindowOf(m).isin = i /\ WindowOf(m).include_date = m.day
    BY <2>1 DEF WindowOf
  <2>5. \A j \in changed : Window(index, j, day).index_name = index /\ Window(index, j, day).isin = j
    BY DEF Window
  <2>6. CASE ~(x = index /\ i \in changed)
    <3>1. WindowOf(m) \notin DOMAIN batch
      BY <2>4, <2>5, <2>6
    <3>2. m \in MovesOf(x, i) /\ MovesOf(x, i)' = MovesOf(x, i)
      BY <1>7, <2>6
    <3> HIDE DEF batch
    <3>3. QED  BY <1>13, <2>3, <3>1, <3>2 DEF WindowsInv
  <2>7. CASE x = index /\ i \in changed
    <3> DEFINE new == Move(index, i, day)
    <3>1. /\ MovesOf(x, i)' = MovesOf(x, i) \union {new} /\ IsLast(new, MovesOf(x, i)')
          /\ new.day = day /\ (new.in <=> ~InNow(index, i)) /\ new \in MovesOf(x, i)'
      BY <1>3, <1>6, <1>8, <2>7
    <3>2. \A k \in MovesOf(x, i) : k.day \in Nat /\ k.day < day
      BY <1>1, <1>4, <2>7 DEF MovesOf
    <3>3. day \in Nat
      BY <1>2
    <3>4. DOMAIN batch = {Window(index, j, day) : j \in changed}
          /\ batch[Window(index, i, day)] = IF InNow(index, i) THEN day ELSE 0
      BY <2>5, <2>7
    <3>5. WindowOf(m) \in DOMAIN batch <=> WindowOf(m) = Window(index, i, day)
      BY <2>4, <2>5, <2>7, <3>4
    <3> HIDE DEF new, batch
    <3>6. CASE m = new
      <4>1. ~InNow(index, i) /\ WindowOf(m) = Window(index, i, day)
        BY <1>11, <1>13, <2>7, <3>1, <3>6 DEF new
      <4>2. universes'[WindowOf(m)] = 0
        BY <2>3, <3>4, <3>5, <4>1
      <4>3. QED  BY <3>1, <3>6, <4>2
    <3>7. CASE m # new /\ InNow(index, i) /\ m = LastMove(index, i)
      <4>1. WindowOf(m) = Window(index, i, day) /\ IsLast(m, MovesOf(x, i))
        BY <1>11, <2>7, <3>7
      <4>2. universes'[WindowOf(m)] = day
        BY <2>3, <3>4, <3>5, <3>7, <4>1
      <4>3. IsNext(new, m, MovesOf(x, i)')
        <5>1. \A k \in MovesOf(x, i) : ~(m.day < k.day)
          BY <3>2, <4>1 DEF IsLast
        <5>2. m.day < new.day
          BY <3>1, <3>2, <4>1 DEF IsLast
        <5>3. QED  BY <3>1, <3>3, <5>1, <5>2 DEF IsNext
      <4>4. QED  BY <3>1, <4>2, <4>3
    <3>8. CASE m # new /\ ~(InNow(index, i) /\ m = LastMove(index, i))
      <4>1. m \in MovesOf(x, i)
        BY <3>1, <3>8
      <4>2. IsLast(LastMove(index, i), MovesOf(index, i))
        BY <2>7, <4>1, LastIs
      <4>3. WindowOf(m) # Window(index, i, day)
        <5>1. CASE InNow(index, i)
          <6>1. WindowOf(m) # WindowOf(LastMove(index, i))
            BY <2>7, <3>8, <4>1, <4>2, <5>1 DEF WindowOf, WindowsInv, IsLast
          <6>2. QED  BY <1>11, <2>7, <5>1, <6>1
        <5>2. CASE ~InNow(index, i)
          <6>1. WindowOf(m) # WindowOf(new)
            BY <3>1, <3>2, <3>3, <4>1 DEF WindowOf
          <6>2. QED  BY <1>11, <2>7, <5>2, <6>1 DEF new
        <5>3. QED  BY <5>1, <5>2
      <4>4. universes'[WindowOf(m)] = universes[WindowOf(m)]
        BY <2>3, <3>5, <4>3
      <4>5. ~IsLast(m, MovesOf(x, i))
        <5>1. SUFFICES ASSUME IsLast(m, MovesOf(x, i)) PROVE FALSE
          OBVIOUS
        <5>2. m.day = LastMove(index, i).day
          BY <2>7, <3>2, <4>2, <5>1 DEF IsLast
        <5>3. m = LastMove(index, i)
          BY <2>7, <4>1, <4>2, <5>2 DEF IsLast, WindowsInv
        <5>4. InNow(index, i)
          BY <1>13, <2>7, <4>1, <5>3 DEF InNow
        <5>5. QED  BY <3>8, <5>3, <5>4
      <4>6. PICK n : IsNext(n, m, MovesOf(x, i)) /\ universes[WindowOf(m)] = n.day
        BY <1>13, <4>1, <4>5 DEF WindowsInv
      <4>7. IsNext(n, m, MovesOf(x, i)')
        <5>1. n \in MovesOf(x, i) /\ n.day <= day
          BY <3>2, <3>3, <4>6 DEF IsNext
        <5>2. QED  BY <3>1, <4>6, <5>1 DEF IsNext
      <4>8. QED  BY <4>4, <4>6, <4>7
    <3>9. QED  BY <3>6, <3>7, <3>8
  <2>8. QED  BY <2>6, <2>7
<1>14. QED
  <2>1. \A x, i : \A m, n \in MovesOf(x, i)' : m.day = n.day => m = n
    BY <1>10
  <2>2. \A x, i : \A m \in MovesOf(x, i)' : m.in =>
          \/ universes'[WindowOf(m)] = 0 /\ IsLast(m, MovesOf(x, i)')
          \/ \E n : IsNext(n, m, MovesOf(x, i)') /\ universes'[WindowOf(m)] = n.day
    BY <1>13
  <2>3. QED  BY <1>5, <1>9, <1>12, <2>1, <2>2 DEF WindowsInv, IsLast, IsNext, WindowOf

LEMMA WindowsAlways == ReferenceSpec => []WindowsInv
<1>1. ReferenceInit => WindowsInv
  <2>1. SUFFICES ASSUME ReferenceInit PROVE WindowsInv
    OBVIOUS
  <2>2. moves = {} /\ DOMAIN universes = {}
    BY <2>1 DEF ReferenceInit, NoRows
  <2>3. \A index, i : MovesOf(index, i) = {}
    BY <2>2 DEF MovesOf
  <2>4. {WindowOf(m) : m \in {n \in moves : n.in}} = {}
    BY <2>2
  <2>5. QED  BY <2>2, <2>3, <2>4 DEF WindowsInv
<1>2. WindowsInv /\ [ReferenceNext]_referenceVars => WindowsInv'
  <2>1. SUFFICES ASSUME WindowsInv, [ReferenceNext]_referenceVars PROVE WindowsInv'
    OBVIOUS
  <2>2. CASE UNCHANGED <<universes, moves>>
    <3>1. \A x, i : MovesOf(x, i)' = MovesOf(x, i)
      BY <2>2 DEF MovesOf
    <3>2. moves' = moves /\ universes' = universes
      BY <2>2
    <3>3. QED  BY <2>1, <3>1, <3>2 DEF WindowsInv
  <2>3. CASE \E index \in Index, changed \in SUBSET Isin, day \in Date :
                Reconstituted(index, changed, day)
    BY <2>1, <2>3, WindowsKept
  <2>4. QED
    BY <2>1, <2>2, <2>3
    DEF ReferenceNext, referenceVars, add_actions, resolve_symbol, NameChanges, add_mapping
<1>3. QED  BY <1>1, <1>2, PTL DEF ReferenceSpec

(* add_entries, members_as_of: however often companies join, leave and come *)
(* back, the windows in the file answer for every day as the moves do.      *)
THEOREM MembersFollowMoves == ReferenceSpec => []MembersAsMoved
<1>1. WindowsInv => MembersAsMoved
  <2>1. SUFFICES ASSUME WindowsInv, NEW index \in Index, NEW when \in Date
                 PROVE  members_as_of(index, when) =
                          {i \in Isin : \E m \in MovesOf(index, i) :
                              /\ m.in /\ m.day <= when
                              /\ \A n \in MovesOf(index, i) : n.day <= when => n.day <= m.day}
    BY DEF MembersAsMoved
  <2>2. Date \subseteq Nat \ {0} /\ when \in Nat
    BY ReferenceAssumption
  <2>3. \A m \in moves : m \in MoveRecord /\ m.day \in Nat \ {0}
    BY <2>1, <2>2 DEF WindowsInv, MoveRecord
  <2>4. ASSUME NEW m \in moves, m.in, m.day <= when
        PROVE  (universes[WindowOf(m)] = 0 \/ when < universes[WindowOf(m)])
                  <=> \A n \in MovesOf(m.index, m.isin) : n.day <= when => n.day <= m.day
    <3> DEFINE ms == MovesOf(m.index, m.isin)
    <3>1. m \in ms /\ (\A n \in ms : n.day \in Nat \ {0})
      BY <2>3 DEF MovesOf
    <3>2. \/ universes[WindowOf(m)] = 0 /\ IsLast(m, ms)
          \/ \E n : IsNext(n, m, ms) /\ universes[WindowOf(m)] = n.day
      BY <2>1, <2>4, <3>1 DEF WindowsInv
    <3> HIDE DEF ms
    <3>3. CASE universes[WindowOf(m)] = 0 /\ IsLast(m, ms)
      BY <3>3 DEF IsLast, ms
    <3>4. CASE \E n : IsNext(n, m, ms) /\ universes[WindowOf(m)] = n.day
      <4>1. PICK n : IsNext(n, m, ms) /\ universes[WindowOf(m)] = n.day
        BY <3>4
      <4>2. n \in ms /\ n.day \in Nat \ {0} /\ m.day < n.day
            /\ (\A k \in ms : m.day < k.day => n.day <= k.day)
        BY <3>1, <4>1 DEF IsNext
      <4>3. CASE when < n.day
        <5>1. \A k \in ms : k.day <= when => k.day <= m.day
          BY <2>2, <3>1, <4>2, <4>3
        <5>2. QED  BY <4>1, <4>3, <5>1 DEF ms
      <4>4. CASE ~(when < n.day)
        <5>1. n.day <= when /\ ~(n.day <= m.day)
          BY <2>2, <3>1, <4>2, <4>4
        <5>2. ~(universes[WindowOf(m)] = 0 \/ when < universes[WindowOf(m)])
          BY <4>1, <4>2, <4>4
        <5>3. QED  BY <4>2, <5>1, <5>2 DEF ms
      <4>5. QED  BY <4>3, <4>4
    <3>5. QED  BY <3>2, <3>3, <3>4
  <2>5. DOMAIN universes = {WindowOf(m) : m \in {n \in moves : n.in}}
    BY <2>1 DEF WindowsInv
  <2>6. \A i : i \in members_as_of(index, when) <=>
            \E m \in moves : /\ m.in /\ m.index = index /\ m.isin = i /\ m.day <= when
                             /\ (universes[WindowOf(m)] = 0 \/ when < universes[WindowOf(m)])
    <3>1. \A i : i \in members_as_of(index, when) <=>
              \E w \in DOMAIN universes : /\ w.isin = i /\ w.index_name = index /\ w.include_date <= when
                                         /\ (universes[w] = 0 \/ when < universes[w])
      BY DEF members_as_of
    <3>2. \A m : WindowOf(m).index_name = m.index /\ WindowOf(m).isin = m.isin
                /\ WindowOf(m).include_date = m.day
      BY DEF WindowOf
    <3>3. \A w \in DOMAIN universes : \E m \in moves : m.in /\ w = WindowOf(m)
      BY <2>5
    <3>4. \A m \in moves : m.in => WindowOf(m) \in DOMAIN universes
      BY <2>5
    <3>5. ASSUME NEW i, i \in members_as_of(index, when)
          PROVE  \E m \in moves : /\ m.in /\ m.index = index /\ m.isin = i /\ m.day <= when
                                  /\ (universes[WindowOf(m)] = 0 \/ when < universes[WindowOf(m)])
      <4>1. PICK w \in DOMAIN universes : /\ w.isin = i /\ w.index_name = index
                                         /\ w.include_date <= when
                                         /\ (universes[w] = 0 \/ when < universes[w])
        BY <3>1, <3>5
      <4>2. PICK m \in moves : m.in /\ w = WindowOf(m)
        BY <3>3
      <4>3. QED  BY <3>2, <4>1, <4>2
    <3>6. ASSUME NEW i, NEW m \in moves, m.in, m.index = index, m.isin = i, m.day <= when,
                 universes[WindowOf(m)] = 0 \/ when < universes[WindowOf(m)]
          PROVE  i \in members_as_of(index, when)
      BY <3>1, <3>2, <3>4, <3>6
    <3>7. QED  BY <3>5, <3>6
  <2>7. \A i : i \in members_as_of(index, when) <=>
            \E m \in moves : /\ m.in /\ m.index = index /\ m.isin = i /\ m.day <= when
                             /\ \A n \in MovesOf(m.index, m.isin) : n.day <= when => n.day <= m.day
    BY <2>4, <2>6
  <2>8. \A i : i \in members_as_of(index, when) =>
            i \in Isin /\ \E m \in MovesOf(index, i) :
                             /\ m.in /\ m.day <= when
                             /\ \A n \in MovesOf(index, i) : n.day <= when => n.day <= m.day
    BY <2>3, <2>7 DEF MovesOf, MoveRecord
  <2>9. \A i \in Isin :
            (\E m \in MovesOf(index, i) :
                /\ m.in /\ m.day <= when
                /\ \A n \in MovesOf(index, i) : n.day <= when => n.day <= m.day)
            => i \in members_as_of(index, when)
    BY <2>7 DEF MovesOf
  <2>10. QED  BY <2>8, <2>9
<1>2. QED  BY <1>1, WindowsAlways, PTL

----------------------------------------------------------------------------
(* The chain that canonical follows is a function. *)

(* f follows the chain where no more than the names of S are unseen.        *)
Follows(f, T, S, stops, next) ==
    /\ f \in [T \X SUBSET T -> T]
    /\ \A t \in T, seen \in SUBSET T :
          T \ seen \subseteq S =>
             f[<<t, seen>>] = IF t \in seen \/ t \in stops THEN t
                              ELSE f[<<next[t], seen \union {t}>>]

LEMMA FollowUnique ==
    ASSUME NEW T, IsFiniteSet(T), NEW stops, NEW next \in [T -> T],
           NEW S, NEW U, NEW f, Follows(f, T, S, stops, next), NEW g, Follows(g, T, U, stops, next)
    PROVE  \A t \in T, seen \in SUBSET T :
               T \ seen \subseteq S /\ T \ seen \subseteq U => f[<<t, seen>>] = g[<<t, seen>>]
<1> DEFINE Agree(left) == \A t \in T, seen \in SUBSET T :
               (T \ seen = left /\ left \subseteq S /\ left \subseteq U) => f[<<t, seen>>] = g[<<t, seen>>]
           C == {left \in SUBSET T : ~Agree(left)}
<1>1. ASSUME C # {} PROVE FALSE
  <2>1. PICK left \in C : \A k \in C : k \subseteq left => k = left
    <3>1. C \in SUBSET SUBSET T
      OBVIOUS
    <3> HIDE DEF C
    <3>2. QED  BY <1>1, <3>1, LeastSubset
  <2>2. PICK t \in T, seen \in SUBSET T :
            /\ T \ seen = left /\ left \subseteq S /\ left \subseteq U
            /\ f[<<t, seen>>] # g[<<t, seen>>]
    BY <2>1
  <2>3. t \notin seen /\ t \notin stops
        /\ f[<<t, seen>>] = f[<<next[t], seen \union {t}>>]
        /\ g[<<t, seen>>] = g[<<next[t], seen \union {t}>>]
    BY <2>2 DEF Follows
  <2>4. /\ next[t] \in T /\ seen \union {t} \in SUBSET T
        /\ T \ (seen \union {t}) = left \ {t} /\ left \ {t} # left /\ left \ {t} \in SUBSET T
    BY <2>2, <2>3
  <2>5. Agree(left \ {t})
    BY <2>1, <2>4
  <2>6. QED  BY <2>2, <2>3, <2>4, <2>5
<1>2. \A left \in SUBSET T : Agree(left)
  BY <1>1
<1>3. QED  BY <1>2

LEMMA FollowExists ==
    ASSUME NEW T, IsFiniteSet(T), NEW stops, NEW next \in [T -> T]
    PROVE  \E f : Follows(f, T, T, stops, next)
<1> DEFINE Solved(S) == \E f : Follows(f, T, S, stops, next)
           C == {S \in SUBSET T : ~Solved(S)}
<1>1. ASSUME C # {} PROVE FALSE
  <2>1. PICK S \in C : \A U \in C : U \subseteq S => U = S
    <3>1. C \in SUBSET SUBSET T
      OBVIOUS
    <3> HIDE DEF C
    <3>2. QED  BY <1>1, <3>1, LeastSubset
  <2> DEFINE by == [c \in S |-> CHOOSE f : Follows(f, T, S \ {c}, stops, next)]
  <2>2. \A c \in S : Follows(by[c], T, S \ {c}, stops, next)
    <3>1. \A c \in S : S \ {c} \in SUBSET T /\ S \ {c} # S /\ S \ {c} \subseteq S
      BY <2>1
    <3>2. \A c \in S : Solved(S \ {c})
      BY <2>1, <3>1
    <3>3. QED  BY <3>2
  <2> HIDE DEF by
  <2> DEFINE h == [x \in T \X SUBSET T |->
                     IF x[1] \in x[2] \/ x[1] \in stops \/ x[1] \notin S THEN x[1]
                     ELSE by[x[1]][<<next[x[1]], x[2] \union {x[1]}>>]]
  <2>3. h \in [T \X SUBSET T -> T]
    <3>1. ASSUME NEW x \in T \X SUBSET T PROVE h[x] \in T
      <4>1. x[1] \in T /\ next[x[1]] \in T /\ x[2] \union {x[1]} \in SUBSET T
        OBVIOUS
      <4>2. CASE x[1] \in S
        <5>1. by[x[1]] \in [T \X SUBSET T -> T]
          BY <2>2, <4>2 DEF Follows
        <5>2. by[x[1]][<<next[x[1]], x[2] \union {x[1]}>>] \in T
          BY <4>1, <5>1
        <5>3. QED  BY <4>1, <5>2
      <4>3. CASE x[1] \notin S
        BY <4>1, <4>3
      <4>4. QED  BY <4>2, <4>3
    <3>2. QED  BY <3>1
  <2>4. ASSUME NEW t \in T, NEW seen \in SUBSET T, T \ seen \subseteq S
        PROVE  h[<<t, seen>>] = IF t \in seen \/ t \in stops THEN t
                                ELSE h[<<next[t], seen \union {t}>>]
    <3>1. CASE t \in seen \/ t \in stops
      BY <3>1
    <3>2. CASE ~(t \in seen \/ t \in stops)
      <4> DEFINE u == next[t]
                 more == seen \union {t}
      <4>1. t \in S /\ u \in T /\ more \in SUBSET T /\ T \ more \subseteq S \ {t}
        BY <2>4, <3>2
      <4>2. h[<<t, seen>>] = by[t][<<u, more>>]
        BY <3>2, <4>1
      <4>3. by[t][<<u, more>>] = IF u \in more \/ u \in stops THEN u
                                 ELSE by[t][<<next[u], more \union {u}>>]
        BY <2>2, <4>1 DEF Follows
      <4>4. CASE u \in more \/ u \in stops
        <5>1. h[<<u, more>>] = u
          BY <4>1, <4>4
        <5>2. QED  BY <3>2, <4>2, <4>3, <4>4, <5>1
      <4>5. CASE ~(u \in more \/ u \in stops)
        <5> DEFINE w == next[u]
                   most == more \union {u}
        <5>1. u \in S /\ w \in T /\ most \in SUBSET T
              /\ T \ most \subseteq S \ {t} /\ T \ most \subseteq S \ {u}
          BY <4>1, <4>5
        <5>2. h[<<u, more>>] = by[u][<<w, most>>]
          BY <4>1, <4>5, <5>1
        <5>3. Follows(by[t], T, S \ {t}, stops, next) /\ Follows(by[u], T, S \ {u}, stops, next)
          BY <2>2, <4>1, <5>1
        <5> HIDE DEF w, most, u, more, h
        <5>4. by[t][<<w, most>>] = by[u][<<w, most>>]
          BY <5>1, <5>3, FollowUnique
        <5>5. h[<<t, seen>>] = h[<<u, more>>]
          BY <4>2, <4>3, <4>5, <5>2, <5>4 DEF w, most
        <5>6. QED  BY <3>2, <5>5 DEF u, more
      <4>6. QED  BY <4>4, <4>5
    <3>3. QED  BY <3>1, <3>2
  <2> HIDE DEF h
  <2>5. Follows(h, T, S, stops, next)
    BY <2>3, <2>4 DEF Follows
  <2>6. QED  BY <2>1, <2>5
<1>2. QED  BY <1>1

----------------------------------------------------------------------------
(* The names of symbols. *)

(* The file holds the mappings it began with, and of the others only what   *)
(* happened.                                                                *)
NamesInv ==
    /\ changes \subseteq Change
    /\ Seed \subseteq load_master
    /\ load_master \subseteq changes \union Seed

LEMMA NamesAlways == ReferenceSpec => []NamesInv
<1>1. ReferenceInit => NamesInv
  <2>1. SUFFICES ASSUME ReferenceInit PROVE NamesInv
    OBVIOUS
  <2>2. changes = {} /\ ~symbols.exists
    BY <2>1 DEF ReferenceInit
  <2>3. QED  BY <2>2 DEF NamesInv, load_master
<1>2. NamesInv /\ [ReferenceNext]_referenceVars => NamesInv'
  <2>1. SUFFICES ASSUME NamesInv, [ReferenceNext]_referenceVars PROVE NamesInv'
    OBVIOUS
  <2>2. CASE UNCHANGED symbols /\ \/ UNCHANGED changes
                                  \/ \E c \in Change : changes' = changes \union {c}
    <3>1. load_master' = load_master
      BY <2>2 DEF load_master
    <3>2. QED  BY <2>1, <2>2, <3>1 DEF NamesInv
  <2>3. CASE /\ UNCHANGED changes
             /\ \/ symbols' = [exists |-> TRUE, rows |-> load_master]
                \/ \E c \in changes : symbols' = [exists |-> TRUE, rows |-> load_master \union {c}]
    <3>1. load_master' = load_master \/ \E c \in changes : load_master' = load_master \union {c}
      BY <2>3 DEF load_master
    <3>2. QED  BY <2>1, <2>3, <3>1 DEF NamesInv
  <2>4. QED
    BY <2>1, <2>2, <2>3
    DEF ReferenceNext, referenceVars, add_actions, Reconstituted, resolve_symbol, NameChanges, add_mapping
<1>3. QED  BY <1>1, <1>2, PTL DEF ReferenceSpec

Forward(t) == {r \in load_master : r.old = t}

Heads == {t \in Ticker : Forward(t) = {}}

Successor == [t \in Ticker |-> IF Forward(t) = {} THEN t ELSE Latest(Forward(t)).new]

(* canonical's loop, where Latest finds mappings of names.                  *)
LEMMA CanonicalFollows ==
    ASSUME Successor \in [Ticker -> Ticker]
    PROVE  \E f : /\ \A t \in Ticker, seen \in SUBSET Ticker :
                        f[<<t, seen>>] = IF t \in seen \/ Forward(t) = {} THEN t
                                         ELSE f[<<Latest(Forward(t)).new, seen \union {t}>>]
                  /\ \A s \in Ticker : canonical(s) = f[<<s, {}>>]
<1>1. IsFiniteSet(Ticker)
  BY ReferenceAssumption
<1> DEFINE IsFrom(f) == f = [x \in Ticker \X SUBSET Ticker |->
                 LET cur == x[1]
                     seen == x[2]
                     forward == {r \in load_master : r.old = cur}
                 IN  IF cur \in seen \/ forward = {} THEN cur
                     ELSE f[<<Latest(forward).new, seen \union {cur}>>]]
           From == CHOOSE f : IsFrom(f)
<1>2. PICK f : Follows(f, Ticker, Ticker, Heads, Successor)
  BY <1>1, FollowExists
<1>3. f \in [Ticker \X SUBSET Ticker -> Ticker]
  BY <1>2 DEF Follows
<1>4. ASSUME NEW t \in Ticker, NEW seen \in SUBSET Ticker
      PROVE  f[<<t, seen>>] = IF t \in seen \/ Forward(t) = {} THEN t
                              ELSE f[<<Latest(Forward(t)).new, seen \union {t}>>]
  <2>1. Ticker \ seen \subseteq Ticker
    OBVIOUS
  <2>2. f[<<t, seen>>] = IF t \in seen \/ t \in Heads THEN t
                         ELSE f[<<Successor[t], seen \union {t}>>]
    BY <1>2, <2>1 DEF Follows
  <2>3. t \in Heads <=> Forward(t) = {}
    BY DEF Heads
  <2>4. Forward(t) # {} => Successor[t] = Latest(Forward(t)).new
    BY DEF Successor
  <2>5. QED  BY <2>2, <2>3, <2>4
<1>5. IsFrom(f)
  <2>1. ASSUME NEW x \in Ticker \X SUBSET Ticker
        PROVE  f[x] = LET cur == x[1]
                          seen == x[2]
                          forward == {r \in load_master : r.old = cur}
                      IN  IF cur \in seen \/ forward = {} THEN cur
                          ELSE f[<<Latest(forward).new, seen \union {cur}>>]
    <3>1. x[1] \in Ticker /\ x[2] \in SUBSET Ticker /\ x = <<x[1], x[2]>>
      OBVIOUS
    <3>2. QED  BY <1>4, <3>1 DEF Forward
  <2>2. QED  BY <1>3, <2>1
<1>6. IsFrom(From)
  BY <1>5
<1>7. \A s : canonical(s) = From[<<s, {}>>]
  BY DEF canonical
<1> HIDE DEF From
<1>8. \A t \in Ticker, seen \in SUBSET Ticker :
          From[<<t, seen>>] = IF t \in seen \/ Forward(t) = {} THEN t
                              ELSE From[<<Latest(Forward(t)).new, seen \union {t}>>]
  <2>1. \A x \in Ticker \X SUBSET Ticker :
            From[x] = LET cur == x[1]
                          seen == x[2]
                          forward == {r \in load_master : r.old = cur}
                      IN  IF cur \in seen \/ forward = {} THEN cur
                          ELSE From[<<Latest(forward).new, seen \union {cur}>>]
    BY <1>6
  <2>2. SUFFICES ASSUME NEW t \in Ticker, NEW seen \in SUBSET Ticker
                 PROVE  From[<<t, seen>>] = IF t \in seen \/ Forward(t) = {} THEN t
                                            ELSE From[<<Latest(Forward(t)).new, seen \union {t}>>]
    OBVIOUS
  <2>3. <<t, seen>> \in Ticker \X SUBSET Ticker /\ <<t, seen>>[1] = t /\ <<t, seen>>[2] = seen
    OBVIOUS
  <2> HIDE DEF IsFrom
  <2>4. From[<<t, seen>>] = LET forward == {r \in load_master : r.old = t}
                            IN  IF t \in seen \/ forward = {} THEN t
                                ELSE From[<<Latest(forward).new, seen \union {t}>>]
    BY <2>1, <2>3
  <2>5. QED  BY <2>4 DEF Forward
<1>9. \A t \in Ticker : canonical(t) = From[<<t, {}>>]
  BY <1>7
<1> HIDE DEF IsFrom
<1>10. QED  BY <1>8, <1>9, Zenon

(* What Today goes through, day by day, over the changes H. *)
Named(t, d, H) == {e \in H : e.day = d /\ e.old = t}

LEMMA TodayFollows ==
    ASSUME NEW s \in Ticker,
           \A e \in changes \union Seed : e.new \in Ticker
    PROVE  \E o \in [Nat -> Ticker] :
              /\ o[0] = s
              /\ \A d \in Nat : o[d + 1] =
                    LET c == Named(o[d], d + 1, changes \union Seed)
                    IN  IF c = {} THEN o[d] ELSE (CHOOSE e \in c : TRUE).new
              /\ Today(s) = o[Max(Date)]
<1> DEFINE H == changes \union Seed
           round == [d \in Nat |-> [t \in Ticker |->
                       IF Named(t, d + 1, H) = {} THEN t ELSE (CHOOSE e \in Named(t, d + 1, H) : TRUE).new]]
           IsOn(f) == f = [d \in Nat |->
                         IF d = 0 THEN s
                         ELSE LET c == {e \in H : e.day = d /\ e.old = f[d - 1]}
                              IN  IF c = {} THEN f[d - 1] ELSE (CHOOSE e \in c : TRUE).new]
           On == CHOOSE f : IsOn(f)
<1>1. round \in [Nat -> [Ticker -> Ticker]]
  <2>1. ASSUME NEW d \in Nat, NEW t \in Ticker, Named(t, d + 1, H) # {}
        PROVE  (CHOOSE e \in Named(t, d + 1, H) : TRUE).new \in Ticker
    <3>1. (CHOOSE e \in Named(t, d + 1, H) : TRUE) \in Named(t, d + 1, H)
      BY <2>1
    <3>2. QED  BY <3>1 DEF Named
  <2>2. QED  BY <2>1
<1>2. PICK f \in [Nat -> Ticker] : f[0] = s /\ \A k \in Nat : f[k + 1] = round[k][f[k]]
  <2> HIDE DEF round
  <2>1. PICK f : IsLoop(f, Ticker, s, round)
    BY <1>1, UnrollExists
  <2>2. QED  BY <2>1 DEF IsLoop
<1>3. \A k \in Nat : f[k + 1] = IF Named(f[k], k + 1, H) = {} THEN f[k]
                                ELSE (CHOOSE e \in Named(f[k], k + 1, H) : TRUE).new
  BY <1>2
<1>4. IsOn(f)
  <2>1. ASSUME NEW d \in Nat
        PROVE  f[d] = IF d = 0 THEN s
                      ELSE LET c == {e \in H : e.day = d /\ e.old = f[d - 1]}
                           IN  IF c = {} THEN f[d - 1] ELSE (CHOOSE e \in c : TRUE).new
    <3>1. CASE d = 0
      BY <1>2, <3>1
    <3>2. CASE d # 0
      <4>1. d - 1 \in Nat /\ (d - 1) + 1 = d
        BY <3>2
      <4> DEFINE k == d - 1
      <4>2. f[d] = IF Named(f[k], d, H) = {} THEN f[k]
                   ELSE (CHOOSE e \in Named(f[k], d, H) : TRUE).new
        BY <1>3, <4>1
      <4>3. QED  BY <3>2, <4>2 DEF Named
    <3>3. QED  BY <3>1, <3>2
  <2>2. QED  BY <1>2, <2>1
<1>5. IsOn(On)
  <2> HIDE DEF IsOn
  <2>1. \E g : IsOn(g)
    BY <1>4
  <2>2. QED  BY <2>1
<1>6. Today(s) = On[Max(Date)]
  BY DEF Today
<1> HIDE DEF On
<1>7. \A d \in Nat : On[d] = IF d = 0 THEN s
                             ELSE LET c == {e \in H : e.day = d /\ e.old = On[d - 1]}
                                  IN  IF c = {} THEN On[d - 1] ELSE (CHOOSE e \in c : TRUE).new
  BY <1>5
<1>8. \A d \in Nat : On[d] = f[d]
  <2> DEFINE T == {n \in Nat : On[n] # f[n]}
  <2>1. ASSUME T # {} PROVE FALSE
    <3>1. PICK n \in T : \A j \in T : n <= j
      BY <2>1, LeastNatural
    <3>2. n # 0
      BY <1>2, <1>7, <3>1
    <3>3. n - 1 \in Nat /\ (n - 1) + 1 = n /\ n - 1 \notin T
      BY <3>1, <3>2
    <3> DEFINE k == n - 1
    <3>4. On[k] = f[k]
      BY <3>3
    <3>5. On[n] = IF Named(On[k], n, H) = {} THEN On[k]
                  ELSE (CHOOSE e \in Named(On[k], n, H) : TRUE).new
      BY <1>7, <3>1, <3>2 DEF Named
    <3>6. f[n] = IF Named(f[k], n, H) = {} THEN f[k]
                 ELSE (CHOOSE e \in Named(f[k], n, H) : TRUE).new
      BY <1>3, <3>3
    <3>7. QED  BY <3>1, <3>4, <3>5, <3>6
  <2>2. QED  BY <2>1
<1>9. Max(Date) \in Nat
  BY MaxFound, ReferenceAssumption
<1>10. Today(s) = f[Max(Date)]
  BY <1>6, <1>8, <1>9
<1>11. \A d \in Nat : f[d + 1] = LET c == Named(f[d], d + 1, H)
                                 IN  IF c = {} THEN f[d] ELSE (CHOOSE e \in c : TRUE).new
  BY <1>3, Zenon
<1> HIDE DEF H
<1>12. \E o \in [Nat -> Ticker] :
          /\ o[0] = s
          /\ \A d \in Nat : o[d + 1] =
                LET c == Named(o[d], d + 1, H)
                IN  IF c = {} THEN o[d] ELSE (CHOOSE e \in c : TRUE).new
          /\ Today(s) = o[Max(Date)]
  BY <1>2, <1>10, <1>11, Zenon
<1>13. QED  BY <1>12 DEF H

(* No change of t is to come but one that keeps it; a change of x that does *)
(* not keep it has been.                                                    *)
Ahead(t, d, H) == \A e \in H : e.old = t => e.day > d \/ e.new = t
Behind(x, d, H) == \E e \in H : e.old = x /\ e.new # x /\ e.day <= d

LEMMA NamesAgree ==
    ASSUME NamesInv, changes \subseteq load_master, NoNameTwice, NEW s \in Ticker
    PROVE  canonical(s) = Today(s)
<1> DEFINE H == changes \union Seed
           last == Max(Date)
<1>1. load_master = H /\ H \subseteq [old : Ticker, new : Ticker, day : Date]
  BY ReferenceAssumption DEF NamesInv
<1>2. /\ Date \subseteq Nat \ {0} /\ last \in Date /\ last \in Nat /\ \A d \in Date : d <= last
  BY MaxFound, ReferenceAssumption
<1> HIDE DEF last
<1>3. \A e \in H : e.old \in Ticker /\ e.new \in Ticker /\ e.day \in Nat \ {0} /\ e.day <= last
  BY <1>1, <1>2
<1>4. \A c, e \in H : /\ c.new = e.old => c.day < e.day \/ c.old = c.new
                      /\ c.old = e.old => c = e
  BY DEF NoNameTwice
<1>5. ASSUME NEW e \in H PROVE Forward(e.old) = {e} /\ Latest({e}) = e
  <2>1. Forward(e.old) = {e}
    BY <1>1, <1>4 DEF Forward
  <2>2. \E r \in {e} : \A q \in {e} : q.day <= r.day
    BY <1>3
  <2>3. Latest({e}) = e
    BY <2>2 DEF Latest
  <2>4. QED  BY <2>1, <2>3
<1>6. \A t : Forward(t) = {} \/ \E e \in H : e.old = t
  BY <1>1 DEF Forward
<1>7. Successor \in [Ticker -> Ticker]
  <2>1. ASSUME NEW t \in Ticker, Forward(t) # {} PROVE Latest(Forward(t)).new \in Ticker
    <3>1. PICK e \in H : e.old = t
      BY <1>6, <2>1
    <3>2. QED  BY <1>3, <1>5, <3>1
  <2>2. QED  BY <2>1 DEF Successor
<1>8. PICK f : /\ \A t \in Ticker, seen \in SUBSET Ticker :
                     f[<<t, seen>>] = IF t \in seen \/ Forward(t) = {} THEN t
                                      ELSE f[<<Latest(Forward(t)).new, seen \union {t}>>]
               /\ \A t \in Ticker : canonical(t) = f[<<t, {}>>]
  BY <1>7, CanonicalFollows
<1>9. PICK o \in [Nat -> Ticker] :
              /\ o[0] = s
              /\ \A d \in Nat : o[d + 1] =
                    LET c == Named(o[d], d + 1, H)
                    IN  IF c = {} THEN o[d] ELSE (CHOOSE e \in c : TRUE).new
              /\ Today(s) = o[last]
  BY <1>3, TodayFollows DEF last
<1> HIDE DEF H
<1>s. ASSUME NEW t \in Ticker, NEW seen \in SUBSET Ticker, t \in seen \/ Forward(t) = {}
      PROVE  f[<<t, seen>>] = t
  BY <1>8, <1>s, ZenonT(60)
<1>m. ASSUME NEW t \in Ticker, NEW seen \in SUBSET Ticker, ~(t \in seen \/ Forward(t) = {})
      PROVE  f[<<t, seen>>] = f[<<Latest(Forward(t)).new, seen \union {t}>>]
  BY <1>8, <1>m, ZenonT(60)
<1>10. ASSUME NEW t \in Ticker, NEW seen \in SUBSET Ticker, NEW e \in H, e.old = t, t \notin seen
       PROVE  f[<<t, seen>>] = f[<<e.new, seen \union {t}>>]
  <2>1. Forward(t) = {e} /\ Latest({e}) = e
    BY <1>5, <1>10
  <2>2. ~(t \in seen \/ Forward(t) = {})
    BY <1>10, <2>1
  <2>3. Latest(Forward(t)).new = e.new
    BY <2>1
  <2>4. f[<<t, seen>>] = f[<<Latest(Forward(t)).new, seen \union {t}>>]
    BY <1>m, <2>2
  <2>5. QED  BY <2>3, <2>4, Zenon
<1> DEFINE Arrives(d) == \A seen \in SUBSET Ticker :
              (Ahead(o[d], d, H) /\ \A x \in seen : Behind(x, d, H)) => f[<<o[d], seen>>] = o[last]
<1>11. ASSUME NEW d \in Nat, NEW seen \in SUBSET Ticker, Ahead(o[d], d, H), \A x \in seen : Behind(x, d, H)
       PROVE  o[d] \notin seen
  <2>1. SUFFICES ASSUME o[d] \in seen PROVE FALSE
    OBVIOUS
  <2>2. PICK e \in H : e.old = o[d] /\ e.new # o[d] /\ e.day <= d
    BY <1>11, <2>1 DEF Behind
  <2>3. e.day > d
    BY <1>11, <2>2 DEF Ahead
  <2>4. QED  BY <1>3, <2>2, <2>3
<1>12. Arrives(last)
  <2>1. SUFFICES ASSUME NEW seen \in SUBSET Ticker, Ahead(o[last], last, H),
                        \A x \in seen : Behind(x, last, H)
                 PROVE  f[<<o[last], seen>>] = o[last]
    OBVIOUS
  <2> DEFINE t == o[last]
  <2>2. t \in Ticker /\ t \notin seen
    BY <1>2, <1>11, <2>1
  <2> HIDE DEF t
  <2>3. CASE Forward(t) = {}
    <3>1. f[<<t, seen>>] = t
      BY <1>s, <2>2, <2>3
    <3>2. QED  BY <3>1 DEF t
  <2>4. CASE Forward(t) # {}
    <3>1. PICK e \in H : e.old = t
      BY <1>6, <2>4
    <3>2. e.new = t
      <4>1. ~(e.day > last)
        BY <1>2, <1>3
      <4>2. QED  BY <2>1, <3>1, <4>1 DEF Ahead, t
    <3>3. f[<<t, seen>>] = f[<<t, seen \union {t}>>]
      BY <1>10, <2>2, <3>1, <3>2
    <3>4. f[<<t, seen \union {t}>>] = t
      <4>1. seen \union {t} \in SUBSET Ticker /\ t \in seen \union {t}
        BY <2>2
      <4>2. QED  BY <1>s, <2>2, <4>1
    <3>5. QED  BY <3>3, <3>4 DEF t
  <2>5. QED  BY <2>3, <2>4
<1>13. ASSUME NEW d \in Nat, Arrives(d + 1) PROVE Arrives(d)
  <2>1. SUFFICES ASSUME NEW seen \in SUBSET Ticker, Ahead(o[d], d, H),
                        \A x \in seen : Behind(x, d, H)
                 PROVE  f[<<o[d], seen>>] = o[last]
    OBVIOUS
  <2> DEFINE t == o[d]
             c == Named(t, d + 1, H)
  <2>2. t \in Ticker /\ t \notin seen /\ d + 1 \in Nat /\ o[d + 1] \in Ticker
    BY <1>11, <2>1
  <2>3. \A x \in seen : Behind(x, d + 1, H)
    <3>1. \A e \in H : e.day <= d => e.day <= d + 1
      BY <1>3
    <3>2. QED  BY <2>1, <3>1 DEF Behind
  <2>4. CASE c = {} \/ \E e \in c : e.new = t
    <3>1. o[d + 1] = t
      <4>1. CASE c = {}
        BY <1>9, <4>1
      <4>2. CASE \E e \in c : e.new = t
        <5>1. PICK e \in c : e.new = t
          BY <4>2
        <5>2. \A g \in c : g = e
          BY <1>4, <5>1 DEF Named
        <5>3. (CHOOSE g \in c : TRUE) = e /\ c # {}
          BY <5>1, <5>2
        <5>4. QED  BY <1>9, <5>1, <5>3
      <4>3. QED  BY <2>4, <4>1, <4>2
    <3>2. Ahead(t, d + 1, H)
      <4>1. SUFFICES ASSUME NEW e \in H, e.old = t, e.new # t PROVE e.day > d + 1
        BY DEF Ahead
      <4>2. e.day > d
        BY <2>1, <4>1 DEF Ahead
      <4>3. e.day # d + 1
        <5>1. SUFFICES ASSUME e.day = d + 1 PROVE FALSE
          OBVIOUS
        <5>2. e \in c
          BY <4>1, <5>1 DEF Named
        <5>3. PICK g \in c : g.new = t
          BY <2>4, <5>2
        <5>4. g = e
          BY <1>4, <4>1, <5>3 DEF Named
        <5>5. QED  BY <4>1, <5>3, <5>4
      <4>4. QED  BY <1>3, <4>1, <4>2, <4>3
    <3>3. QED  BY <1>13, <2>3, <3>1, <3>2
  <2>5. CASE c # {} /\ \A e \in c : e.new # t
    <3>1. PICK e \in c : TRUE
      BY <2>5
    <3>2. e \in H /\ e.old = t /\ e.day = d + 1 /\ e.new # t /\ e.new \in Ticker
      BY <1>3, <2>5, <3>1 DEF Named
    <3>3. o[d + 1] = e.new
      <4>1. \A g \in c : g = e
        BY <1>4, <3>2 DEF Named
      <4>2. (CHOOSE g \in c : TRUE) = e
        BY <3>1, <4>1
      <4>3. QED  BY <1>9, <2>5, <4>2
    <3>4. Ahead(e.new, d + 1, H)
      <4>1. \A g \in H : g.old = e.new => e.day < g.day
        BY <1>4, <3>2
      <4>2. QED  BY <1>3, <3>2, <4>1 DEF Ahead
    <3>5. \A x \in seen \union {t} : Behind(x, d + 1, H)
      <4>1. e.day <= d + 1
        BY <1>3, <3>2
      <4>2. QED  BY <2>3, <3>2, <4>1 DEF Behind
    <3>6. f[<<t, seen>>] = f[<<e.new, seen \union {t}>>]
      BY <1>10, <2>2, <3>2
    <3>7. seen \union {t} \in SUBSET Ticker
      BY <2>2
    <3>8. QED  BY <1>13, <3>3, <3>4, <3>5, <3>6, <3>7
  <2>6. QED  BY <2>4, <2>5
<1>14. Arrives(0)
  <2> DEFINE T == {k \in 0..last : ~Arrives(last - k)}
  <2>1. ASSUME T # {} PROVE FALSE
    <3>1. PICK k \in T : \A j \in T : k <= j
      <4>1. T \in SUBSET Nat
        BY <1>2
      <4> HIDE DEF T
      <4>2. QED  BY <2>1, <4>1, LeastNatural
    <3> HIDE DEF Arrives
    <3>2. k # 0
      BY <1>2, <1>12, <3>1
    <3>3. k - 1 \in 0..last /\ last - k \in Nat /\ last - (k - 1) = (last - k) + 1
      BY <1>2, <3>1, <3>2
    <3>4. k - 1 \notin T
      BY <1>2, <3>1, <3>3
    <3>5. Arrives((last - k) + 1)
      BY <3>3, <3>4
    <3>6. Arrives(last - k)
      BY <1>13, <3>3, <3>5
    <3>7. QED  BY <3>1, <3>6
  <2>2. last \in 0..last /\ last - last = 0
    BY <1>2
  <2> HIDE DEF Arrives
  <2>3. QED  BY <2>1, <2>2
<1>15. Ahead(s, 0, H)
  BY <1>3 DEF Ahead
<1>16. f[<<s, {}>>] = o[last]
  BY <1>9, <1>14, <1>15
<1>17. QED  BY <1>8, <1>9, <1>16

(* canonical follows renames and mergers to what became of a name, however  *)
(* many and in whatever order they were entered; resolve_as_of goes one     *)
(* step back.                                                               *)
THEOREM NamesAreFollowed == ReferenceSpec => []NamesFollowed
<1>1. NamesInv => NamesFollowed
  <2>1. SUFFICES ASSUME NamesInv, changes \subseteq load_master, NoNameTwice
                 PROVE  /\ \A s \in Ticker : canonical(s) = Today(s)
                        /\ \A c \in changes \union Seed :
                              (\A e \in changes \union Seed : e.new \in {c.old, c.new} => e = c) =>
                                  \A when \in Date :
                                      resolve_as_of(c.new, when) = IF when < c.day THEN c.old ELSE c.new
    BY DEF NamesFollowed
  <2>2. \A s \in Ticker : canonical(s) = Today(s)
    BY <2>1, NamesAgree
  <2>3. ASSUME NEW c \in changes \union Seed,
               \A e \in changes \union Seed : e.new \in {c.old, c.new} => e = c,
               NEW when \in Date
        PROVE  resolve_as_of(c.new, when) = IF when < c.day THEN c.old ELSE c.new
    <3> DEFINE chain == {r \in load_master : r.new = c.new /\ when < r.day}
    <3>1. load_master = changes \union Seed
      BY <2>1 DEF NamesInv
    <3>2. chain = IF when < c.day THEN {c} ELSE {}
      BY <2>3, <3>1
    <3>3. c.day \in Nat
      BY <2>1, ReferenceAssumption DEF NamesInv
    <3>4. Latest({c}) = c
      <4>1. \E r \in {c} : \A q \in {c} : q.day <= r.day
        BY <3>3
      <4>2. QED  BY <4>1 DEF Latest
    <3> HIDE DEF chain
    <3>5. resolve_as_of(c.new, when) = IF chain = {} THEN c.new ELSE Latest(chain).old
      BY DEF resolve_as_of, chain
    <3>6. QED  BY <3>2, <3>4, <3>5
  <2>4. QED  BY <2>2, <2>3
<1>2. QED  BY <1>1, NamesAlways, PTL

----------------------------------------------------------------------------
(* Products of fractions: a factor series. *)

Factors(f, S) == \A x \in S : f[x] \in Reduced

Multiplying(f, S) == [x \in S |-> [a \in Reduced |-> Mul(f[x], a)]]

LEMMA FactorsCommute ==
    ASSUME NEW S, NEW f, Factors(f, S)
    PROVE  Multiplying(f, S) \in Commuting(S, Reduced)
<1> DEFINE add == Multiplying(f, S)
<1>1. add \in [S -> [Reduced -> Reduced]]
  <2>1. \A x \in S, a \in Reduced : Mul(f[x], a) \in Reduced
    BY MulType DEF Factors
  <2>2. QED  BY <2>1 DEF Multiplying
<1>2. ASSUME NEW y \in S, NEW z \in S, NEW v \in Reduced
      PROVE  add[y][add[z][v]] = add[z][add[y][v]]
  <2>1. f[y] \in Reduced /\ f[z] \in Reduced
    BY DEF Factors
  <2>2. Mul(f[y], v) \in Reduced /\ Mul(f[z], v) \in Reduced
    BY <2>1, MulType
  <2>3. Mul(f[y], Mul(f[z], v)) = Mul(f[z], Mul(f[y], v))
    BY <2>1, MulSwaps
  <2>4. QED  BY <2>2, <2>3 DEF Multiplying
<1>3. QED  BY <1>1, <1>2 DEF Commuting

(* A product is a fold. *)
LEMMA ProductFolds ==
    ASSUME NEW S, IsFiniteSet(S), NEW f, Factors(f, S)
    PROVE  \E g : /\ FoldsTo(g, S, Reduced, One, Multiplying(f, S))
                  /\ Product(f, S) = g[S]
<1> DEFINE Is(c) == c = [s \in SUBSET S |-> IF s = {} THEN One
                                            ELSE Mul(f[Pick(s)], c[s \ {Pick(s)}])]
           c == CHOOSE c : Is(c)
<1>1. Product(f, S) = c[S]
  BY Zenon DEF Product, FoldFunctionOnSet, MapThenFoldSet, Pick, One
<1>2. One \in Reduced
  BY OneReduced
<1>3. Multiplying(f, S) \in [S -> [Reduced -> Reduced]]
  BY FactorsCommute DEF Commuting
<1>4. PICK g : FoldsTo(g, S, Reduced, One, Multiplying(f, S))
  BY <1>2, <1>3, FoldExists
<1>5. Is(g)
  <2>1. \A s \in SUBSET S : s # {} => g[s] = Mul(f[Pick(s)], g[s \ {Pick(s)}])
    <3>1. SUFFICES ASSUME NEW s \in SUBSET S, s # {}
                   PROVE  g[s] = Mul(f[Pick(s)], g[s \ {Pick(s)}])
      OBVIOUS
    <3>2. Pick(s) \in S
      BY <3>1, PickIn
    <3>3. g[s \ {Pick(s)}] \in Reduced
      BY <1>4, <3>1 DEF FoldsTo
    <3>4. g[s] = Multiplying(f, S)[Pick(s)][g[s \ {Pick(s)}]]
      BY <1>4, <3>1 DEF FoldsTo
    <3>5. QED  BY <3>2, <3>3, <3>4 DEF Multiplying
  <2>2. g = [s \in SUBSET S |-> g[s]] /\ g[{}] = One
    BY <1>4 DEF FoldsTo
  <2>3. QED  BY <2>1, <2>2
<1>6. Is(c)
  BY <1>5
<1>7. c[S] = g[S]
  <2>1. c[{}] = g[{}]
    BY <1>5, <1>6
  <2>2. ASSUME NEW s \in SUBSET S, s # {}, c[s \ {Pick(s)}] = g[s \ {Pick(s)}]
        PROVE  c[s] = g[s]
    <3>1. c[s] = Mul(f[Pick(s)], c[s \ {Pick(s)}])
      BY <1>6, <2>2
    <3>2. g[s] = Mul(f[Pick(s)], g[s \ {Pick(s)}])
      BY <1>5, <2>2
    <3>3. QED  BY <2>2, <3>1, <3>2
  <2> HIDE DEF c, Is
  <2>3. \A s \in SUBSET S : c[s] = g[s]
    BY <2>1, <2>2, AgreeOnSubsets
  <2>4. QED  BY <2>3
<1>8. QED  BY <1>1, <1>4, <1>7

(* What a product comes to: 1, or a factor times the product of the others. *)
LEMMA ProductNone ==
    ASSUME NEW f
    PROVE  Product(f, {}) = One
<1>1. IsFiniteSet({}) /\ Factors(f, {})
  BY FS_EmptySet DEF Factors
<1>2. PICK g : FoldsTo(g, {}, Reduced, One, Multiplying(f, {})) /\ Product(f, {}) = g[{}]
  BY <1>1, ProductFolds
<1>3. QED  BY <1>2 DEF FoldsTo

LEMMA ProductValue ==
    ASSUME NEW S, IsFiniteSet(S), NEW f, Factors(f, S)
    PROVE  Product(f, S) \in Reduced
<1>1. PICK g : FoldsTo(g, S, Reduced, One, Multiplying(f, S)) /\ Product(f, S) = g[S]
  BY ProductFolds
<1>2. QED  BY <1>1 DEF FoldsTo

LEMMA ProductMore ==
    ASSUME NEW T, IsFiniteSet(T), NEW x, x \notin T, NEW f, Factors(f, T), f[x] \in Reduced,
           NEW more, more = T \union {x}
    PROVE  /\ Product(f, more) = Mul(f[x], Product(f, T))
           /\ f[x] \in Reduced /\ Product(f, T) \in Reduced
<1> DEFINE S == T \union {x}
           adf == Multiplying(f, S)
           adh == Multiplying(f, T)
           one == One
<1>1. IsFiniteSet(S) /\ x \in S /\ T \in SUBSET S /\ T \subseteq T /\ T \subseteq S /\ more = S
  BY FS_AddElement
<1>2. Factors(f, S)
  BY DEF Factors
<1>3. PICK g : FoldsTo(g, S, Reduced, one, adf) /\ Product(f, S) = g[S]
  BY <1>1, <1>2, ProductFolds
<1>4. PICK k : FoldsTo(k, T, Reduced, one, adh) /\ Product(f, T) = k[T]
  BY ProductFolds
<1>5. adf \in Commuting(S, Reduced)
  BY <1>2, FactorsCommute
<1>6. Alike(adh, adf, T)
  BY DEF Multiplying, Alike
<1>7. adf[x][k[T]] = Mul(f[x], k[T]) /\ k[T] \in Reduced /\ g[S] = adf[x][k[T]]
  <2>1. S = T \union {x}
    OBVIOUS
  <2> HIDE DEF adf, adh, S, one
  <2>2. g[S] = adf[x][k[T]] /\ k[T] \in Reduced
    BY <1>1, <1>3, <1>4, <1>5, <1>6, <2>1, FoldMore
  <2>3. adf[x][k[T]] = Mul(f[x], k[T])
    BY <1>1, <2>2 DEF adf, Multiplying
  <2>4. QED  BY <2>2, <2>3
<1>8. QED  BY <1>1, <1>3, <1>4, <1>7

LEMMA ProductOfProducts ==
    ASSUME NEW S, IsFiniteSet(S), NEW f, NEW h, Factors(f, S), Factors(h, S),
           NEW k, \A x \in S : k[x] = Mul(f[x], h[x])
    PROVE  Product(k, S) = Mul(Product(f, S), Product(h, S))
<1> DEFINE G == {T \in SUBSET S : Product(k, T) = Mul(Product(f, T), Product(h, T))}
<1>1. {} \in G
  BY ProductNone, OneReduced, MulOne
<1>2. ASSUME NEW T \in SUBSET S, NEW x \in S \ T, T \in G
      PROVE  T \union {x} \in G
  <2>1. IsFiniteSet(T)
    BY FS_Subset
  <2>2. Factors(f, T) /\ Factors(h, T) /\ f[x] \in Reduced /\ h[x] \in Reduced
    BY DEF Factors
  <2>3. Factors(k, T) /\ k[x] \in Reduced
    BY <2>2, MulType DEF Factors
  <2> DEFINE a == f[x]
             b == h[x]
             p == Product(f, T)
             q == Product(h, T)
             more == T \union {x}
  <2>4. Product(f, more) = Mul(a, p) /\ a \in Reduced /\ p \in Reduced
    BY <2>1, <2>2, ProductMore
  <2>5. Product(h, more) = Mul(b, q) /\ b \in Reduced /\ q \in Reduced
    BY <2>1, <2>2, ProductMore
  <2>6. Product(k, more) = Mul(k[x], Product(k, T))
    BY <2>1, <2>3, ProductMore
  <2>7. k[x] = Mul(a, b) /\ Product(k, T) = Mul(p, q)
    BY <1>2
  <2> HIDE DEF a, b, p, q
  <2>8. Mul(Mul(a, b), Mul(p, q)) = Mul(Mul(a, p), Mul(b, q))
    BY <2>4, <2>5, MulPairs
  <2>9. QED  BY <2>4, <2>5, <2>6, <2>7, <2>8
<1> HIDE DEF G
<1>3. S \in G
  BY <1>1, <1>2, FromEmpty
<1>4. QED  BY <1>3 DEF G

LEMMA ProductOfOnes ==
    ASSUME NEW S, IsFiniteSet(S), NEW f, \A x \in S : f[x] = One
    PROVE  Product(f, S) = One
<1> DEFINE G == {T \in SUBSET S : Product(f, T) = One}
<1>1. {} \in G
  BY ProductNone
<1>2. ASSUME NEW T \in SUBSET S, NEW x \in S \ T, T \in G
      PROVE  T \union {x} \in G
  <2>1. IsFiniteSet(T) /\ Factors(f, T) /\ f[x] = One /\ One \in Reduced
    BY FS_Subset, OneReduced DEF Factors
  <2>2. Product(f, T \union {x}) = Mul(f[x], Product(f, T))
    BY <2>1, ProductMore
  <2>3. QED  BY <1>2, <2>1, <2>2, MulOne
<1> HIDE DEF G
<1>3. S \in G
  BY <1>1, <1>2, FromEmpty
<1>4. QED  BY <1>3 DEF G

LEMMA ProductSign ==
    ASSUME NEW S, IsFiniteSet(S), NEW f, Factors(f, S), \A x \in S : f[x].num >= 0
    PROVE  Product(f, S).num >= 0
<1> DEFINE G == {T \in SUBSET S : Product(f, T).num >= 0}
<1>1. {} \in G
  BY ProductNone, OneReduced
<1>2. ASSUME NEW T \in SUBSET S, NEW x \in S \ T, T \in G
      PROVE  T \union {x} \in G
  <2>1. IsFiniteSet(T) /\ Factors(f, T) /\ f[x] \in Reduced /\ f[x].num >= 0
    BY FS_Subset DEF Factors
  <2> DEFINE a == f[x]
             p == Product(f, T)
  <2>2. Product(f, T \union {x}) = Mul(a, p) /\ a \in Reduced /\ p \in Reduced
    BY <2>1, ProductMore
  <2>3. a.num >= 0 /\ p.num >= 0
    BY <1>2, <2>1
  <2> HIDE DEF a, p
  <2>4. Mul(a, p).num >= 0
    BY <2>2, <2>3, MulSign
  <2>5. QED  BY <2>2, <2>4
<1> HIDE DEF G
<1>3. S \in G
  BY <1>1, <1>2, FromEmpty
<1>4. QED  BY <1>3 DEF G

(* Two disjoint parts. *)
LEMMA ProductParts ==
    ASSUME NEW S, IsFiniteSet(S), NEW R, IsFiniteSet(R), S \intersect R = {},
           NEW f, Factors(f, S \union R)
    PROVE  Product(f, S \union R) = Mul(Product(f, S), Product(f, R))
<1> DEFINE G == {T \in SUBSET S : Product(f, T \union R) = Mul(Product(f, T), Product(f, R))}
<1>0. Factors(f, R)
  BY DEF Factors
<1>5. Product(f, R) \in Reduced
  BY <1>0, ProductValue
<1>1. {} \in G
  <2>1. {} \union R = R
    OBVIOUS
  <2>2. QED  BY <1>5, <2>1, ProductNone, MulOne
<1>2. ASSUME NEW T \in SUBSET S, NEW x \in S \ T, T \in G
      PROVE  T \union {x} \in G
  <2> DEFINE U == T \union R
             a == f[x]
             p == Product(f, T)
             q == Product(f, R)
             more == U \union {x}
  <2>1. IsFiniteSet(T) /\ Factors(f, T) /\ f[x] \in Reduced
    BY FS_Subset DEF Factors
  <2>2. IsFiniteSet(U) /\ x \notin U /\ Factors(f, U) /\ (T \union {x}) \union R = more
    BY <2>1, FS_Union DEF Factors
  <2>3. Product(f, T \union {x}) = Mul(a, p) /\ a \in Reduced /\ p \in Reduced
    BY <2>1, ProductMore
  <2>4. Product(f, more) = Mul(a, Product(f, U))
    <3> HIDE DEF U
    <3>1. QED  BY <2>1, <2>2, ProductMore
  <2>5. Product(f, U) = Mul(p, q) /\ q \in Reduced
    BY <1>2, <1>5
  <2> HIDE DEF a, p, q, U
  <2>6. Mul(a, Mul(p, q)) = Mul(Mul(a, p), q)
    BY <2>3, <2>5, MulGroups
  <2>7. QED  BY <2>2, <2>3, <2>4, <2>5, <2>6 DEF q
<1> HIDE DEF G
<1>3. S \in G
  BY <1>1, <1>2, FromEmpty
<1>4. QED  BY <1>3 DEF G

----------------------------------------------------------------------------
(* The file of corporate actions. *)

ActionsInv ==
    /\ IsFiniteSet(DOMAIN actions)
    /\ \A k \in DOMAIN actions :
          /\ k.symbol \in Symbol /\ k.ex_date \in Date
          /\ actions[k].ratio \in Reduced
          /\ actions[k].amount \in Nat

LEMMA ActionsAlways == ReferenceSpec => []ActionsInv
<1>1. ReferenceInit => ActionsInv
  <2>1. SUFFICES ASSUME ReferenceInit PROVE ActionsInv
    OBVIOUS
  <2>2. DOMAIN actions = {}
    BY <2>1 DEF ReferenceInit, NoRows
  <2>3. QED  BY <2>2, FS_EmptySet DEF ActionsInv
<1>2. ActionsInv /\ [ReferenceNext]_referenceVars => ActionsInv'
  <2>1. SUFFICES ASSUME ActionsInv, [ReferenceNext]_referenceVars PROVE ActionsInv'
    OBVIOUS
  <2>2. CASE UNCHANGED actions
    BY <2>1, <2>2 DEF ActionsInv
  <2>3. ASSUME NEW a \in Declarable, add_actions(a)
        PROVE  ActionsInv'
    <3> DEFINE key == ActionKey(a)
               row == [ratio |-> a.ratio, amount |-> a.amount]
    <3>1. /\ DOMAIN actions' = DOMAIN actions \union {key}
          /\ \A k \in DOMAIN actions' : actions'[k] = IF k = key THEN row ELSE actions[k]
      BY <2>3 DEF add_actions, Over
    <3>2. key.symbol \in Symbol /\ key.ex_date \in Date /\ row.amount \in Nat
      BY ReferenceAssumption DEF ActionKey
    <3>3. row.ratio \in Reduced
      <4>1. a.ratio \in Fraction /\ a.ratio = Ratio(a.ratio.num, a.ratio.den)
        BY ReferenceAssumption
      <4>2. a.ratio.num \in Int /\ a.ratio.den \in Nat \ {0}
        BY <4>1, Parts
      <4>3. QED  BY <4>1, <4>2, RatioCancels
    <3> HIDE DEF key, row
    <3>4. IsFiniteSet(DOMAIN actions')
      BY <2>1, <3>1, FS_AddElement DEF ActionsInv
    <3>5. QED  BY <2>1, <3>1, <3>2, <3>3, <3>4 DEF ActionsInv
  <2>4. QED
    BY <2>1, <2>2, <2>3
    DEF ReferenceNext, referenceVars, Reconstituted, resolve_symbol, NameChanges, add_mapping
<1>3. QED  BY <1>1, <1>2, PTL DEF ReferenceSpec

(* A window's rows of a symbol. *)
IsFrame(s, frame) == frame \subseteq Date /\ \A e \in frame : Close[s][e] \in Nat \ {0}

LEMMA PrevClose ==
    ASSUME NEW s \in Symbol, NEW frame, IsFrame(s, frame), NEW ex \in Date
    PROVE  prev_close(s, frame, ex) \in Nat
<1> DEFINE prior == {d \in frame : d < ex}
<1>1. prior \subseteq Nat /\ IsFiniteSet(prior)
  BY FS_Subset, ReferenceAssumption DEF IsFrame
<1>2. CASE prior = {}
  BY <1>2 DEF prev_close
<1>3. CASE prior # {}
  <2>1. Max(prior) \in prior
    BY <1>1, <1>3, MaxFound
  <2>2. prev_close(s, frame, ex) = Close[s][Max(prior)]
    BY <1>3 DEF prev_close
  <2>3. QED  BY <2>1, <2>2 DEF IsFrame
<1>4. QED  BY <1>2, <1>3

LEMMA MultiplierType ==
    ASSUME ActionsInv, NEW s \in Symbol, NEW frame, IsFrame(s, frame), NEW k \in ActionsOf(s)
    PROVE  Multiplier(frame, k) \in Reduced /\ Multiplier(frame, k).num >= 0
<1> DEFINE last == prev_close(k.symbol, frame, k.ex_date)
           a == actions[k]
           value == Multiplier(frame, k)
<1>1. k \in DOMAIN actions /\ k.symbol = s /\ k.ex_date \in Date /\ a.amount \in Nat /\ a.ratio \in Reduced
  BY DEF ActionsOf, ActionsInv
<1>2. last \in Nat
  BY <1>1, PrevClose
<1>3. a.ratio.num \in Int /\ a.ratio.den \in Nat \ {0}
  BY <1>1, ReducedParts, Parts
<1>4. CASE k.action_type = "dividend" /\ ~(last = 0 \/ a.amount = 0)
  <2> DEFINE left == IF a.amount > last THEN 0 ELSE last - a.amount
  <2>1. left \in Nat /\ last \in Nat \ {0}
    BY <1>1, <1>2, <1>4
  <2>2. value = Ratio(left, last)
    BY <1>4 DEF Multiplier
  <2> HIDE DEF left, last
  <2>3. QED  BY <2>1, <2>2, RatioSign
<1>5. CASE k.action_type # "dividend" /\ ~(a.ratio.num <= 0)
  <2>1. value = Ratio(a.ratio.den, a.ratio.num)
    BY <1>5 DEF Multiplier
  <2>2. a.ratio.num \in Nat \ {0} /\ a.ratio.den \in Int /\ a.ratio.den >= 0
    BY <1>3, <1>5
  <2> HIDE DEF a
  <2>3. QED  BY <2>1, <2>2, RatioSign
<1>6. CASE value = Whole(1)
  BY <1>6, OneReduced DEF One
<1>7. QED  BY <1>4, <1>5, <1>6 DEF Multiplier

----------------------------------------------------------------------------
(* From one close to the next. *)

NextClose(frame, last, d) ==
    /\ last \in frame /\ d \in frame /\ last < d
    /\ \A e \in frame : e <= last \/ d <= e

LEMMA LastBefore ==
    ASSUME NEW s \in Symbol, NEW frame, IsFrame(s, frame),
           NEW last, NEW d, NextClose(frame, last, d),
           NEW ex \in Date, last < ex, ex <= d
    PROVE  prev_close(s, frame, ex) = Close[s][last]
<1> DEFINE prior == {e \in frame : e < ex}
<1>1. prior \subseteq Nat /\ IsFiniteSet(prior) /\ ex \in Nat /\ frame \subseteq Nat
  BY FS_Subset, ReferenceAssumption DEF IsFrame
<1>2. last \in prior
  BY DEF NextClose
<1>3. Max(prior) \in prior /\ \A e \in prior : e <= Max(prior)
  BY <1>1, <1>2, MaxFound
<1>4. Max(prior) = last
  <2> DEFINE m == Max(prior)
  <2>1. m \in frame /\ m < ex /\ last <= m
    BY <1>2, <1>3
  <2> HIDE DEF m
  <2>2. m <= last
    BY <1>1, <2>1 DEF NextClose
  <2>3. m = last
    BY <1>1, <2>1, <2>2 DEF NextClose
  <2>4. QED  BY <2>3 DEF m
<1>5. prev_close(s, frame, ex) = Close[s][Max(prior)]
  BY <1>2 DEF prev_close
<1>6. QED  BY <1>4, <1>5

(* An action takes off the prices before it what a share gains. *)
LEMMA GrownUndoes ==
    ASSUME ActionsInv, NEW s \in Symbol, NEW frame, IsFrame(s, frame),
           NEW last, NEW d, NextClose(frame, last, d), Payable(s, last, d),
           NEW k \in Between(s, last, d)
    PROVE  Grown(s, last, k) \in Reduced /\ Mul(Multiplier(frame, k), Grown(s, last, k)) = One
<1> DEFINE c == Close[s][last]
           a == actions[k]
           x == Multiplier(frame, k)
           y == Grown(s, last, k)
<1>1. /\ k \in ActionsOf(s) /\ k.symbol = s /\ k.ex_date \in Date
      /\ a.amount \in Nat /\ a.ratio \in Reduced /\ last < k.ex_date /\ k.ex_date <= d
  BY DEF Between, ActionsOf, ActionsInv
<1>2. prev_close(k.symbol, frame, k.ex_date) = c
  BY <1>1, LastBefore
<1>3. c \in Nat \ {0}
  BY DEF IsFrame, NextClose
<1>4. a.ratio.num \in Int /\ a.ratio.den \in Nat \ {0} /\ a.ratio = Ratio(a.ratio.num, a.ratio.den)
  BY <1>1, ReducedParts, Parts, NormOwn DEF Norm
<1>5. CASE k.action_type = "dividend"
  <2>1. a.amount < c
    BY <1>5 DEF Payable
  <2> DEFINE n == c - a.amount
  <2>2. n \in Nat \ {0}
    BY <1>1, <1>3, <2>1
  <2>3. y = Ratio(c, n)
    BY <1>5 DEF Grown
  <2>4. x = IF a.amount = 0 THEN Whole(1) ELSE Ratio(n, c)
    BY <1>1, <1>2, <1>3, <1>5, <2>1 DEF Multiplier
  <2>5. a.amount = 0 => n = c
    BY <1>3
  <2> HIDE DEF a, c, n, x, y
  <2>6. Mul(Ratio(n, c), Ratio(c, n)) = One /\ Ratio(c, c) = One
    BY <1>3, <2>2, Reciprocals
  <2>7. x = Ratio(n, c)
    BY <2>4, <2>5, <2>6 DEF One
  <2>8. y \in Reduced
    BY <1>3, <2>2, <2>3, RatioSign
  <2>9. QED  BY <2>3, <2>6, <2>7, <2>8 DEF x, y
<1>6. CASE k.action_type # "dividend" /\ a.ratio.num <= 0
  <2>1. x = One /\ y = One
    BY <1>6 DEF Multiplier, Grown, One
  <2>2. QED  BY <2>1, OneReduced, MulOne
<1>7. CASE k.action_type # "dividend" /\ ~(a.ratio.num <= 0)
  <2>1. x = Ratio(a.ratio.den, a.ratio.num) /\ y = a.ratio
    BY <1>7 DEF Multiplier, Grown
  <2>2. a.ratio.num \in Nat \ {0}
    BY <1>4, <1>7
  <2> HIDE DEF a
  <2>3. Mul(Ratio(a.ratio.den, a.ratio.num), Ratio(a.ratio.num, a.ratio.den)) = One
    BY <1>4, <2>2, Reciprocals
  <2>4. QED  BY <1>1, <1>4, <2>1, <2>3
<1>8. QED  BY <1>5, <1>6, <1>7

(* The products of what undoes each other do so too. *)
LEMMA ProductsUndo ==
    ASSUME NEW S, IsFiniteSet(S), NEW f, Factors(f, S), NEW h, Factors(h, S),
           \A x \in S : Mul(f[x], h[x]) = One
    PROVE  Mul(Product(f, S), Product(h, S)) = One
<1> DEFINE ones == [x \in S |-> One]
<1>1. \A x \in S : ones[x] = Mul(f[x], h[x])
  OBVIOUS
<1>2. \A x \in S : ones[x] = One
  OBVIOUS
<1> HIDE DEF ones
<1>3. Product(ones, S) = Mul(Product(f, S), Product(h, S))
  BY <1>1, ProductOfProducts
<1>4. Product(ones, S) = One
  BY <1>2, ProductOfOnes
<1>5. QED  BY <1>3, <1>4

LEMMA Regrouped ==
    ASSUME NEW x \in Reduced, NEW y \in Reduced, NEW f \in Reduced,
           NEW p \in Reduced, NEW g \in Reduced, Mul(p, g) = One
    PROVE  Mul(Mul(y, f), x) = Mul(Mul(Mul(x, Mul(f, p)), y), g)
<1> DEFINE xf == Mul(x, f)
           all == Mul(y, xf)
<1>1. xf \in Reduced /\ xf = Mul(f, x) /\ all \in Reduced
  BY MulType
<1>2. Mul(Mul(y, f), x) = all
  BY <1>1, MulGroups
<1> HIDE DEF xf, all
<1>3. Mul(x, Mul(f, p)) = Mul(xf, p)
  BY MulGroups DEF xf
<1>4. Mul(Mul(xf, p), y) = Mul(all, p)
  <2>1. Mul(xf, p) \in Reduced
    BY <1>1, MulType
  <2>2. Mul(Mul(xf, p), y) = Mul(y, Mul(xf, p))
    BY <2>1, MulType
  <2>3. QED  BY <1>1, <2>2, MulGroups DEF all
<1>5. Mul(Mul(all, p), g) = Mul(all, Mul(p, g))
  BY <1>1, MulGroups
<1>6. QED  BY <1>1, <1>2, <1>3, <1>4, <1>5, MulOne

LEMMA SeriesType ==
    ASSUME ActionsInv, NEW s \in Symbol, NEW frame, IsFrame(s, frame), NEW S \in SUBSET ActionsOf(s)
    PROVE  /\ IsFiniteSet(S)
           /\ Factors([k \in ActionsOf(s) |-> Multiplier(frame, k)], S)
           /\ Product([k \in ActionsOf(s) |-> Multiplier(frame, k)], S) \in Reduced
           /\ Product([k \in ActionsOf(s) |-> Multiplier(frame, k)], S).num >= 0
<1> DEFINE f == [k \in ActionsOf(s) |-> Multiplier(frame, k)]
<1>1. IsFiniteSet(S)
  BY FS_Subset DEF ActionsOf, ActionsInv
<1>2. \A k \in S : f[k] \in Reduced /\ f[k].num >= 0
  BY MultiplierType
<1>3. Factors(f, S)
  BY <1>2 DEF Factors
<1> HIDE DEF f
<1>4. Product(f, S) \in Reduced /\ Product(f, S).num >= 0
  BY <1>1, <1>2, <1>3, ProductValue, ProductSign
<1>5. QED  BY <1>1, <1>3, <1>4 DEF f

LEMMA CloseToClose ==
    ASSUME ActionsInv, NEW s \in Symbol, NEW frame, IsFrame(s, frame),
           NEW last, NEW d, NextClose(frame, last, d), Payable(s, last, d)
    PROVE  Mul(AdjustedClose(s, frame, d), Whole(Close[s][last]))
              = Mul(Mul(AdjustedClose(s, frame, last), Whole(Close[s][d])), Growth(s, last, d))
<1> DEFINE f == [k \in ActionsOf(s) |-> Multiplier(frame, k)]
           later == {k \in ActionsOf(s) : Before(d, k.ex_date)}
           all == {k \in ActionsOf(s) : Before(last, k.ex_date)}
           ks == Between(s, last, d)
           h == [k \in ks |-> Grown(s, last, k)]
           x == Whole(Close[s][last])
           y == Whole(Close[s][d])
<1>1. last \in Nat /\ d \in Nat /\ last < d
  BY ReferenceAssumption DEF IsFrame, NextClose
<1>2. \A k \in ActionsOf(s) : k.ex_date \in Nat
  BY ReferenceAssumption DEF ActionsOf, ActionsInv
<1>3. later \in SUBSET ActionsOf(s) /\ ks \in SUBSET ActionsOf(s) /\ all \in SUBSET ActionsOf(s)
  BY DEF Between
<1>4. all = later \union ks /\ later \intersect ks = {}
  BY <1>1, <1>2 DEF Between, Before
<1>5. x \in Reduced /\ y \in Reduced
  <2>1. Close[s][last] \in Int /\ Close[s][d] \in Int
    BY DEF IsFrame, NextClose
  <2>2. QED  BY <2>1, WholeReduced
<1>6. /\ IsFiniteSet(later) /\ IsFiniteSet(ks)
      /\ Factors(f, later \union ks) /\ Factors(f, ks)
      /\ Product(f, later) \in Reduced /\ Product(f, ks) \in Reduced
  <2>1. later \union ks \in SUBSET ActionsOf(s)
    BY <1>3
  <2> HIDE DEF later, ks
  <2>2. QED  BY <1>3, <2>1, SeriesType
<1>7. \A k \in ks : h[k] \in Reduced /\ Mul(f[k], h[k]) = One
  BY <1>3, GrownUndoes
<1>8. /\ _factor_series(s, frame, d) = Product(f, later)
      /\ _factor_series(s, frame, last) = Product(f, all)
      /\ Growth(s, last, d) = Product(h, ks)
  BY DEF _factor_series, Growth
<1>9. /\ AdjustedClose(s, frame, d) = Mul(y, Product(f, later))
      /\ AdjustedClose(s, frame, last) = Mul(x, Product(f, all))
  BY <1>8 DEF AdjustedClose
<1> HIDE DEF f, later, all, ks, h, x, y
<1>10. Factors(h, ks)
  BY <1>7 DEF Factors
<1>11. Mul(Product(f, ks), Product(h, ks)) = One /\ Product(h, ks) \in Reduced
  BY <1>6, <1>7, <1>10, ProductsUndo, ProductValue
<1>12. Product(f, all) = Mul(Product(f, later), Product(f, ks))
  BY <1>4, <1>6, ProductParts
<1>13. Mul(Mul(y, Product(f, later)), x)
          = Mul(Mul(Mul(x, Mul(Product(f, later), Product(f, ks))), y), Product(h, ks))
  BY <1>5, <1>6, <1>11, Regrouped
<1>14. QED  BY <1>8, <1>9, <1>12, <1>13 DEF x, y

----------------------------------------------------------------------------
(* Volumes. *)

(* Without dividends the volumes grow by what the prices shrink by. *)
LEMMA TurnoverIs ==
    ASSUME ActionsInv, NEW s \in Symbol, NEW frame, IsFrame(s, frame),
           \A k \in ActionsOf(s) : k.action_type # "dividend", NEW d \in frame
    PROVE  \E v \in Reduced :
              /\ AdjustedVolume(s, frame, d) = Rounded(v.num, v.den)
              /\ Mul(AdjustedClose(s, frame, d), v) = Whole(Close[s][d] * Volume)
              /\ AdjustedClose(s, frame, d) \in Reduced
              /\ AdjustedClose(s, frame, d).num >= 0
<1> DEFINE f == [k \in ActionsOf(s) |-> Multiplier(frame, k)]
           later == {k \in ActionsOf(s) : Before(d, k.ex_date)}
           splits == {k \in ActionsOf(s) : k.action_type # "dividend" /\ Before(d, k.ex_date)
                                            /\ actions[k].ratio.num > 0}
           others == later \ splits
           r == [k \in splits |-> actions[k].ratio]
           c == Whole(Close[s][d])
           w == Whole(Volume)
           v == Mul(w, Product(r, splits))
<1>1. later \in SUBSET ActionsOf(s) /\ splits \in SUBSET ActionsOf(s) /\ others \in SUBSET ActionsOf(s)
  OBVIOUS
<1>2. later = splits \union others /\ splits \intersect others = {}
  OBVIOUS
<1>3. /\ IsFiniteSet(splits) /\ IsFiniteSet(others)
      /\ Factors(f, splits \union others) /\ Factors(f, splits)
      /\ Product(f, splits) \in Reduced /\ Product(f, others) \in Reduced
      /\ Product(f, later) \in Reduced /\ Product(f, later).num >= 0
  <2>1. splits \union others \in SUBSET ActionsOf(s)
    OBVIOUS
  <2> HIDE DEF later, splits, others
  <2>2. QED  BY <1>1, <2>1, SeriesType
<1>4. Close[s][d] \in Nat /\ Volume \in Nat
  BY ReferenceAssumption DEF IsFrame
<1>5. c \in Reduced /\ w \in Reduced /\ Mul(c, w) = Whole(Close[s][d] * Volume) /\ c.num >= 0
  <2> DEFINE m == Close[s][d]
  <2>1. m \in Int /\ m >= 0 /\ Volume \in Int
    BY <1>4
  <2> HIDE DEF m
  <2>2. /\ Mul(Whole(m), Whole(Volume)) = Whole(m * Volume)
        /\ Whole(m) \in Reduced /\ Whole(m).num >= 0 /\ Whole(Volume) \in Reduced
    BY <2>1, WholeReduced, WholeProduct
  <2>3. QED  BY <2>2 DEF m
<1>6. \A k \in splits : r[k] \in Reduced /\ Mul(f[k], r[k]) = One
  <2>1. SUFFICES ASSUME NEW k \in splits PROVE r[k] \in Reduced /\ Mul(f[k], r[k]) = One
    OBVIOUS
  <2> DEFINE a == actions[k].ratio
  <2>2. k \in ActionsOf(s) /\ a \in Reduced /\ a.num > 0
    BY DEF ActionsOf, ActionsInv
  <2>3. a.num \in Int /\ a.den \in Nat \ {0} /\ a = Ratio(a.num, a.den)
    BY <2>2, ReducedParts, Parts, NormOwn DEF Norm
  <2>4. f[k] = Ratio(a.den, a.num) /\ r[k] = a
    BY <2>2, <2>3 DEF Multiplier
  <2> HIDE DEF a, f, r
  <2>5. a.num \in Nat \ {0}
    BY <2>2, <2>3
  <2>6. Mul(Ratio(a.den, a.num), Ratio(a.num, a.den)) = One
    BY <2>3, <2>5, Reciprocals
  <2>7. QED  BY <2>2, <2>3, <2>4, <2>6
<1>7. \A k \in others : f[k] = One
  <2>1. SUFFICES ASSUME NEW k \in others PROVE f[k] = One
    OBVIOUS
  <2>2. actions[k].ratio.num \in Int
    BY ReducedParts, Parts DEF ActionsOf, ActionsInv
  <2>3. actions[k].ratio.num <= 0
    BY <2>2
  <2>4. QED  BY <2>3 DEF Multiplier, One
<1>8. AdjustedVolume(s, frame, d) = Rounded(v.num, v.den)
  BY DEF AdjustedVolume
<1>9. AdjustedClose(s, frame, d) = Mul(c, Product(f, later))
  BY DEF AdjustedClose, _factor_series
<1> HIDE DEF f, later, splits, others, r, c, w
<1>10. Factors(r, splits)
  BY <1>6 DEF Factors
<1>11. Product(r, splits) \in Reduced /\ Mul(Product(f, splits), Product(r, splits)) = One
  BY <1>3, <1>6, <1>10, ProductsUndo, ProductValue
<1>12. Product(f, later) = Product(f, splits)
  <2>1. Product(f, others) = One
    BY <1>3, <1>7, ProductOfOnes
  <2>2. Product(f, later) = Mul(Product(f, splits), Product(f, others))
    BY <1>2, <1>3, ProductParts
  <2>3. QED  BY <1>3, <2>1, <2>2, MulOne
<1>13. Mul(Mul(c, Product(f, splits)), Mul(w, Product(r, splits))) = Mul(c, w)
  <2>1. Mul(Mul(c, Product(f, splits)), Mul(w, Product(r, splits)))
           = Mul(Mul(c, w), Mul(Product(f, splits), Product(r, splits)))
    BY <1>3, <1>5, <1>11, MulPairs
  <2>2. Mul(c, w) \in Reduced
    BY <1>5, MulType
  <2>3. QED  BY <1>11, <2>1, <2>2, MulOne
<1>14. v \in Reduced
  BY <1>5, <1>11, MulType
<1>15. Mul(c, Product(f, later)) \in Reduced /\ Mul(c, Product(f, later)).num >= 0
  <2> DEFINE p == Product(f, later)
  <2>1. p \in Reduced /\ p.num >= 0
    BY <1>3
  <2> HIDE DEF p
  <2>2. Mul(c, p) \in Reduced /\ Mul(c, p).num >= 0
    BY <1>5, <2>1, MulType, MulSign
  <2>3. QED  BY <2>2 DEF p
<1>16. Mul(AdjustedClose(s, frame, d), v) = Whole(Close[s][d] * Volume)
  BY <1>5, <1>9, <1>12, <1>13
<1>17. QED  BY <1>8, <1>9, <1>14, <1>15, <1>16

----------------------------------------------------------------------------
(* Whatever window is read and in whatever order the actions were declared  *)
(* or corrected, adjusted closes go as the account of who holds a share     *)
(* does, and without dividends the volume keeps a day's turnover.           *)
THEOREM PricesGoAsHeld == ReferenceSpec => []AdjustedAsHeld
<1>1. ActionsInv => AdjustedAsHeld
  <2>1. SUFFICES ASSUME ActionsInv, NEW start \in Date, NEW end \in Date, NEW s \in Symbol
        PROVE  LET frame == read_prices(s, start, end)
                   wide  == wide_prices(Symbol, start, end)
                   price == [d \in frame |-> wide[d][s]]
                   turnover == [d \in frame |-> Mul(price[d], Whole(AdjustedVolume(s, frame, d)))]
               IN  /\ \A last, d \in frame :
                         (/\ last < d /\ \A e \in frame : e <= last \/ d <= e
                          /\ Unmixed(s, last, d) /\ Payable(s, last, d)) =>
                             Same(Mul(price[d], Whole(Close[s][last])),
                                  Mul(Mul(price[last], Whole(Close[s][d])), Growth(s, last, d)))
                   /\ (\A k \in ActionsOf(s) : k.action_type # "dividend") =>
                         \A d \in frame :
                             LET gap == Sub(turnover[d], Whole(Close[s][d] * Volume))
                             IN  Size(2 * gap.num) * price[d].den <= price[d].num * gap.den
    BY DEF AdjustedAsHeld
  <2> DEFINE frame == read_prices(s, start, end)
             wide == wide_prices(Symbol, start, end)
             price == [d \in frame |-> wide[d][s]]
             turnover == [d \in frame |-> Mul(price[d], Whole(AdjustedVolume(s, frame, d)))]
  <2>2. IsFrame(s, frame)
    BY ReferenceAssumption DEF IsFrame, read_prices
  <2>3. \A d \in frame : price[d] = AdjustedClose(s, frame, d)
    <3>1. SUFFICES ASSUME NEW d \in frame PROVE wide[d][s] = AdjustedClose(s, frame, d)
      OBVIOUS
    <3> DEFINE long == [t \in Symbol |-> prices(t, start, end)]
    <3>2. DOMAIN long[s] = frame /\ long[s][d] = AdjustedClose(s, frame, d)
      BY DEF prices
    <3>3. d \in UNION {DOMAIN long[t] : t \in Symbol}
      BY <3>2
    <3>4. wide = [e \in UNION {DOMAIN long[t] : t \in Symbol} |->
                    [t \in Symbol |-> IF e \in DOMAIN long[t] THEN long[t][e] ELSE NaN]]
      BY DEF wide_prices
    <3> HIDE DEF long, wide
    <3>5. wide[d][s] = long[s][d]
      BY <3>2, <3>3, <3>4
    <3>6. QED  BY <3>2, <3>5
  <2>4. \A d \in frame : turnover[d] = Mul(price[d], Whole(AdjustedVolume(s, frame, d)))
    OBVIOUS
  <2> HIDE DEF frame, wide, price, turnover
  <2>5. ASSUME NEW last \in frame, NEW d \in frame, last < d,
               \A e \in frame : e <= last \/ d <= e, Payable(s, last, d)
        PROVE  Same(Mul(price[d], Whole(Close[s][last])),
                    Mul(Mul(price[last], Whole(Close[s][d])), Growth(s, last, d)))
    <3>1. NextClose(frame, last, d)
      BY <2>5 DEF NextClose
    <3>2. Mul(price[d], Whole(Close[s][last]))
             = Mul(Mul(price[last], Whole(Close[s][d])), Growth(s, last, d))
      BY <2>1, <2>2, <2>3, <2>5, <3>1, CloseToClose
    <3>3. QED  BY <3>2 DEF Same
  <2>6. ASSUME \A k \in ActionsOf(s) : k.action_type # "dividend", NEW d \in frame
        PROVE  LET gap == Sub(turnover[d], Whole(Close[s][d] * Volume))
               IN  Size(2 * gap.num) * price[d].den <= price[d].num * gap.den
    <3>1. PICK v \in Reduced :
              /\ AdjustedVolume(s, frame, d) = Rounded(v.num, v.den)
              /\ Mul(AdjustedClose(s, frame, d), v) = Whole(Close[s][d] * Volume)
              /\ AdjustedClose(s, frame, d) \in Reduced
              /\ AdjustedClose(s, frame, d).num >= 0
      BY <2>1, <2>2, <2>6, TurnoverIs
    <3> DEFINE x == price[d]
    <3>2. x \in Reduced /\ x.num >= 0 /\ Mul(x, v) = Whole(Close[s][d] * Volume)
          /\ turnover[d] = Mul(x, Whole(Rounded(v.num, v.den)))
      BY <2>3, <2>4, <3>1
    <3> HIDE DEF x
    <3>3. LET gap == Sub(Mul(x, Whole(Rounded(v.num, v.den))), Mul(x, v))
          IN  Size(2 * gap.num) * x.den <= x.num * gap.den
      BY <3>2, TurnoverKept
    <3>4. QED  BY <3>2, <3>3 DEF x
  <2>7. QED
    BY <2>5, <2>6 DEF frame, wide, price, turnover
<1>2. QED  BY <1>1, ActionsAlways, PTL

----------------------------------------------------------------------------
(* The cache of the tools. *)

(* Each key has one entry. *)
Apart(d) == \A i, j \in 1..Len(d) : d[i].key = d[j].key => i = j

(* An entry of the cache c expires no later than its age allows. *)
Aged(c, d) ==
    \A i \in 1..Len(d) : d[i].expires_at <= d[i].value + MaxReading + ttl_seconds[c]

(* What holds of what a cache contains. *)
InOrder(c, d) == Len(d) <= max_entries[c] /\ Apart(d) /\ Aged(c, d)

CacheInv ==
    /\ CacheTypeOK
    /\ AnswersFresh
    /\ \A c \in Cache : InOrder(c, data[c])

(* The constants of one cache. *)
LEMMA CacheConstants ==
    \A c \in Cache : ttl_seconds[c] \in Nat /\ max_entries[c] \in Nat \ {0}
BY ToolCacheAssumption

(* The place of a key that is held. *)
LEMMA HeldPlace ==
    ASSUME NEW d \in Seq(EntryOf), NEW k \in Keys(d)
    PROVE  Held(d, k) \in 1..Len(d) /\ d[Held(d, k)].key = k
<1>1. DOMAIN d = 1..Len(d)
  OBVIOUS
<1>2. \E i \in DOMAIN d : d[i].key = k
  BY DEF Keys
<1>3. QED
  BY <1>1, <1>2 DEF Held

(* A sequence with one place taken out, place by place. *)
LEMMA Removed ==
    ASSUME NEW S, NEW d \in Seq(S), NEW h \in 1..Len(d)
    PROVE  /\ RemoveAt(d, h) \in Seq(S)
           /\ Len(RemoveAt(d, h)) = Len(d) - 1
           /\ \A i \in 1..(Len(d) - 1) :
                 RemoveAt(d, h)[i] = IF i < h THEN d[i] ELSE d[i + 1]
<1> DEFINE a == SubSeq(d, 1, h - 1)
           b == SubSeq(d, h + 1, Len(d))
<1>1. /\ a \in Seq(S) /\ Len(a) = h - 1
      /\ \A i \in 1..(h - 1) : a[i] = d[i]
  OBVIOUS
<1>2. /\ b \in Seq(S) /\ Len(b) = Len(d) - h
      /\ \A i \in 1..(Len(d) - h) : b[i] = d[h + i]
  OBVIOUS
<1> HIDE DEF a, b
<1>3. a \o b \in Seq(S) /\ Len(a \o b) = Len(d) - 1
  <2>1. a \o b \in Seq(S) /\ Len(a \o b) = Len(a) + Len(b)
    BY <1>1, <1>2, ConcatProperties
  <2>2. Len(a) + Len(b) = Len(d) - 1
    BY <1>1, <1>2
  <2>3. QED  BY <2>1, <2>2
<1>4. ASSUME NEW i \in 1..(Len(d) - 1)
      PROVE  (a \o b)[i] = IF i < h THEN d[i] ELSE d[i + 1]
  <2>1. CASE i < h
    <3>1. i \in 1..Len(a)
      BY <1>1, <2>1
    <3>2. (a \o b)[i] = a[i]
      BY <1>1, <1>2, <3>1
    <3>3. QED  BY <1>1, <2>1, <3>1, <3>2
  <2>2. CASE ~(i < h)
    <3>1. PICK q \in 1..Len(b) : q = i - Len(a)
      BY <1>1, <1>2, <2>2
    <3>2. (a \o b)[i] = b[q]
      BY <1>1, <1>2, <3>1
    <3>3. b[q] = d[h + q] /\ h + q = i + 1
      BY <1>1, <1>2, <3>1
    <3>4. QED  BY <2>2, <3>2, <3>3
  <2>3. QED  BY <2>1, <2>2
<1>5. QED
  BY <1>3, <1>4 DEF RemoveAt, a, b

(* Taking a key out leaves the others, with their times. *)
LEMMA WithoutKeeps ==
    ASSUME NEW c \in Cache, NEW d \in Seq(EntryOf), NEW k \in Question,
           Apart(d), Aged(c, d)
    PROVE  LET w == Without(d, k)
           IN  /\ w \in Seq(EntryOf)
               /\ Apart(w)
               /\ Aged(c, w)
               /\ Keys(w) = Keys(d) \ {k}
               /\ Len(w) = IF k \in Keys(d) THEN Len(d) - 1 ELSE Len(d)
<1> DEFINE w == Without(d, k)
<1>1. CASE k \notin Keys(d)
  BY <1>1 DEF Without
<1>2. CASE k \in Keys(d)
  <2> DEFINE h == Held(d, k)
  <2>1. h \in 1..Len(d) /\ d[h].key = k
    BY <1>2, HeldPlace
  <2> HIDE DEF h
  <2>2. w = RemoveAt(d, h)
    BY <1>2 DEF Without, h
  <2>3. /\ w \in Seq(EntryOf) /\ Len(w) = Len(d) - 1
        /\ \A i \in 1..(Len(d) - 1) : w[i] = IF i < h THEN d[i] ELSE d[i + 1]
    BY <2>1, <2>2, Removed
  <2> HIDE DEF w
  <2>4. Apart(w)
    <3>1. ASSUME NEW i \in 1..Len(w), NEW j \in 1..Len(w), w[i].key = w[j].key
          PROVE  i = j
      <4>1. PICK p \in 1..Len(d) : p = IF i < h THEN i ELSE i + 1
        BY <2>3
      <4>2. PICK q \in 1..Len(d) : q = IF j < h THEN j ELSE j + 1
        BY <2>3
      <4>3. w[i] = d[p] /\ w[j] = d[q]
        BY <2>3, <4>1, <4>2
      <4>4. p = q
        BY <3>1, <4>3 DEF Apart
      <4>5. QED  BY <2>1, <4>1, <4>2, <4>4
    <3>2. QED  BY <3>1 DEF Apart
  <2>5. Aged(c, w)
    <3>1. ASSUME NEW i \in 1..Len(w)
          PROVE  w[i].expires_at <= w[i].value + MaxReading + ttl_seconds[c]
      <4>1. PICK p \in 1..Len(d) : w[i] = d[p]
        BY <2>3
      <4>2. QED  BY <4>1 DEF Aged
    <3>2. QED  BY <3>1 DEF Aged
  <2>6. Keys(w) \subseteq Keys(d) \ {k}
    <3>1. ASSUME NEW i \in 1..Len(w)
          PROVE  w[i].key \in Keys(d) \ {k}
      <4>1. PICK p \in 1..Len(d) : w[i] = d[p] /\ p # h
        BY <2>1, <2>3
      <4>2. d[p].key # k
        BY <2>1, <4>1 DEF Apart
      <4>3. QED  BY <4>1, <4>2 DEF Keys
    <3>2. QED  BY <2>3, <3>1 DEF Keys
  <2>7. Keys(d) \ {k} \subseteq Keys(w)
    <3>1. ASSUME NEW p \in 1..Len(d), d[p].key # k
          PROVE  d[p].key \in Keys(w)
      <4>1. p # h
        BY <2>1, <3>1
      <4>2. PICK i \in 1..Len(w) : w[i] = d[p]
        <5>1. CASE p < h
          BY <2>1, <2>3, <5>1
        <5>2. CASE p > h
          <6>1. p - 1 \in 1..Len(w) /\ w[p - 1] = d[p]
            BY <2>1, <2>3, <5>2
          <6>2. QED  BY <6>1
        <5>3. QED  BY <2>1, <4>1, <5>1, <5>2
      <4>3. QED  BY <2>3, <4>2 DEF Keys
    <3>2. QED  BY <3>1 DEF Keys
  <2>8. QED  BY <1>2, <2>3, <2>4, <2>5, <2>6, <2>7 DEF w
<1>3. QED  BY <1>1, <1>2

(* An entry added at the end, with a key that is not held. *)
LEMMA AppendKeeps ==
    ASSUME NEW c \in Cache, NEW w \in Seq(EntryOf), NEW e \in EntryOf,
           Apart(w), Aged(c, w),
           e.key \notin Keys(w),
           e.expires_at <= e.value + MaxReading + ttl_seconds[c]
    PROVE  LET put == Append(w, e)
           IN  /\ put \in Seq(EntryOf) /\ Len(put) = Len(w) + 1
               /\ Apart(put)
               /\ Aged(c, put)
               /\ Keys(put) = Keys(w) \union {e.key}
<1> DEFINE put == Append(w, e)
<1>1. /\ put \in Seq(EntryOf) /\ Len(put) = Len(w) + 1 /\ put[Len(w) + 1] = e
      /\ \A i \in 1..Len(w) : put[i] = w[i]
  OBVIOUS
<1>2. \A i \in 1..Len(w) : w[i].key # e.key
  BY DEF Keys
<1>3. \A i \in 1..Len(put) : i \in 1..Len(w) \/ i = Len(w) + 1
  BY <1>1
<1> HIDE DEF put
<1>4. Apart(put)
  BY <1>1, <1>2, <1>3 DEF Apart
<1>5. Aged(c, put)
  BY <1>1, <1>3 DEF Aged
<1>6. Keys(put) = Keys(w) \union {e.key}
  <2>1. DOMAIN put = 1..Len(put) /\ DOMAIN w = 1..Len(w)
    BY <1>1
  <2>2. Keys(put) \subseteq Keys(w) \union {e.key}
    BY <1>1, <1>3, <2>1 DEF Keys
  <2>3. Keys(w) \subseteq Keys(put)
    <3>1. \A i \in 1..Len(w) : i \in 1..Len(put) /\ put[i].key = w[i].key
      BY <1>1
    <3>2. QED  BY <2>1, <3>1 DEF Keys
  <2>4. e.key \in Keys(put)
    <3>1. Len(w) + 1 \in 1..Len(put) /\ put[Len(w) + 1].key = e.key
      BY <1>1
    <3>2. QED  BY <2>1, <3>1 DEF Keys
  <2>5. QED  BY <2>2, <2>3, <2>4
<1>7. QED  BY <1>1, <1>4, <1>5, <1>6 DEF put

(* A key less, where the cache was full and the set key not in it. *)
MadeRoom(c, d, left, k) ==
    /\ k \notin Keys(d)
    /\ Len(d) = max_entries[c]
    /\ \E g \in Keys(d) : Keys(d) \ Keys(left) = {g}

(* What set does to a cache in order: it stays in order and within its     *)
(* size, holds the key, and keeps the others but for one that makes room.  *)
LEMMA SetKeeps ==
    ASSUME NEW c \in Cache, NEW d \in Seq(EntryOf),
           NEW k \in Question, NEW now \in Nat, NEW value \in Nat,
           InOrder(c, d), now <= value + MaxReading
    PROVE  LET left == AfterSet(c, d, k, now, value)
           IN  /\ left \in Seq(EntryOf)
               /\ InOrder(c, left)
               /\ k \in Keys(left)
               /\ Keys(d) \subseteq Keys(left) \/ MadeRoom(c, d, left, k)
<1> DEFINE left == AfterSet(c, d, k, now, value)
           w == Without(d, k)
           e == Stamped(c, k, now, value)
           put == Append(w, e)
           m == max_entries[c]
<1>0. ttl_seconds[c] \in Nat /\ m \in Nat \ {0} /\ MaxReading \in Nat
  BY CacheConstants, ToolCacheAssumption
<1>1. e \in EntryOf /\ e.key = k /\ e.expires_at <= e.value + MaxReading + ttl_seconds[c]
  BY <1>0 DEF EntryOf, Stamped
<1>2. /\ w \in Seq(EntryOf) /\ Apart(w) /\ Aged(c, w)
      /\ Keys(w) = Keys(d) \ {k}
      /\ Len(w) = IF k \in Keys(d) THEN Len(d) - 1 ELSE Len(d)
  BY WithoutKeeps DEF InOrder
<1> HIDE DEF w, e
<1>3. /\ put \in Seq(EntryOf) /\ Len(put) = Len(w) + 1
      /\ Apart(put) /\ Aged(c, put)
      /\ Keys(put) = Keys(d) \union {k}
  BY <1>1, <1>2, AppendKeeps
<1>4. left = IF Len(put) > m THEN Tail(put) ELSE put
  BY DEF AfterSet, w, e
<1>5. put[Len(put)].key = k
  BY <1>1, <1>2
<1>6. Len(d) <= m /\ Len(d) \in Nat
  BY DEF InOrder
<1> HIDE DEF put, left, m
<1>7. CASE Len(put) <= m
  <2>1. left = put
    BY <1>0, <1>3, <1>4, <1>7
  <2>2. InOrder(c, left)
    BY <1>3, <1>7, <2>1 DEF InOrder, m
  <2>3. QED  BY <1>3, <2>1, <2>2 DEF left
<1>8. CASE Len(put) > m
  <2>1. k \notin Keys(d) /\ Len(d) = m /\ Len(put) = m + 1
    BY <1>0, <1>2, <1>3, <1>6, <1>8
  <2>2. /\ left = Tail(put) /\ left \in Seq(EntryOf) /\ Len(left) = m
        /\ \A i \in 1..m : left[i] = put[i + 1]
    BY <1>0, <1>3, <1>4, <1>8, <2>1
  <2>3. /\ DOMAIN left = 1..m /\ DOMAIN put = 1..(m + 1)
        /\ \A i \in 1..m : i + 1 \in 1..(m + 1) /\ left[i] = put[i + 1]
    BY <1>0, <1>3, <2>1, <2>2
  <2>4. Apart(left)
    <3>1. ASSUME NEW i \in 1..m, NEW j \in 1..m, left[i].key = left[j].key
          PROVE  i = j
      <4>1. i + 1 = j + 1
        BY <1>3, <2>1, <2>3, <3>1 DEF Apart
      <4>2. QED  BY <1>0, <4>1
    <3>2. QED  BY <2>2, <3>1 DEF Apart
  <2>5. Aged(c, left)
    BY <1>3, <2>1, <2>2, <2>3 DEF Aged
  <2>6. InOrder(c, left)
    BY <1>0, <2>2, <2>4, <2>5 DEF InOrder, m
  <2>7. k \in Keys(left)
    <3>1. m \in 1..m /\ left[m].key = k
      BY <1>0, <1>5, <2>1, <2>2
    <3>2. QED  BY <2>3, <3>1 DEF Keys
  <2> DEFINE g == put[1].key
  <2>8. g \in Keys(put) /\ g \notin Keys(left)
    <3>1. 1 \in 1..(m + 1)
      BY <1>0
    <3>2. ASSUME NEW i \in 1..m, left[i].key = g PROVE FALSE
      <4>1. i + 1 = 1
        BY <1>3, <2>1, <2>3, <3>1, <3>2 DEF Apart
      <4>2. QED  BY <1>0, <4>1
    <3>3. QED  BY <2>3, <3>1, <3>2 DEF Keys
  <2>9. Keys(put) \ Keys(left) \subseteq {g}
    <3>1. ASSUME NEW i \in 1..(m + 1), i # 1 PROVE put[i].key \in Keys(left)
      <4>1. i - 1 \in 1..m /\ left[i - 1] = put[i]
        BY <1>0, <2>2, <3>1
      <4>2. QED  BY <2>3, <4>1 DEF Keys
    <3>2. QED  BY <2>3, <3>1 DEF Keys
  <2>10. g \in Keys(d) /\ Keys(d) \ Keys(left) = {g}
    BY <1>3, <2>7, <2>8, <2>9
  <2>11. MadeRoom(c, d, left, k)
    BY <2>1, <2>10 DEF MadeRoom, m
  <2>12. QED  BY <2>2, <2>6, <2>7, <2>11 DEF left
<1>9. QED
  BY <1>0, <1>3, <1>7, <1>8

(* A cache of the shape Chosen picks is one of the two, and the one whose  *)
(* time to live the age of an answer is measured by.                       *)
LEMMA ChosenIsCache ==
    \A c \in Cache : /\ Chosen(c) \in Cache
                     /\ Chosen(c) = IF data[c] = <<>> THEN Shared ELSE c
BY DEF Chosen, Cache

(* What OneMakesRoom says of one cache. *)
Room(c) ==
    LET gone == Keys(data[c]) \ Keys(data'[c])
        come == Keys(data'[c]) \ Keys(data[c])
    IN  data'[c] # <<>> =>
          \A k \in gone :
             /\ gone = {k}
             /\ IF come = {} THEN Expired(data[c], k)
                             ELSE Len(data[c]) = max_entries[c]

(* The facts about one cache that a call which changes only it must supply. *)
Renewed(c) ==
    /\ data'[c] \in Seq(EntryOf)
    /\ data' = [data EXCEPT ![c] = data'[c]]
    /\ InOrder(c, data'[c])
    /\ Room(c)

(* What get leaves of a cache when it finds no answer. *)
LEMMA MissDrops ==
    ASSUME CacheInv, NEW s \in Cache, NEW k \in Question, ~Hit(data[s], k)
    PROVE  LET w == AfterGet(data[s], k)
           IN  /\ w \in Seq(EntryOf) /\ InOrder(s, w)
               /\ Keys(w) = Keys(data[s]) \ {k}
               /\ Len(w) = IF k \in Keys(data[s]) THEN Len(data[s]) - 1 ELSE Len(data[s])
               /\ k \in Keys(data[s]) => Expired(data[s], k)
<1> DEFINE d == data[s]
           w == Without(d, k)
<1>1. d \in Seq(EntryOf) /\ InOrder(s, d)
  BY DEF CacheInv, CacheTypeOK
<1>2. /\ w \in Seq(EntryOf) /\ Apart(w) /\ Aged(s, w) /\ Keys(w) = Keys(d) \ {k}
      /\ Len(w) = IF k \in Keys(d) THEN Len(d) - 1 ELSE Len(d)
  BY <1>1, WithoutKeeps DEF InOrder
<1>3. AfterGet(d, k) = w /\ (k \in Keys(d) => Expired(d, k))
  BY DEF AfterGet, Hit
<1> HIDE DEF d, w
<1>4. InOrder(s, w)
  <2>1. max_entries[s] \in Nat /\ Len(d) \in Nat /\ Len(d) <= max_entries[s]
    BY <1>1, CacheConstants DEF InOrder
  <2>2. Len(w) <= max_entries[s]
    BY <1>2, <2>1
  <2>3. QED  BY <1>2, <2>2 DEF InOrder
<1>5. QED  BY <1>2, <1>3, <1>4 DEF d

(* A hit keeps every key and moves one to the end. *)
LEMMA HitRenews ==
    ASSUME CacheInv, NEW c \in Cache, NEW k \in Question, CallHit(c, k)
    PROVE  /\ Renewed(Chosen(c)) /\ AnswersFresh'
           /\ answer' \in [asked : Cache, empty : BOOLEAN, at : Nat, value : Nat]
<1> DEFINE s == Chosen(c)
           d == data[s]
           w == Without(d, k)
           e == d[Held(d, k)]
<1>1. s \in Cache /\ s = IF data[c] = <<>> THEN Shared ELSE c
  BY ChosenIsCache
<1> HIDE DEF s
<1>2. /\ d \in Seq(EntryOf) /\ calls \in Nat /\ clock \in Nat
      /\ InOrder(s, d)
      /\ data \in [Cache -> Seq(EntryOf)]
  BY <1>1 DEF CacheInv, CacheTypeOK
<1>3. /\ k \in Keys(d) /\ clock <= e.expires_at /\ e \in EntryOf /\ e.key = k
      /\ data' = [data EXCEPT ![s] = Append(w, e)]
      /\ answer' = [asked |-> c, empty |-> data[c] = <<>>, at |-> clock, value |-> e.value]
  <2>1. k \in Keys(d) /\ ~(e.expires_at < clock)
    BY DEF CallHit, Hit, Expired, s
  <2>2. Held(d, k) \in 1..Len(d) /\ e \in EntryOf /\ e.key = k
    BY <1>2, <2>1, HeldPlace
  <2>3. clock <= e.expires_at
    BY <1>2, <2>1, <2>2 DEF EntryOf
  <2>4. QED  BY <2>1, <2>2, <2>3 DEF CallHit, AfterGet, Answer, s
<1>4. e.expires_at <= e.value + MaxReading + ttl_seconds[s]
  BY <1>2, <1>3, HeldPlace DEF InOrder, Aged
<1>5. /\ w \in Seq(EntryOf) /\ Apart(w) /\ Aged(s, w)
      /\ Keys(w) = Keys(d) \ {k} /\ Len(w) = Len(d) - 1
  BY <1>1, <1>2, <1>3, WithoutKeeps DEF InOrder
<1> HIDE DEF w, e
<1>6. /\ Append(w, e) \in Seq(EntryOf) /\ Len(Append(w, e)) = Len(w) + 1
      /\ Apart(Append(w, e)) /\ Aged(s, Append(w, e))
      /\ Keys(Append(w, e)) = Keys(w) \union {k}
  <2>1. e.key \notin Keys(w)
    BY <1>3, <1>5
  <2>2. QED
    BY <1>1, <1>3, <1>4, <1>5, <2>1, AppendKeeps
<1>7. data'[s] = Append(w, e)
  BY <1>1, <1>2, <1>3
<1>8. InOrder(s, Append(w, e))
  BY <1>2, <1>5, <1>6 DEF InOrder
<1>9. Room(s)
  BY <1>5, <1>6, <1>7 DEF Room
<1>10. AnswersFresh'
  <2>1. answer'.at = clock /\ answer'.value = e.value
        /\ s = IF answer'.empty THEN Shared ELSE answer'.asked
    BY <1>1, <1>3
  <2>2. e.expires_at \in Nat /\ e.value \in Nat /\ ttl_seconds[s] \in Nat /\ MaxReading \in Nat
    BY <1>1, <1>3, CacheConstants, ToolCacheAssumption DEF EntryOf
  <2>3. clock <= e.value + MaxReading + ttl_seconds[s]
    BY <1>2, <1>3, <1>4, <2>2
  <2>4. QED  BY <2>1, <2>3 DEF AnswersFresh
<1>11. Renewed(s)
  BY <1>3, <1>6, <1>7, <1>8, <1>9 DEF Renewed
<1>12. e.value \in Nat
  BY <1>3 DEF EntryOf
<1>13. answer' \in [asked : Cache, empty : BOOLEAN, at : Nat, value : Nat]
  BY <1>2, <1>3, <1>12
<1>14. QED  BY <1>10, <1>11, <1>13 DEF s

(* A miss drops the key's own entry, then sets it. *)
LEMMA MissRenews ==
    ASSUME CacheInv, NEW c \in Cache, NEW k \in Question, NEW reading \in 0..MaxReading,
           CallMiss(c, k, reading)
    PROVE  Renewed(Chosen(c)) /\ AnswersFresh'
<1> DEFINE s == Chosen(c)
           d == data[s]
           w == AfterGet(d, k)
           left == AfterSet(s, w, k, clock', clock)
<1>1. s \in Cache /\ s = IF data[c] = <<>> THEN Shared ELSE c
  BY ChosenIsCache
<1>2. ~Hit(d, k)
  BY DEF CallMiss
<1> HIDE DEF s
<1>3. /\ d \in Seq(EntryOf) /\ calls \in Nat /\ clock \in Nat
      /\ InOrder(s, d)
      /\ data \in [Cache -> Seq(EntryOf)]
  BY <1>1 DEF CacheInv, CacheTypeOK
<1>4. /\ clock' = clock + reading /\ clock' \in Nat /\ clock' <= clock + MaxReading
      /\ data' = [data EXCEPT ![s] = left]
      /\ answer' = [asked |-> c, empty |-> data[c] = <<>>, at |-> clock', value |-> clock]
  BY <1>3, ToolCacheAssumption DEF CallMiss, Answer, s
<1>5. /\ w \in Seq(EntryOf) /\ InOrder(s, w) /\ Keys(w) = Keys(d) \ {k}
      /\ Len(w) = IF k \in Keys(d) THEN Len(d) - 1 ELSE Len(d)
  BY <1>1, <1>2, MissDrops
<1> HIDE DEF w
<1>6. /\ left \in Seq(EntryOf) /\ InOrder(s, left) /\ k \in Keys(left)
      /\ Keys(w) \subseteq Keys(left) \/ MadeRoom(s, w, left, k)
  BY <1>1, <1>3, <1>4, <1>5, SetKeeps
<1> HIDE DEF left
<1>7. data'[s] = left
  BY <1>1, <1>3, <1>4
<1>8. Room(s)
  <2>1. CASE Keys(w) \subseteq Keys(left)
    <3>1. Keys(d) \ Keys(left) = {}
      BY <1>5, <1>6, <2>1
    <3>2. QED  BY <1>7, <3>1 DEF Room
  <2>2. CASE MadeRoom(s, w, left, k)
    <3>1. Len(w) = max_entries[s] /\ \E g \in Keys(w) : Keys(w) \ Keys(left) = {g}
      BY <2>2 DEF MadeRoom
    <3>2. k \notin Keys(d) /\ Len(d) = max_entries[s] /\ Keys(w) = Keys(d)
      <4>1. Len(d) <= max_entries[s] /\ Len(d) \in Nat /\ max_entries[s] \in Nat
        BY <1>1, <1>3, CacheConstants DEF InOrder
      <4>2. k \notin Keys(d)
        BY <1>5, <3>1, <4>1
      <4>3. QED  BY <1>5, <3>1, <4>2
    <3>3. k \in Keys(left) \ Keys(d)
      BY <1>6, <3>2
    <3>4. QED  BY <1>7, <3>1, <3>2, <3>3 DEF Room
  <2>3. QED  BY <1>6, <2>1, <2>2
<1>9. AnswersFresh'
  <2>1. /\ answer'.at = clock' /\ answer'.value = clock
        /\ s = IF answer'.empty THEN Shared ELSE answer'.asked
    BY <1>1, <1>4
  <2>2. clock' <= clock + MaxReading + ttl_seconds[s]
    BY <1>1, <1>3, <1>4, CacheConstants, ToolCacheAssumption
  <2>3. QED  BY <2>1, <2>2 DEF AnswersFresh
<1>10. Renewed(s)
  BY <1>4, <1>6, <1>7, <1>8 DEF Renewed
<1>11. QED  BY <1>9, <1>10 DEF s

(* A call that raises has dropped the key's own entry. *)
LEMMA RaiseRenews ==
    ASSUME CacheInv, NEW c \in Cache, NEW k \in Question, NEW reading \in 0..MaxReading,
           CallRaises(c, k, reading)
    PROVE  Renewed(Chosen(c))
<1> DEFINE s == Chosen(c)
           d == data[s]
           w == AfterGet(d, k)
<1>1. s \in Cache /\ data \in [Cache -> Seq(EntryOf)]
  BY ChosenIsCache DEF CacheInv, CacheTypeOK
<1>2. ~Hit(d, k) /\ data' = [data EXCEPT ![s] = w]
  BY DEF CallRaises
<1> HIDE DEF s
<1>3. /\ w \in Seq(EntryOf) /\ InOrder(s, w) /\ Keys(w) = Keys(d) \ {k}
      /\ k \in Keys(d) => Expired(d, k)
  BY <1>1, <1>2, MissDrops
<1> HIDE DEF w
<1>4. data'[s] = w
  BY <1>1, <1>2
<1>5. Room(s)
  BY <1>3, <1>4 DEF Room
<1>6. QED  BY <1>2, <1>3, <1>4, <1>5 DEF Renewed, s

(* So does the caller who fills a cache of its own. *)
LEMMA FillRenews ==
    ASSUME CacheInv, NEW k \in Question, set(k)
    PROVE  Renewed(Passed)
<1> DEFINE d == data[Passed]
           left == AfterSet(Passed, d, k, clock, clock)
<1>1. /\ d \in Seq(EntryOf) /\ clock \in Nat /\ InOrder(Passed, d)
      /\ data \in [Cache -> Seq(EntryOf)] /\ Passed \in Cache
  BY DEF CacheInv, CacheTypeOK, Cache
<1>2. /\ left \in Seq(EntryOf) /\ InOrder(Passed, left) /\ k \in Keys(left)
      /\ Keys(d) \subseteq Keys(left) \/ MadeRoom(Passed, d, left, k)
  <2>1. clock <= clock + MaxReading
    BY <1>1, ToolCacheAssumption
  <2>2. QED  BY <1>1, <2>1, SetKeeps
<1>3. data' = [data EXCEPT ![Passed] = left]
  BY DEF set
<1> HIDE DEF left
<1>4. data'[Passed] = left
  BY <1>1, <1>3
<1>5. Room(Passed)
  <2>1. CASE Keys(d) \subseteq Keys(left)
    BY <1>4, <2>1 DEF Room
  <2>2. CASE MadeRoom(Passed, d, left, k)
    <3>1. k \in Keys(left) \ Keys(d)
      BY <1>2, <2>2 DEF MadeRoom
    <3>2. QED  BY <1>4, <2>2, <3>1 DEF Room, MadeRoom
  <2>3. QED  BY <1>2, <2>1, <2>2
<1>6. QED  BY <1>2, <1>3, <1>4, <1>5 DEF Renewed

(* A call that renews one cache leaves the other as it was. *)
LEMMA RenewedInvariant ==
    ASSUME CacheInv, NEW c \in Cache, Renewed(c), clock' \in Nat, calls' \in Nat,
           answer' \in [asked : Cache, empty : BOOLEAN, at : Nat, value : Nat], AnswersFresh'
    PROVE  CacheInv' /\ \A s \in Cache : Room(s)
<1>1. data \in [Cache -> Seq(EntryOf)]
  BY DEF CacheInv, CacheTypeOK
<1>2. /\ \A s \in Cache : s # c => data'[s] = data[s]
      /\ data' \in [Cache -> Seq(EntryOf)]
  <2> DEFINE full == data'[c]
  <2>1. full \in Seq(EntryOf) /\ data' = [data EXCEPT ![c] = full]
    BY DEF Renewed
  <2> HIDE DEF full
  <2>2. QED  BY <1>1, <2>1
<1>3. \A s \in Cache : InOrder(s, data'[s])
  BY <1>2 DEF Renewed, CacheInv
<1>4. \A s \in Cache : Room(s)
  BY <1>2 DEF Renewed, Room
<1>5. QED  BY <1>2, <1>3, <1>4 DEF CacheInv, CacheTypeOK

(* What OneMakesRoom says of a step. *)
Eviction == \A c \in Cache : Room(c)

LEMMA Steps ==
    ASSUME CacheInv, [CacheNext]_cacheVars
    PROVE  CacheInv' /\ (UNCHANGED cacheVars \/ Eviction)
<1>0. /\ clock \in Nat /\ calls \in Nat /\ MaxReading \in Nat
      /\ answer \in [asked : Cache, empty : BOOLEAN, at : Nat, value : Nat]
  BY ToolCacheAssumption DEF CacheInv, CacheTypeOK
<1>1. ASSUME NEW c \in Cache, NEW k \in Question, CallHit(c, k) PROVE CacheInv' /\ Eviction
  <2>1. /\ Renewed(Chosen(c)) /\ AnswersFresh' /\ Chosen(c) \in Cache
        /\ answer' \in [asked : Cache, empty : BOOLEAN, at : Nat, value : Nat]
    BY <1>1, HitRenews, ChosenIsCache
  <2>2. calls' \in Nat /\ clock' \in Nat
    BY <1>0, <1>1 DEF CallHit, Called
  <2>3. QED  BY <2>1, <2>2, RenewedInvariant DEF Eviction
<1>2. ASSUME NEW c \in Cache, NEW k \in Question, NEW reading \in 0..MaxReading,
             CallMiss(c, k, reading)
      PROVE  CacheInv' /\ Eviction
  <2>1. Renewed(Chosen(c)) /\ AnswersFresh' /\ Chosen(c) \in Cache
    BY <1>2, MissRenews, ChosenIsCache
  <2>2. /\ calls' \in Nat /\ clock' \in Nat
        /\ answer' \in [asked : Cache, empty : BOOLEAN, at : Nat, value : Nat]
    BY <1>0, <1>2 DEF CallMiss, Called, Answer
  <2>3. QED  BY <2>1, <2>2, RenewedInvariant DEF Eviction
<1>3. ASSUME NEW c \in Cache, NEW k \in Question, NEW reading \in 0..MaxReading,
             CallRaises(c, k, reading)
      PROVE  CacheInv' /\ Eviction
  <2>1. Renewed(Chosen(c)) /\ Chosen(c) \in Cache
    BY <1>3, RaiseRenews, ChosenIsCache
  <2>2. calls' \in Nat /\ clock' \in Nat /\ answer' = answer
    BY <1>0, <1>3 DEF CallRaises, Called
  <2>3. AnswersFresh'
    BY <2>2 DEF CacheInv, AnswersFresh
  <2>4. QED  BY <1>0, <2>1, <2>2, <2>3, RenewedInvariant DEF Eviction
<1>4. ASSUME NEW k \in Question, set(k) PROVE CacheInv' /\ Eviction
  <2>1. Renewed(Passed) /\ Passed \in Cache
    BY <1>4, FillRenews DEF Cache
  <2>2. calls' \in Nat /\ clock' = clock /\ answer' = answer
    BY <1>0, <1>4 DEF set, Called
  <2>3. AnswersFresh'
    BY <2>2 DEF CacheInv, AnswersFresh
  <2>4. QED  BY <1>0, <2>1, <2>2, <2>3, RenewedInvariant DEF Eviction
<1>5. ASSUME NEW c \in Cache, clear(c) PROVE CacheInv' /\ Eviction
  <2>1. /\ data \in [Cache -> Seq(EntryOf)]
        /\ data' = [data EXCEPT ![c] = <<>>]
        /\ UNCHANGED <<clock, calls, answer>>
    BY <1>5 DEF clear, CacheInv, CacheTypeOK
  <2>2. data'[c] = <<>> /\ data' \in [Cache -> Seq(EntryOf)]
    BY <2>1
  <2>3. AnswersFresh'
    BY <2>1 DEF CacheInv, AnswersFresh
  <2>4. InOrder(c, data'[c])
    <3>1. Len(data'[c]) = 0 /\ 0 <= max_entries[c]
      BY <2>2, CacheConstants
    <3>2. QED  BY <3>1 DEF InOrder, Apart, Aged
  <2>5. Renewed(c)
    BY <2>1, <2>2, <2>4 DEF Renewed, Room
  <2>6. QED  BY <1>0, <2>1, <2>3, <2>5, RenewedInvariant DEF Eviction
<1>6. CASE Tick
  <2>1. clock' \in Nat /\ UNCHANGED <<data, calls, answer>>
    BY <1>0, <1>6 DEF Tick
  <2>2. CacheInv'
    BY <2>1 DEF CacheInv, CacheTypeOK, AnswersFresh
  <2>3. QED  BY <2>1, <2>2 DEF Eviction, Room
<1>7. CASE UNCHANGED cacheVars
  BY <1>7 DEF cacheVars, CacheInv, CacheTypeOK, AnswersFresh
<1>8. QED  BY <1>1, <1>2, <1>3, <1>4, <1>5, <1>6, <1>7 DEF CacheNext

(* The invariant: every cache in order, its entries aged, answers fresh. *)
THEOREM CacheInvariant == CacheSpec => []CacheInv
<1>1. CacheInit => CacheInv
  <2> SUFFICES ASSUME CacheInit PROVE CacheInv
    OBVIOUS
  <2>1. CacheTypeOK /\ AnswersFresh
    BY CacheConstants, ToolCacheAssumption DEF CacheInit, CacheTypeOK, AnswersFresh, Cache
  <2>2. ASSUME NEW c \in Cache PROVE InOrder(c, data[c])
    <3>1. Len(data[c]) = 0 /\ 0 <= max_entries[c]
      BY CacheConstants DEF CacheInit
    <3>2. QED  BY <3>1 DEF InOrder, Apart, Aged
  <2>3. QED  BY <2>1, <2>2 DEF CacheInv
<1>2. CacheInv /\ [CacheNext]_cacheVars => CacheInv'
  BY Steps
<1>3. QED  BY <1>1, <1>2, PTL DEF CacheSpec

(* TTLCache.set: never more than max_entries entries, nor two of one key,  *)
(* however gets, sets and clears of any number of keys follow each other.  *)
THEOREM StaysBounded == CacheSpec => []Bounded
<1>1. CacheInv => Bounded
  <2>1. SUFFICES ASSUME CacheInv, NEW c \in Cache
                 PROVE  /\ Len(data[c]) <= max_entries[c]
                        /\ \A i, j \in DOMAIN data[c] :
                              data[c][i].key = data[c][j].key => i = j
    BY DEF Bounded
  <2>2. data[c] \in Seq(EntryOf) /\ InOrder(c, data[c])
    BY <2>1 DEF CacheInv, CacheTypeOK
  <2>3. DOMAIN data[c] = 1..Len(data[c])
    BY <2>2
  <2>4. QED  BY <2>2, <2>3 DEF InOrder, Apart
<1>2. QED  BY <1>1, CacheInvariant, PTL

(* get_prices, get_universe: no answer is from data replaced longer ago    *)
(* than it takes to compute and an entry lives in the cache that was       *)
(* passed, or in the shared one where that was empty.                      *)
THEOREM AnswersAreFresh == CacheSpec => []AnswersFresh
<1>1. CacheInv => AnswersFresh
  BY DEF CacheInv
<1>2. QED  BY <1>1, CacheInvariant, PTL

(* TTLCache.get and set: a pair goes when it has expired or, one for one,  *)
(* when a new key comes into a full cache.                                 *)
THEOREM OnlyOneMakesRoom == CacheSpec => OneMakesRoom
<1>1. CacheInv /\ [CacheNext]_cacheVars => [Eviction]_cacheVars
  BY Steps
<1>2. QED  BY <1>1, CacheInvariant, PTL DEF CacheSpec, OneMakesRoom, Eviction, Room
==============================================================================
