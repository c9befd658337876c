------------------------------ MODULE DataSync ------------------------------
(***************************************************************************)
(* oq_data: the ingestion of one daily dataset of the exchange (equity and *)
(* F&O bhavcopies, delivery, FII/DII flows, announcements) by processes    *)
(* that run "oq sync": sync_range downloads each weekday of a range        *)
(* through a cache of raw files, the CLI downloads it again out of the     *)
(* cache and writes it into the Parquet file of its year.  A script may    *)
(* also refresh one day past the cache.                                    *)
(*                                                                         *)
(* The five datasets have the same code, each a copy of its own, but for   *)
(* three things: equity replaces whole days (write_eod), the others rows   *)
(* with the same key (write_partitioned); the flows' URL does not name the *)
(* day; and a page that is no JSON may pass for announcements without      *)
(* rows.  An action stands for the copies of all five.                     *)
(*                                                                         *)
(* A day is a number; the exchange publishes it once and may revise it.  A *)
(* raw file is junk (an error page, or a file that was opened to be        *)
(* written and not filled) or the publication it holds.  A row is its      *)
(* date, its key, and the publication and line it came from; a publication *)
(* may have several rows with one key.                                     *)
(***************************************************************************)
EXTENDS Naturals, Sequences

CONSTANTS
    Process,     \* the processes that sync
    Span,        \* the days each process is told to sync: first and last
    Day,         \* the days there are, a range of numbers
    Weekend,     \* Saturdays and Sundays
    YearOf,      \* the year of each day
    Key,         \* what tells apart the rows of a day
    Content,     \* the keys of the rows of each version of a day, line by line
    Scenario     \* a dataset, the processes that sync it, the days scripts may
                 \* refresh, what a sync does about a day that is missing, and
                 \* what may go wrong: "fetch", "page", "crash"

Year == {YearOf[d] : d \in Day}
Version == DOMAIN Content

ASSUME DataAssumption ==
    /\ Day \subseteq Nat /\ \A d, e \in Day : d..e \subseteq Day
    /\ Weekend \subseteq Day
    /\ Content \in Seq(Seq(Key))
    /\ DOMAIN YearOf = Day
    /\ Span \in [Process -> [first : Day, last : Day]]
    /\ Scenario \subseteq
           [dataset : {"equity", "fno", "delivery", "flows", "announcements"},
            syncing : SUBSET Process, refreshing : SUBSET (Day \ Weekend),
            on_missing : {"skip", "raise"}, faults : SUBSET {"fetch", "page", "crash"}]

VARIABLES
    scenario, \* which stays
    archive,  \* what the exchange published of each day: the version, or 0
    cache,    \* the raw file of each day
    part,     \* the Parquet file of each year: readable or torn, and its rows
    job,      \* what each process is doing
    stored,   \* history: the days that were written
    exposed   \* history: of these, the days last written while another process
              \* had read the year's file and was still to write it

vars == <<scenario, archive, cache, part, job, stored, exposed>>

dataset == scenario.dataset

Absent == [state |-> "absent", about |-> 0, version |-> 0]
Junk == [state |-> "junk", about |-> 0, version |-> 0]
Good(d, v) == [state |-> "good", about |-> d, version |-> v]

Row == [date : Day, key : Key, line : Nat, about : Day, version : Version]

Idle == [at |-> "idle", cur |-> 0, last |-> 0, use_cache |-> TRUE, blob |-> Absent, rows |-> {}]

Init ==
    /\ scenario \in Scenario
    /\ archive = [d \in Day |-> 0]
    /\ cache = [d \in Day |-> Absent]
    /\ part = [y \in Year |-> [readable |-> TRUE, rows |-> {}]]
    /\ job = [p \in Process |-> Idle]
    /\ stored = {}
    /\ exposed = {}

----------------------------------------------------------------------------
(* The exchange. *)

Published == {d \in Day : archive[d] > 0}

(* What it answers to the URL of a day: the flows' is the same every day,  *)
(* and the answer is about the last day published.                         *)
Answers(when) ==
    LET asked == IF dataset = "flows"
                 THEN {d \in Published : \A e \in Published : e <= d}
                 ELSE Published \intersect {when}
    IN  {Good(d, archive[d]) : d \in asked}

Publish(d) ==
    /\ d \notin Weekend
    /\ archive[d] + 1 \in Version
    /\ archive' = [archive EXCEPT ![d] = @ + 1]
    /\ UNCHANGED <<scenario, cache, part, job, stored, exposed>>

----------------------------------------------------------------------------
(* The files. *)

(* parse_*_blob: every row gets the date of the day that was asked for. *)
Parsed(blob, when) ==
    LET keys == Content[blob.version]
    IN  {[date |-> when, key |-> keys[i], line |-> i, about |-> blob.about, version |-> blob.version] :
            i \in DOMAIN keys}

(* Seeded fault: the day that is written again is not taken out. *)
WithDayTwice(existing, chunk) == existing \union chunk

(* write_eod: the days of the new rows replace the stored ones. *)
WithDay(existing, chunk) ==
    {r \in existing : \A new \in chunk : new.date # r.date} \union chunk

(* Seeded fault: the key columns without the date. *)
WithKeysAnyDay(existing, chunk) ==
    {r \in existing : \A new \in chunk : new.key # r.key} \union chunk

(* Seeded fault: the anti-join is left out. *)
WithKeysTwice(existing, chunk) == existing \union chunk

(* write_partitioned: stored rows with the keys of new ones go, and all the *)
(* new ones come.                                                           *)
WithKeys(existing, chunk) ==
    {r \in existing : \A new \in chunk : <<new.date, new.key>> # <<r.date, r.key>>} \union chunk

Combined(existing, chunk) ==
    IF dataset = "equity" THEN WithDay(existing, chunk) ELSE WithKeys(existing, chunk)

----------------------------------------------------------------------------
(* The processes. *)

Step(p, from, to) ==
    /\ job[p].at = from
    /\ job' = [job EXCEPT ![p].at = to]

(* The process goes on with the next day, or ends with an exception. *)
NextDay(p) ==
    job' = [job EXCEPT ![p] =
               [Idle EXCEPT !.at = "day", !.cur = job[p].cur + 1, !.last = job[p].last]]
Abort(p) == job' = [job EXCEPT ![p] = Idle]

(* What follows a day: sync_range goes on, a refresh ends. *)
Onward(p) == IF job[p].use_cache THEN NextDay(p) ELSE Abort(p)

(* What follows an exception of a download: on_missing says whether         *)
(* sync_range goes on; a refresh ends.                                      *)
Unavailable(p) == IF scenario.on_missing = "raise" THEN Abort(p) ELSE Onward(p)

(* oq sync, or a script that does the same; a range that ends before it     *)
(* begins is refused.                                                       *)
Sync(p) ==
    /\ job[p].at \in {"idle", "done"}
    /\ Span[p].first <= Span[p].last
    /\ job' = [job EXCEPT ![p] =
                  [Idle EXCEPT !.at = "day", !.cur = Span[p].first, !.last = Span[p].last]]
    /\ UNCHANGED <<scenario, archive, cache, part, stored, exposed>>

(* A script: download with use_cache=False, and write. *)
Refresh(p, d) ==
    /\ job[p].at \in {"idle", "done"}
    /\ job' = [job EXCEPT ![p] =
                  [Idle EXCEPT !.at = "fetch", !.cur = d, !.last = d, !.use_cache = FALSE]]
    /\ UNCHANGED <<scenario, archive, cache, part, stored, exposed>>

(* sync_range: the loop's condition and the weekend. *)
EndSync(p) ==
    /\ job[p].cur > job[p].last
    /\ Step(p, "day", "done")
    /\ UNCHANGED <<scenario, archive, cache, part, stored, exposed>>

SkipWeekend(p) ==
    /\ job[p].at = "day"
    /\ job[p].cur \in Weekend /\ job[p].cur <= job[p].last
    /\ NextDay(p)
    /\ UNCHANGED <<scenario, archive, cache, part, stored, exposed>>

(* download_*: is there a raw file?  If so it is read. *)
Look(p) ==
    LET d == job[p].cur
    IN  /\ job[p].at = "day"
        /\ d <= job[p].last /\ d \notin Weekend
        /\ job' = IF cache[d] # Absent
                  THEN [job EXCEPT ![p].at = "parse", ![p].blob = cache[d]]
                  ELSE [job EXCEPT ![p].at = "fetch"]
        /\ UNCHANGED <<scenario, archive, cache, part, stored, exposed>>

(* download_*: the fetch; an error page may come with a status of success. *)
Fetch(p) ==
    /\ job[p].at = "fetch"
    /\ \E blob \in Answers(job[p].cur) \union (IF "page" \in scenario.faults THEN {Junk} ELSE {}) :
          job' = [job EXCEPT ![p].at = "cache", ![p].blob = blob]
    /\ UNCHANGED <<scenario, archive, cache, part, stored, exposed>>

(* download_*: nothing is published, or the last of the retries fails.      *)
FetchFails(p) ==
    /\ job[p].at = "fetch"
    /\ "fetch" \in scenario.faults \/ Answers(job[p].cur) = {}
    /\ Unavailable(p)
    /\ UNCHANGED <<scenario, archive, cache, part, stored, exposed>>

(* Path.write_bytes: the file is opened, and empty, ... *)
OpenCache(p) ==
    /\ Step(p, "cache", "caching")
    /\ cache' = [cache EXCEPT ![job[p].cur] = Junk]
    /\ UNCHANGED <<scenario, archive, part, stored, exposed>>

(* ... and filled; over what another process has filled it with since, it   *)
(* may end as a mixture.                                                    *)
FillCache(p) ==
    LET d == job[p].cur
    IN  /\ Step(p, "caching", "parse")
        /\ \E content \in {job[p].blob} \union (IF cache[d] \in {Junk, job[p].blob} THEN {} ELSE {Junk}) :
              cache' = [cache EXCEPT ![d] = content]
        /\ UNCHANGED <<scenario, archive, part, stored, exposed>>

(* download_*: the blob is parsed; sync_range yields the day. *)
Parse(p) ==
    /\ job[p].blob # Junk
    /\ Step(p, "parse", IF job[p].use_cache THEN "again" ELSE "existing")
    /\ UNCHANGED <<scenario, archive, cache, part, stored, exposed>>

ParseFails(p) ==
    /\ job[p].at = "parse"
    /\ job[p].blob = Junk
    /\ Unavailable(p)
    /\ UNCHANGED <<scenario, archive, cache, part, stored, exposed>>

(* parse_announcements_blob: read_csv makes a table of the page, and the    *)
(* rows without a symbol are dropped.                                       *)
PagePasses(p) ==
    /\ dataset = "announcements"
    /\ job[p].blob = Junk /\ job[p].use_cache
    /\ Step(p, "parse", "again")
    /\ UNCHANGED <<scenario, archive, cache, part, stored, exposed>>

(* oq sync: the second download, out of the cache; its exception is not     *)
(* caught.                                                                  *)
Again(p) ==
    LET blob == cache[job[p].cur]
    IN  /\ job[p].at = "again"
        /\ \/ blob # Junk /\ job' = [job EXCEPT ![p].at = "existing", ![p].blob = blob]
           \/ blob = Junk /\ Abort(p)
           \/ blob = Junk /\ dataset = "announcements" /\ NextDay(p)
        /\ UNCHANGED <<scenario, archive, cache, part, stored, exposed>>

(* Seeded fault: what was in the file is forgotten. *)
ReadPartitionAnew(p) ==
    /\ job[p].at = "existing"
    /\ job' = [job EXCEPT ![p].at = "write"]
    /\ UNCHANGED <<scenario, archive, cache, part, stored, exposed>>

(* write_*: the year's file is read; a torn one raises.  Without rows there *)
(* is nothing to write.                                                     *)
ReadPartition(p) ==
    LET old == part[YearOf[job[p].cur]]
    IN  /\ job[p].at = "existing"
        /\ \/ Content[job[p].blob.version] = <<>> /\ Onward(p)
           \/ /\ Content[job[p].blob.version] # <<>>
              /\ IF old.readable THEN job' = [job EXCEPT ![p].at = "write", ![p].rows = old.rows]
                                 ELSE Abort(p)
        /\ UNCHANGED <<scenario, archive, cache, part, stored, exposed>>

(* DataFrame.to_parquet: the file is opened, and empty, ... *)
OpenPartition(p) ==
    /\ Step(p, "write", "writing")
    /\ part' = [part EXCEPT ![YearOf[job[p].cur]] = [readable |-> FALSE, rows |-> {}]]
    /\ UNCHANGED <<scenario, archive, cache, stored, exposed>>

(* A process that has read the file of the year and is still to write it. *)
Overlaps(q, y) == job[q].at \in {"write", "writing"} /\ YearOf[job[q].cur] = y

(* ... and filled; over what another process has filled it with since, it   *)
(* may end as a mixture.                                                    *)
FillPartition(p) ==
    LET d == job[p].cur
        y == YearOf[d]
    IN  /\ job[p].at = "writing"
        /\ \E whole \in {TRUE} \union {~part[y].readable} :
              part' = [part EXCEPT ![y] =
                 IF whole THEN [readable |-> TRUE, rows |-> Combined(job[p].rows, Parsed(job[p].blob, d))]
                          ELSE [readable |-> FALSE, rows |-> {}]]
        /\ stored' = stored \union {d}
        /\ exposed' = IF \E q \in Process \ {p} : Overlaps(q, y) THEN exposed \union {d}
                      ELSE exposed \ {d}
        /\ Onward(p)
        /\ UNCHANGED <<scenario, archive, cache>>

Crash(p) ==
    /\ "crash" \in scenario.faults
    /\ job[p].at \notin {"idle", "done"}
    /\ Abort(p)
    /\ UNCHANGED <<scenario, archive, cache, part, stored, exposed>>

Advance(p) ==
    \/ EndSync(p) \/ SkipWeekend(p) \/ Look(p)
    \/ Fetch(p) \/ FetchFails(p) \/ OpenCache(p) \/ FillCache(p)
    \/ Parse(p) \/ ParseFails(p) \/ PagePasses(p) \/ Again(p)
    \/ ReadPartition(p) \/ OpenPartition(p) \/ FillPartition(p)

Next ==
    \/ \E d \in Day : Publish(d)
    \/ \E p \in scenario.syncing : Sync(p) \/ Advance(p) \/ Crash(p)
    \/ \E p \in scenario.syncing, d \in scenario.refreshing : Refresh(p, d)

Spec == Init /\ [][Next]_vars

----------------------------------------------------------------------------
(* Properties. *)

Blob == {Absent, Junk} \union {Good(d, v) : d \in Day, v \in Version}
At == {"idle", "day", "fetch", "cache", "caching", "parse", "again", "existing",
       "write", "writing", "done"}

Job == [at : At, cur : Nat, last : Nat, use_cache : BOOLEAN, blob : Blob, rows : SUBSET Row]

(* Every variable keeps its type. *)
TypeOK ==
    /\ scenario \in Scenario
    /\ archive \in [Day -> {0} \union Version]
    /\ cache \in [Day -> Blob]
    /\ part \in [Year -> [readable : BOOLEAN, rows : SUBSET Row]]
    /\ job \in [Process -> Job]
    /\ stored \subseteq Day /\ exposed \subseteq Day

Stored(d) == {r \in part[YearOf[d]].rows : r.date = d}
OfKey(rows, k) == {r \in rows : r.key = k}

(* What a reader finds of a day of equity is one publication, whole:        *)
(* "re-ingesting the same date replaces, not duplicates, that day's rows".  *)
DayWhole ==
    dataset = "equity" =>
        \A d \in Day : Stored(d) # {} =>
            \E e \in Day, v \in Version : Stored(d) = Parsed(Good(e, v), d)

(* The rows a reader finds of a date and key are those that one publication *)
(* has of it, every one of them, although revisions are merged key by key   *)
(* into what is stored: "replacing rows that match key_columns so re-ingest *)
(* is idempotent".  Rows of one publication that share a key are all kept.  *)
KeysWhole ==
    \A d \in Day, k \in Key :
        LET rows == OfKey(Stored(d), k)
        IN  rows # {} => \E e \in Day, v \in Version : rows = OfKey(Parsed(Good(e, v), d), k)

(* What is stored under a date is what the exchange published for it.       *)
RowsOfTheirDay == \A d \in Day : \A r \in Stored(d) : r.about = d

(* "Download every available bhavcopy in [start, end] inclusive": when the  *)
(* syncs have ended, a day of their ranges whose raw file is good is stored *)
(* unless it has no rows, its year's file cannot be read, or another        *)
(* process wrote the file from what it had read before.                     *)
AvailableIngested ==
    (\A p \in scenario.syncing : job[p].at = "done") =>
        \A p \in scenario.syncing : \A d \in (Span[p].first .. Span[p].last) \ Weekend :
            (/\ cache[d].state = "good" /\ Content[cache[d].version] # <<>>
             /\ part[YearOf[d]].readable /\ d \notin exposed) => Stored(d) # {}

(* A day that was once stored is there whenever its year can be read; it is *)
(* lost only to a process that had read the year's file before the day was  *)
(* written, and wrote it afterwards.                                        *)
DaysStay == \A d \in stored \ exposed : part[YearOf[d]].readable => Stored(d) # {}
=============================================================================
