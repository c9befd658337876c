------------------------------ MODULE ToolCache ------------------------------
(***************************************************************************)
(* oq_mcp: the tools that answer from a TTLCache (get_prices,              *)
(* get_universe) over data that other processes may replace at any time.   *)
(*                                                                         *)
(* The server runs one tool at a time.  A key stands for a tool and its    *)
(* arguments, an answer for the time at which computing it began, which    *)
(* says what data it can be from; time is a number of ticks.  A cache is   *)
(* its OrderedDict: entries in order, each key once.  The shared cache has *)
(* the time to live and the size that tools.py gives it, one that a caller *)
(* passes its own.                                                         *)
(***************************************************************************)
EXTENDS Integers, Sequences, SequencesExt

CONSTANTS
    Question,     \* the cached questions
    Shared,       \* _DEFAULT_CACHE
    Passed,       \* a cache the caller passes
    ttl_seconds,  \* of each cache, in ticks
    max_entries,  \* of each cache
    MaxReading,   \* how long computing an answer takes, at most
    MaxClock,     \* bound: the clock
    MaxCalls      \* bound: calls

Cache == {Shared, Passed}

ASSUME ToolCacheAssumption ==
    /\ Shared # Passed
    /\ ttl_seconds \in [Cache -> Nat]
    /\ max_entries \in [Cache -> Nat \ {0}]
    /\ MaxReading \in Nat
    /\ MaxClock \in Nat
    /\ MaxCalls \in Nat

VARIABLES
    clock,     \* time.monotonic()
    data,      \* TTLCache._data of each cache
    calls,     \* history: calls so far
    answer     \* history: what the last call answered, when, and which
               \* cache it was passed, and whether that was empty

cacheVars == <<clock, data, calls, answer>>

EntryOf == [key : Question, expires_at : Nat, value : Nat]

Keys(d) == {d[i].key : i \in DOMAIN d}
Held(d, k) == CHOOSE i \in DOMAIN d : d[i].key = k
Without(d, k) == IF k \in Keys(d) THEN RemoveAt(d, Held(d, k)) ELSE d

Expired(d, k) == k \in Keys(d) /\ d[Held(d, k)].expires_at < clock

(* Seeded fault: the entry's time is not looked at. *)
HitForever(d, k) == k \in Keys(d)

(* get: an entry that has not expired. *)
Hit(d, k) == k \in Keys(d) /\ ~Expired(d, k)

(* get: what it leaves of the cache; a hit moves to the end. *)
AfterGet(d, k) ==
    IF Hit(d, k) THEN Append(Without(d, k), d[Held(d, k)]) ELSE Without(d, k)

Stamped(c, k, now, value) ==
    [key |-> k, expires_at |-> now + ttl_seconds[c], value |-> value]

(* Seeded fault: the key is counted before it is taken out. *)
AfterSetUnbounded(c, d, k, now, value) ==
    LET put == Append(Without(d, k), Stamped(c, k, now, value))
    IN  IF Len(d) > max_entries[c] THEN Tail(put) ELSE put

(* Seeded fault: room is made before it is seen that the key has its own. *)
AfterSetEarly(c, d, k, now, value) ==
    LET room == IF Len(d) >= max_entries[c] THEN Tail(d) ELSE d
    IN  Append(Without(room, k), Stamped(c, k, now, value))

(* set, and the eviction of the first entry when there are too many. *)
AfterSet(c, d, k, now, value) ==
    LET put == Append(Without(d, k), Stamped(c, k, now, value))
    IN  IF Len(put) > max_entries[c] THEN Tail(put) ELSE put

(* "cache or _DEFAULT_CACHE": an empty cache is falsy. *)
Chosen(c) == IF data[c] = <<>> THEN Shared ELSE c

CacheInit ==
    /\ clock = 0
    /\ data = [c \in Cache |-> <<>>]
    /\ calls = 0
    /\ answer = [asked |-> Shared, empty |-> TRUE, at |-> 0, value |-> 0]

(* The answer of a call that was passed the cache c. *)
Answer(c, at, value) ==
    [asked |-> c, empty |-> data[c] = <<>>, at |-> at, value |-> value]

Called == calls < MaxCalls /\ calls' = calls + 1

----------------------------------------------------------------------------
(* get_prices, get_universe: a hit. *)
CallHit(c, k) ==
    LET d == data[Chosen(c)]
    IN  /\ Called
        /\ Hit(d, k)
        /\ data' = [data EXCEPT ![Chosen(c)] = AfterGet(d, k)]
        /\ answer' = Answer(c, clock, d[Held(d, k)].value)
        /\ UNCHANGED clock

(* get_prices, get_universe: a miss; an expired entry is dropped, the       *)
(* answer computed from the data there is from the start on, and cached.  *)
CallMiss(c, k, reading) ==
    LET d == data[Chosen(c)]
    IN  /\ Called
        /\ ~Hit(d, k)
        /\ clock + reading <= MaxClock
        /\ clock' = clock + reading
        /\ data' = [data EXCEPT ![Chosen(c)] =
               AfterSet(Chosen(c), AfterGet(d, k), k, clock', clock)]
        /\ answer' = Answer(c, clock', clock)

(* get_prices, get_universe: oq_data raises while the answer is computed;   *)
(* an expired entry has been dropped by then, and nothing is cached.        *)
CallRaises(c, k, reading) ==
    LET d == data[Chosen(c)]
    IN  /\ Called
        /\ ~Hit(d, k)
        /\ clock + reading <= MaxClock
        /\ clock' = clock + reading
        /\ data' = [data EXCEPT ![Chosen(c)] = AfterGet(d, k)]
        /\ UNCHANGED answer

(* A caller fills the cache it passes, with an answer it has. *)
set(k) ==
    /\ Called
    /\ data' = [data EXCEPT ![Passed] = AfterSet(Passed, data[Passed], k, clock, clock)]
    /\ UNCHANGED <<clock, answer>>

clear(c) ==
    /\ data' = [data EXCEPT ![c] = <<>>]
    /\ UNCHANGED <<clock, calls, answer>>

Tick ==
    /\ clock < MaxClock
    /\ clock' = clock + 1
    /\ UNCHANGED <<data, calls, answer>>

CacheNext ==
    \/ \E c \in Cache, k \in Question : CallHit(c, k)
    \/ \E c \in Cache, k \in Question, reading \in 0..MaxReading :
          CallMiss(c, k, reading) \/ CallRaises(c, k, reading)
    \/ \E k \in Question : set(k)
    \/ \E c \in Cache : clear(c)
    \/ Tick

CacheSpec == CacheInit /\ [][CacheNext]_cacheVars

----------------------------------------------------------------------------
(* Properties. *)

(* Every variable keeps its type. *)
CacheTypeOK ==
    /\ clock \in Nat
    /\ data \in [Cache -> Seq(EntryOf)]
    /\ calls \in Nat
    /\ answer \in [asked : Cache, empty : BOOLEAN, at : Nat, value : Nat]

(* A cache has at most max_entries entries, and one of each key. *)
Bounded ==
    \A c \in Cache :
        /\ Len(data[c]) <= max_entries[c]
        /\ \A i, j \in DOMAIN data[c] : data[c][i].key = data[c][j].key => i = j

(* No answer is from data that was replaced longer ago than the time to     *)
(* live and the time of computing it: however often an entry is hit, its    *)
(* age counts from when it was set.  The time is that of the cache passed,  *)
(* except for a cache passed empty: the shared one answers in its place.    *)
AnswersFresh ==
    LET c == IF answer.empty THEN Shared ELSE answer.asked
    IN  answer.at <= answer.value + MaxReading + ttl_seconds[c]

(* A cache that is not cleared loses a pair only when a call finds it       *)
(* expired and computes no other, or when a new key comes into a full cache *)
(* (set: a key that is set again makes no room), and never more than one.   *)
OneMakesRoom ==
    [][\A c \in Cache :
          LET gone == Keys(data[c]) \ Keys(data'[c])
              come == Keys(data'[c]) \ Keys(data[c])
          IN  data'[c] # <<>> =>
                \A k \in gone :
                   /\ gone = {k}
                   /\ IF come = {} THEN Expired(data[c], k)
                                   ELSE Len(data[c]) = max_entries[c]]_cacheVars
=============================================================================
