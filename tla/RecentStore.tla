----------------------------- MODULE RecentStore -----------------------------
(***************************************************************************)
(* appdash.RecentStore (store.go): deletes the traces of an underlying     *)
(* DeleteStore that are older than MinEvictAge.  A Collect runs its        *)
(* bookkeeping under rs.mu, unlocks, and only then calls the underlying    *)
(* Collect; the traces it finds to be old are deleted by a goroutine of    *)
(* their own.  The three interleave freely.                                *)
(*                                                                         *)
(* Time is discrete and kept as ages, which saturate at Horizon: the code  *)
(* compares nothing but differences to the current time.                   *)
(***************************************************************************)
EXTENDS DeleteStore

CONSTANTS
    Callers,        \* goroutines that call Collect
    Evictors,       \* bound: goroutines spawned by evictBefore that can be alive at once
    MinEvictAge,    \* rs.MinEvictAge
    Horizon,        \* bound: the age from which on ages are not told apart
    Restored,       \* the traces the underlying store holds at the start (a file read back)
    Faults,         \* does the underlying store ever return an error?
    None

ASSUME AgeAssumption == MinEvictAge \in Nat /\ Horizon \in Nat /\ Horizon > 2 * MinEvictAge
ASSUME RestoredAssumption == Restored \subseteq IDs /\ Faults \in BOOLEAN
ASSUME NoneAssumption == None \notin Nat /\ None \notin IDs

VARIABLES
    age,            \* rs.created: trace -> its age by rs.created, None if it has no entry
    sinceEvicted,   \* the time since rs.lastEvicted
    calls,          \* caller -> the trace of a Collect between unlock and the underlying Collect
    evictions       \* evictor -> the traces it is yet to delete, {} if it is not running

rvars == <<age, sinceEvicted, calls, evictions, stored>>

Recorded == {t \in IDs : age[t] # None}
Doomed   == UNION {evictions[g] : g \in Evictors}

(* The zero time.Time of a new RecentStore is further back than any age.   *)
RInit ==
    /\ age = [t \in IDs |-> None]
    /\ sinceEvicted = Horizon
    /\ calls = [c \in Callers |-> None]
    /\ evictions = [g \in Evictors |-> {}]
    /\ stored = Restored

Older(a) == IF a < Horizon THEN a + 1 ELSE a

Tick ==
    /\ age' = [t \in IDs |-> IF age[t] = None THEN None ELSE Older(age[t])]
    /\ sinceEvicted' = Older(sinceEvicted)
    /\ UNCHANGED <<calls, evictions, stored>>

(* Slip: the time last seen.                                               *)
LastSeen(t) == [age EXCEPT ![t] = 0]

(* The creation times with an entry for t.                                 *)
FirstSeen(t) == IF age[t] = None THEN [age EXCEPT ![t] = 0] ELSE age

Old(seen) == {t \in IDs : seen[t] # None /\ seen[t] > MinEvictAge}

(* evictBefore, given the creation times.                                  *)
EvictBefore(seen) ==
    /\ sinceEvicted' = 0
    /\ age' = [t \in IDs |-> IF t \in Old(seen) THEN None ELSE seen[t]]
    /\ \/ /\ Old(seen) = {}
          /\ UNCHANGED evictions
       \/ \E g \in Evictors :
            /\ Old(seen) # {} /\ evictions[g] = {}
            /\ evictions' = [evictions EXCEPT ![g] = Old(seen)]

(* Slip: off by one.                                                       *)
EvictionDueLater == sinceEvicted > MinEvictAge + 1

EvictionDue == sinceEvicted > MinEvictAge

(* The locked part of Collect.                                             *)
Enter(c, t) ==
    /\ calls[c] = None
    /\ calls' = [calls EXCEPT ![c] = t]
    /\ \/ /\ EvictionDue
          /\ EvictBefore(FirstSeen(t))
       \/ /\ ~EvictionDue
          /\ age' = FirstSeen(t)
          /\ UNCHANGED <<sinceEvicted, evictions>>
    /\ UNCHANGED stored

(* The underlying store does as it is told or, with an error, does not.    *)
MayFail(new) == stored' \in IF Faults THEN {stored, new} ELSE {new}

Store(c) ==
    /\ calls[c] # None
    /\ calls' = [calls EXCEPT ![c] = None]
    /\ MayFail(stored \cup {calls[c]})
    /\ UNCHANGED <<age, sinceEvicted, evictions>>

(* An eviction goroutine gets to run.  An error of the underlying Delete   *)
(* is logged and that is all.                                              *)
Evict(g) ==
    /\ evictions[g] # {}
    /\ evictions' = [evictions EXCEPT ![g] = {}]
    /\ MayFail(stored \ evictions[g])
    /\ UNCHANGED <<age, sinceEvicted, calls>>

RDelete(t) ==
    /\ DeleteStored(t)
    /\ UNCHANGED <<age, sinceEvicted, calls, evictions>>

RNext ==
    \/ Tick
    \/ \E c \in Callers, t \in IDs : Enter(c, t)
    \/ \E c \in Callers : Store(c)
    \/ \E g \in Evictors : Evict(g)
    \/ \E t \in IDs : RDelete(t)

RSpec == RInit /\ [][RNext]_rvars

(* Time passes, and goroutines that can run do run.  Nothing obliges a     *)
(* client to call Collect.                                                 *)
Fairness ==
    /\ WF_rvars(Tick)
    /\ \A c \in Callers : WF_rvars(Store(c))
    /\ \A g \in Evictors : WF_rvars(Evict(g))

FairSpec == RSpec /\ Fairness

-----------------------------------------------------------------------------
RTypeOK ==
    /\ age \in [IDs -> 0..Horizon \cup {None}]
    /\ sinceEvicted \in 0..Horizon
    /\ calls \in [Callers -> IDs \cup {None}]
    /\ evictions \in [Evictors -> SUBSET IDs]
    /\ stored \subseteq IDs

(* The inductive part of KeepsOnlyRecent: an entry that an eviction left   *)
(* was no older than MinEvictAge then.                                     *)
EntriesAgeWithEviction == \A t \in Recorded : age[t] <= sinceEvicted + MinEvictAge

(* Every Collect leaves only entries that are at most twice MinEvictAge    *)
(* old, although evictions are that far apart and compare strictly         *)
(* (RecentStore.Collect, evictBefore).                                     *)
KeepsOnlyRecent ==
    [][\A c \in Callers, t \in IDs : Enter(c, t) =>
          \A u \in IDs : age'[u] # None => age'[u] <= 2 * MinEvictAge]_rvars

(* As long as spans keep arriving, whatever trace they are of, a trace     *)
(* that was recorded is eventually handed over for deletion.               *)
Arriving == []<><<\E c \in Callers, t \in IDs : Enter(c, t)>>_rvars
RecordedGetsEvicted ==
    Arriving => \A t \in IDs : t \in Recorded ~> t \notin Recorded
=============================================================================
