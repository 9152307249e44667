---- MODULE Workers ----
\* The parts that run work on a node: one actor pool and the artifact cache. They
\* share no state. Each has its own inductive invariant, proved for every value of
\* the constants the assumptions allow: any number of callers, resizers, processes
\* and cache keys.
EXTENDS Integers, Sequences, FiniteSets, TLAPS

CONSTANTS
    Callers, Nobody,
    Resizers, TargetSize, MaxSize,             \* ActorPool
    PoolFaults, MaxReplaces, Window,
    Procs, Keys, Checked, MaxEntries,          \* CodeFetcher
    FetchFaults

VARIABLES
    workers, handle, nextIndex, lock, resizer, live, pcall, replaced,
    failedCreate, pfaults,
    entry, ready, pc, key, tmp, deployed, torn, faults

----
Fetch == INSTANCE CodeFetcher WITH MaxFaults <- FetchFaults

\* finitely many processes share a host, and the cache has room for an entry
ASSUME FetchAssumption ==
    /\ IsFiniteSet(Procs)
    /\ Keys # {} /\ Checked \subseteq Keys
    /\ MaxEntries \in Nat \ {0}

\* CodeFetcher: with two processes on one cache, it stays within its limit, a ready
\* entry holds what its checksum promises, and no temporary archive outlives its
\* fetch.
CacheSound == Fetch!CacheBounded /\ Fetch!ReadyIsVerified /\ Fetch!NoTempLeft

\* CodeFetcher. While no two processes fetch one key and none died evicting, a key
\* being fetched is not ready, so a failing fetch cannot spoil a ready entry.
FetchFiles ==
    /\ ready \in Seq(Keys) /\ key \in [Procs -> Keys] /\ torn \in BOOLEAN
    /\ tmp \in [Procs -> {"none", "good", "bad"}]
    /\ \A i, j \in 1..Len(ready) : ready[i] = ready[j] => i = j
    /\ \A p \in Procs : pc[p] \in {"idle", "gc", "download"} => tmp[p] = "none"
    /\ \A p \in Procs : pc[p] \in {"verify", "extract"} => tmp[p] # "none"
    /\ \A p \in Procs : pc[p] = "extract" /\ key[p] \in Checked => tmp[p] = "good"

FetchApart ==
    ~torn => /\ \A p, q \in Procs : p # q /\ pc[p] # "idle" /\ pc[q] # "idle" => key[p] # key[q]
             /\ \A p \in Procs : pc[p] # "idle" => \A i \in 1..Len(ready) : ready[i] # key[p]
             /\ \A i \in 1..Len(ready) : /\ entry[ready[i]] # "none"
                                         /\ ready[i] \in Checked => entry[ready[i]] = "good"

FetchInv == Fetch!TypeOK /\ FetchFiles /\ FetchApart

LEMMA FetchInit == Fetch!Init => FetchInv
<1> SUFFICES ASSUME Fetch!Init PROVE FetchInv
  OBVIOUS
<1>1. (CHOOSE k \in Keys : TRUE) \in Keys
  BY FetchAssumption, Zenon
<1>2. Fetch!SetOf(ready) = {}
  BY DEF Fetch!Init, Fetch!SetOf
<1>3. Fetch!TypeOK
  BY <1>2, Zenon DEF Fetch!Init, Fetch!TypeOK, Fetch!Contents
<1>4. key \in [Procs -> Keys]
  BY <1>1, Zenon DEF Fetch!Init
<1>5. /\ ready = <<>> /\ torn = FALSE
      /\ pc = [p \in Procs |-> "idle"] /\ tmp = [p \in Procs |-> "none"]
  BY Zenon DEF Fetch!Init
<1>6. FetchFiles
  <2>0. torn \in BOOLEAN
    BY <1>5, Zenon
  <2>1. ready \in Seq(Keys) /\ tmp \in [Procs -> {"none", "good", "bad"}]
    BY <1>5
  <2>2. \A i, j \in 1..Len(ready) : ready[i] = ready[j] => i = j
    BY <1>5
  <2>3. \A p \in Procs : pc[p] = "idle" /\ tmp[p] = "none"
    BY <1>5, Zenon
  <2>4. QED BY <1>4, <2>0, <2>1, <2>2, <2>3, Zenon DEF FetchFiles
<1>7. FetchApart
  BY <1>5 DEF FetchApart
<1>8. QED BY <1>3, <1>6, <1>7, Zenon DEF FetchInv

\* What _gc_artifact_cache leaves: the newest entries, in their order.
LEMMA FetchKept ==
    ASSUME ready \in Seq(Keys)
    PROVE  /\ Fetch!Evictions \in 0..Len(ready)
           /\ Fetch!Evicted = {ready[i] : i \in 1..Fetch!Evictions}
           /\ SubSeq(ready, Fetch!Evictions + 1, Len(ready)) \in Seq(Keys)
           /\ Len(SubSeq(ready, Fetch!Evictions + 1, Len(ready))) = Len(ready) - Fetch!Evictions
           /\ \A i \in 1..Len(ready) - Fetch!Evictions :
                 SubSeq(ready, Fetch!Evictions + 1, Len(ready))[i] = ready[Fetch!Evictions + i]
           /\ Len(ready) - Fetch!Evictions < MaxEntries
<1>1. Fetch!Evictions \in 0..Len(ready) /\ Len(ready) - Fetch!Evictions < MaxEntries
  BY FetchAssumption DEF Fetch!Evictions, Fetch!Excess
<1>2. Fetch!Evicted = {ready[i] : i \in 1..Fetch!Evictions}
  BY <1>1 DEF Fetch!Evicted, Fetch!SetOf
<1>3. QED BY <1>1, <1>2

LEMMA FetchNext == FetchInv /\ [Fetch!Next]_(Fetch!vars) => FetchInv'
<1> SUFFICES ASSUME FetchInv, [Fetch!Next]_(Fetch!vars) PROVE FetchInv'
  OBVIOUS
<1> USE FetchAssumption DEF FetchInv
<1>0. ready' \in Seq(Keys) => Fetch!SetOf(ready)' \subseteq Keys
  BY DEF Fetch!SetOf
<1>1. ASSUME NEW p \in Procs, NEW k \in Keys, Fetch!Deploy(p, k) PROVE FetchInv'
  <2>1. CASE k \in Fetch!SetOf(ready) /\ entry[k] # "none"
    BY <1>0, <1>1, <2>1 DEF Fetch!Deploy, Fetch!TypeOK, FetchFiles, FetchApart
  <2>2. CASE ~(k \in Fetch!SetOf(ready) /\ entry[k] # "none")
    <3>1. /\ key' = [key EXCEPT ![p] = k] /\ pc' = [pc EXCEPT ![p] = "gc"] /\ pc[p] = "idle"
          /\ torn' = (torn \/ Fetch!Fetching(k) # {})
          /\ deployed' = [deployed EXCEPT ![p] = "DOWNLOADING"]
          /\ UNCHANGED <<entry, ready, tmp>>
      BY <1>1, <2>2, Zenon DEF Fetch!Deploy
    <3>2. ~torn' => ~torn /\ \A q \in Procs : pc[q] # "idle" => key[q] # k
      BY <3>1, Zenon DEF Fetch!Fetching
    <3>3. ~torn => \A i \in 1..Len(ready) : ready[i] # k
      BY <2>2, Zenon DEF FetchApart, Fetch!SetOf
    <3>4. Fetch!TypeOK' /\ FetchFiles'
      BY <1>0, <3>1, Zenon DEF Fetch!TypeOK, FetchFiles
    <3>5. FetchApart'
      BY <3>1, <3>2, <3>3 DEF Fetch!TypeOK, FetchFiles, FetchApart
    <3>6. QED BY <3>4, <3>5, Zenon
  <2>3. QED BY <2>1, <2>2, Zenon
<1>2. ASSUME NEW p \in Procs, Fetch!BadUrl(p) \/ Fetch!Undeploy(p) PROVE FetchInv'
  BY <1>0, <1>2 DEF Fetch!BadUrl, Fetch!Undeploy, Fetch!TypeOK, FetchFiles, FetchApart
<1>3. ASSUME NEW p \in Procs, Fetch!Gc(p) PROVE FetchInv'
  <2> DEFINE n == Fetch!Evictions
  <2>a. ready \in Seq(Keys) /\ ready' = SubSeq(ready, n + 1, Len(ready))
    BY <1>3, Zenon DEF Fetch!Gc, FetchFiles
  <2>1. /\ n \in 0..Len(ready) /\ Fetch!Evicted = {ready[i] : i \in 1..n}
        /\ ready' \in Seq(Keys) /\ Len(ready') = Len(ready) - n
        /\ \A i \in 1..Len(ready') : n + i \in 1..Len(ready) /\ ready'[i] = ready[n + i]
    <3>1. /\ n \in 0..Len(ready) /\ Fetch!Evicted = {ready[i] : i \in 1..n}
          /\ ready' \in Seq(Keys) /\ Len(ready') = Len(ready) - n
          /\ \A i \in 1..Len(ready) - n : ready'[i] = ready[n + i]
      BY <2>a, FetchKept, Zenon
    <3> HIDE DEF n
    <3>2. Len(ready) \in Nat
      BY <2>a
    <3>3. \A i \in 1..Len(ready) - n : n + i \in 1..Len(ready)
      BY <3>1, <3>2
    <3>4. QED BY <3>1, <3>3, Zenon
  <2>2. /\ pc[p] = "gc" /\ pc' = [pc EXCEPT ![p] = "download"]
        /\ \A k \in Keys : k \notin Fetch!Evicted => entry'[k] = entry[k]
        /\ entry' \in [Keys -> Fetch!Contents] /\ torn' \in BOOLEAN /\ (~torn' => ~torn)
        /\ UNCHANGED <<key, tmp, deployed>>
    BY <1>3, Zenon DEF Fetch!Gc, Fetch!At, Fetch!TypeOK, Fetch!Contents, FetchFiles
  <2> HIDE DEF n
  <2>3. \A i \in 1..Len(ready') : ready'[i] \in Keys /\ ready'[i] \notin Fetch!Evicted
    BY <2>1 DEF FetchFiles
  <2>4. Fetch!TypeOK'
    BY <1>0, <2>1, <2>2, Zenon DEF Fetch!TypeOK
  <2>5. FetchFiles'
    BY <2>1, <2>2, SMTT(30) DEF Fetch!TypeOK, FetchFiles
  <2>6. FetchApart'
    <3>1. SUFFICES ASSUME ~torn' PROVE FetchApart'
      BY Zenon DEF FetchApart
    <3>2. \A q \in Procs : pc'[q] # "idle" => pc[q] # "idle"
      BY <2>2, Zenon DEF Fetch!TypeOK
    <3>3. \A q \in Procs : pc'[q] # "idle" => \A i \in 1..Len(ready') : ready'[i] # key'[q]
      BY <2>1, <2>2, <3>1, <3>2 DEF FetchApart
    <3>4. ASSUME NEW i \in 1..Len(ready')
          PROVE  /\ entry'[ready'[i]] # "none"
                 /\ ready'[i] \in Checked => entry'[ready'[i]] = "good"
      <4>1. entry'[ready'[i]] = entry[ready[n + i]] /\ ready'[i] = ready[n + i] /\ n + i \in 1..Len(ready)
        BY <2>1, <2>2, <2>3, Zenon
      <4>2. QED BY <2>2, <3>1, <4>1, Zenon DEF FetchApart
    <3>5. QED BY <2>2, <3>1, <3>2, <3>3, <3>4, Zenon DEF FetchApart
  <2>7. QED BY <2>4, <2>5, <2>6, Zenon
<1>4. ASSUME NEW p \in Procs, Fetch!Download(p) PROVE FetchInv'
  <2>1. /\ pc[p] = "download" /\ pc' = [pc EXCEPT ![p] = "verify"]
        /\ \E v \in {"good", "bad"} : tmp' = [tmp EXCEPT ![p] = v]
        /\ UNCHANGED <<entry, ready, key, deployed, torn>>
    BY <1>4, Zenon DEF Fetch!Download, Fetch!At
  <2>2. Fetch!TypeOK' /\ FetchFiles'
    BY <1>0, <2>1 DEF Fetch!TypeOK, FetchFiles
  <2>3. FetchApart'
    BY <2>1, Zenon DEF Fetch!TypeOK, FetchApart
  <2>4. QED BY <2>2, <2>3, Zenon
<1>5. ASSUME NEW p \in Procs, Fetch!DownloadFails(p) PROVE FetchInv'
  <2>1. /\ pc[p] = "download" /\ pc' = [pc EXCEPT ![p] = "idle"]
        /\ deployed' = [deployed EXCEPT ![p] = "FAILED"] /\ tmp' = [tmp EXCEPT ![p] = "none"]
        /\ UNCHANGED <<entry, ready, key, torn>>
    BY <1>5, Zenon DEF Fetch!DownloadFails, Fetch!At, Fetch!Finished
  <2>2. Fetch!TypeOK' /\ FetchFiles'
    BY <1>0, <2>1, Zenon DEF Fetch!TypeOK, FetchFiles
  <2>3. FetchApart'
    BY <2>1, Zenon DEF Fetch!TypeOK, FetchApart
  <2>4. QED BY <2>2, <2>3, Zenon
<1>6. ASSUME NEW p \in Procs, Fetch!Verify(p) PROVE FetchInv'
  <2>1. CASE /\ key[p] \in Checked => tmp[p] = "good"
             /\ pc[p] = "verify" /\ pc' = [pc EXCEPT ![p] = "extract"]
             /\ UNCHANGED <<entry, ready, key, torn, tmp, deployed>>
    <3>1. Fetch!TypeOK' /\ FetchFiles'
      BY <1>0, <2>1, Zenon DEF Fetch!TypeOK, FetchFiles
    <3>2. FetchApart'
      BY <2>1, Zenon DEF Fetch!TypeOK, FetchApart
    <3>3. QED BY <3>1, <3>2, Zenon
  <2>2. CASE /\ pc[p] = "verify" /\ pc' = [pc EXCEPT ![p] = "idle"]
             /\ deployed' = [deployed EXCEPT ![p] = "FAILED"]
             /\ tmp' = [tmp EXCEPT ![p] = "none"]
             /\ UNCHANGED <<entry, ready, key, torn>>
    <3>1. Fetch!TypeOK' /\ FetchFiles'
      BY <1>0, <2>2, Zenon DEF Fetch!TypeOK, FetchFiles
    <3>2. FetchApart'
      BY <2>2, Zenon DEF Fetch!TypeOK, FetchApart
    <3>3. QED BY <3>1, <3>2, Zenon
  <2>3. QED BY <1>6, <2>1, <2>2, Zenon DEF Fetch!Verify, Fetch!At, Fetch!Finished
<1>7. ASSUME NEW p \in Procs, Fetch!Extract(p) PROVE FetchInv'
  <2>1. /\ pc[p] = "extract" /\ pc' = [pc EXCEPT ![p] = "idle"]
        /\ entry' = [entry EXCEPT ![key[p]] = tmp[p]]
        /\ deployed' = [deployed EXCEPT ![p] = "DEPLOYED"] /\ tmp' = [tmp EXCEPT ![p] = "none"]
        /\ UNCHANGED <<key, torn>> /\ key[p] \in Keys /\ tmp[p] \in {"good", "bad"}
    BY <1>7, Zenon DEF Fetch!Extract, Fetch!At, Fetch!Finished, FetchFiles
  <2>2. CASE key[p] \in Fetch!SetOf(ready)
    <3>1. ready' = ready
      BY <1>7, <2>2, Zenon DEF Fetch!Extract
    <3>2. torn
      BY <2>1, <2>2, Zenon DEF FetchApart, Fetch!SetOf, FetchFiles
    <3>3. QED
      BY <1>0, <2>1, <3>1, <3>2 DEF Fetch!TypeOK, Fetch!Contents, FetchFiles, FetchApart
  <2>3. CASE key[p] \notin Fetch!SetOf(ready)
    <3>1. ready' = Append(ready, key[p]) /\ \A i \in 1..Len(ready) : ready[i] # key[p]
      BY <1>7, <2>3, Zenon DEF Fetch!Extract, Fetch!SetOf
    <3>2. /\ ready' \in Seq(Keys) /\ Len(ready') = Len(ready) + 1
          /\ ready'[Len(ready) + 1] = key[p]
          /\ \A i \in 1..Len(ready) : ready'[i] = ready[i]
      BY <2>1, <3>1 DEF FetchFiles
    <3>3. \A i \in 1..Len(ready') : i \in 1..Len(ready) \/ i = Len(ready) + 1
      BY <3>2 DEF FetchFiles
    <3>4. Fetch!TypeOK' /\ FetchFiles'
      BY <1>0, <2>1, <3>1, <3>2, <3>3 DEF Fetch!TypeOK, Fetch!Contents, FetchFiles
    <3>5. FetchApart'
      BY <2>1, <3>1, <3>2, <3>3 DEF Fetch!TypeOK, FetchFiles, FetchApart
    <3>6. QED BY <3>4, <3>5, Zenon
  <2>4. QED BY <2>2, <2>3, Zenon
<1>8. ASSUME NEW p \in Procs, Fetch!ExtractFails(p) \/ Fetch!Crash(p) PROVE FetchInv'
  <2>1. /\ pc[p] = "extract" /\ pc' = [pc EXCEPT ![p] = "idle"]
        /\ \E left \in {entry[key[p]], "partial"} : entry' = [entry EXCEPT ![key[p]] = left]
        /\ \E d \in {"FAILED", "none"} : deployed' = [deployed EXCEPT ![p] = d]
        /\ tmp' = [tmp EXCEPT ![p] = "none"]
        /\ UNCHANGED <<ready, key, torn>>
    BY <1>8, Zenon DEF Fetch!ExtractFails, Fetch!Crash, Fetch!Dies, Fetch!At, Fetch!Finished
  <2>2. Fetch!TypeOK' /\ FetchFiles'
    BY <1>0, <2>1 DEF Fetch!TypeOK, Fetch!Contents, FetchFiles
  <2>3. FetchApart'
    BY <2>1 DEF Fetch!TypeOK, FetchFiles, FetchApart
  <2>4. QED BY <2>2, <2>3, Zenon
<1>9. ASSUME NEW p \in Procs, Fetch!CrashInGc(p) PROVE FetchInv'
  <2>1. PICK k : entry' = [entry EXCEPT ![k] = "partial"]
    BY <1>9, Zenon DEF Fetch!CrashInGc, Fetch!Dies
  <2>2. /\ torn' = TRUE /\ pc' = [pc EXCEPT ![p] = "idle"]
        /\ tmp' = [tmp EXCEPT ![p] = "none"] /\ deployed' = [deployed EXCEPT ![p] = "none"]
        /\ UNCHANGED <<ready, key>>
    BY <1>9, Zenon DEF Fetch!CrashInGc, Fetch!Dies, Fetch!At
  <2>3. entry' \in [Keys -> Fetch!Contents]
    BY <2>1, Zenon DEF Fetch!TypeOK, Fetch!Contents
  <2>4. Fetch!TypeOK' /\ FetchFiles' /\ FetchApart'
    BY <1>0, <2>2, <2>3 DEF Fetch!TypeOK, FetchFiles, FetchApart
  <2>5. QED BY <2>4, Zenon
<1>10. CASE UNCHANGED Fetch!vars
  BY <1>10 DEF Fetch!vars, Fetch!TypeOK, Fetch!SetOf, FetchFiles, FetchApart
<1>11. QED
  BY <1>1, <1>2, <1>3, <1>4, <1>5, <1>6, <1>7, <1>8, <1>9, <1>10, Zenon DEF Fetch!Next

----
Pool == INSTANCE ActorPool WITH
    Calls <- Callers, None <- Nobody, MaxFaults <- PoolFaults, call <- pcall, faults <- pfaults

\* target_size is within max_size; a tick is shorter than the window.
ASSUME PoolAssumption ==
    /\ Nobody \notin Resizers
    /\ MaxSize \in Nat /\ TargetSize \in 0..MaxSize
    /\ MaxReplaces \in Nat /\ Window \in Nat \ {0}

\* ActorPool: positions, names and actors agree under overlapping resizes, and
\* replacements in a window stay within the breaker's bound.
WorkloadSound == Pool!PoolSound /\ Pool!ReplacesBounded

\* ActorPool. The resizer inside the lock is the only one creating, and what it
\* still has to create fits above the workers there are.
Handle == [name : Nat, actor : Nat, faults : SUBSET Nat]
CallState == [pc : {"idle", "replace", "retry", "done", "failed"}, h : Nat, idx : Nat]
PoolTypes ==
    /\ handle \in Seq(Handle)
    /\ replaced \in Seq(Seq(Nat)) /\ Len(replaced) = Len(handle)
    /\ pcall \in [Callers -> CallState]
    /\ \A c \in Callers : pcall[c].pc \in {"replace", "retry"} =>
          pcall[c].h \in 1..Len(handle) /\ pcall[c].idx \in Pool!Names
    /\ resizer \in [Resizers -> [pc : {"idle", "waiting", "create", "done"}, todo : Seq(Pool!Names)]]
    /\ failedCreate \in BOOLEAN

PoolLock ==
    /\ Len(workers) <= MaxSize
    /\ \A r \in Resizers : resizer[r].pc = "create" =>
          lock = r /\ Len(workers) + Len(resizer[r].todo) <= MaxSize

Placed == \A i \in 1..Len(workers) : handle[workers[i]].name = i - 1
ActorsNamed == \A h \in 1..Len(handle) : handle[h].actor = handle[h].name
CallsNamed ==
    \A c \in Callers : pcall[c].pc \in {"replace", "retry"} => handle[pcall[c].h].name = pcall[c].idx
TodoNext ==
    \A r \in Resizers : resizer[r].pc = "create" =>
        \A k \in 1..Len(resizer[r].todo) : resizer[r].todo[k] = Len(workers) + k - 1
PoolNames == ~failedCreate => Placed /\ ActorsNamed /\ CallsNamed /\ TodoNext

PoolInv == Pool!TypeOK /\ PoolTypes /\ PoolLock /\ PoolNames

LEMMA PoolInit == Pool!Init => PoolInv
<1> SUFFICES ASSUME Pool!Init PROVE PoolInv
  OBVIOUS
<1> USE PoolAssumption DEF Pool!Init
<1>1. resizer \in [Resizers -> [pc : {"idle", "waiting", "create", "done"}, todo : Seq(Pool!Names)]]
  BY DEF Pool!IdleResizer
<1>2. pcall \in [Callers -> CallState] /\ \A c \in Callers : pcall[c].pc = "idle"
  BY Zenon DEF Pool!IdleCall, CallState
<1>3. handle = <<>> /\ replaced = <<>> /\ workers = <<>> /\ failedCreate = FALSE
  OBVIOUS
<1>4. Pool!TypeOK
  BY <1>3 DEF Pool!TypeOK
<1>5. PoolTypes
  <2>1. failedCreate \in BOOLEAN
    BY <1>3, Zenon
  <2>2. QED BY <1>1, <1>2, <1>3, <2>1 DEF PoolTypes
<1>6. PoolLock /\ PoolNames
  BY
     DEF PoolLock, PoolNames, Placed, ActorsNamed, CallsNamed, TodoNext, Pool!IdleCall,
         Pool!IdleResizer
<1>7. QED BY <1>4, <1>5, <1>6, Zenon DEF PoolInv

\* Replacing one element of a sequence.
LEMMA SeqUpdate ==
    ASSUME NEW S, NEW s \in Seq(S), NEW i \in 1..Len(s), NEW e \in S
    PROVE  /\ [s EXCEPT ![i] = e] \in Seq(S) /\ Len([s EXCEPT ![i] = e]) = Len(s)
           /\ \A j \in 1..Len(s) : [s EXCEPT ![i] = e][j] = IF j = i THEN e ELSE s[j]
  OBVIOUS

\* The round robin picks a worker of the pool.
LEMMA PoolSelects ==
    ASSUME PoolInv, workers # <<>>
    PROVE  /\ Pool!Selected \in 1..Len(handle)
           /\ (nextIndex + 1) % Len(workers) \in Nat
<1>1. Len(workers) \in Nat \ {0} /\ nextIndex \in Nat
  BY DEF PoolInv, Pool!TypeOK
<1>2. nextIndex % Len(workers) \in 0..Len(workers) - 1 /\ (nextIndex + 1) % Len(workers) \in 0..Len(workers) - 1
  BY <1>1
<1>3. QED BY <1>1, <1>2 DEF PoolInv, Pool!TypeOK, Pool!Selected

LEMMA PoolNext == PoolInv /\ [Pool!Next]_(Pool!vars) => PoolInv'
<1> SUFFICES ASSUME PoolInv, [Pool!Next]_(Pool!vars) PROVE PoolInv'
  OBVIOUS
<1> USE PoolAssumption DEF PoolInv
<1>a. \A k \in 1..Len(workers) : workers[k] \in 1..Len(handle)
  BY DEF Pool!TypeOK
<1>b. \A c \in Callers : pcall[c].pc \in {"replace", "retry"} => pcall[c].h \in 1..Len(handle)
  BY Zenon DEF PoolTypes
<1>1. ASSUME NEW c \in Callers, NEW o \in {"done", "failed"}, Pool!Ends(c, o),
             UNCHANGED <<workers, lock, resizer, handle, replaced>>,
             nextIndex' \in Nat, live' \subseteq live,
             failedCreate' \in BOOLEAN, failedCreate => failedCreate'
      PROVE  PoolInv'
  <2>0. [Pool!IdleCall EXCEPT !.pc = o] = [pc |-> o, h |-> 0, idx |-> 0]
    BY DEF Pool!IdleCall
  <2>1. pcall' = [pcall EXCEPT ![c] = [pc |-> o, h |-> 0, idx |-> 0]]
    BY <1>1, <2>0, Zenon DEF Pool!Ends
  <2>2. [pc |-> o, h |-> 0, idx |-> 0] \in CallState
    BY Zenon DEF CallState
  <2>3. /\ pcall' \in [Callers -> CallState] /\ pcall'[c].pc = o
        /\ \A d \in Callers : d # c => pcall'[d] = pcall[d]
    BY <2>1, <2>2, Zenon DEF PoolTypes
  <2>4. Pool!TypeOK' /\ PoolTypes' /\ PoolLock'
    BY <1>1, <2>3, Zenon DEF Pool!TypeOK, PoolTypes, PoolLock
  <2>5. CallsNamed => CallsNamed'
    BY <1>1, <2>3, Zenon DEF CallsNamed
  <2>6. PoolNames'
    BY <1>1, <2>5, Zenon DEF PoolNames, Placed, ActorsNamed, TodoNext
  <2>7. QED BY <2>4, <2>6, Zenon
<1>2. ASSUME NEW c \in Callers, Pool!Call(c) PROVE PoolInv'
  <2> DEFINE h == Pool!Selected
  <2>1. h \in 1..Len(handle) /\ nextIndex' \in Nat
    BY <1>2, PoolSelects, Zenon DEF Pool!Call
  <2>2. UNCHANGED <<workers, lock, resizer, live, failedCreate>>
    BY <1>2, Zenon DEF Pool!Call
  <2>3. CASE UNCHANGED <<handle, replaced>> /\ \E o \in {"done", "failed"} : Pool!Ends(c, o)
    BY <1>1, <2>1, <2>2, <2>3, Zenon DEF PoolTypes
  <2>4. ASSUME NEW i \in Pool!PositionOf(h),
               pcall' = [pcall EXCEPT ![c] = [pc |-> "replace", h |-> h, idx |-> i - 1]],
               handle' = Pool!Faulted(h),
               replaced' = [replaced EXCEPT ![h] = Append(@, 0)]
        PROVE  PoolInv'
    <3>1. i \in 1..Len(workers) /\ workers[i] = h /\ i - 1 \in Pool!Names
      BY <2>4 DEF Pool!PositionOf, Pool!TypeOK, PoolLock, Pool!Names
    <3>2. /\ handle' \in Seq(Handle) /\ Len(handle') = Len(handle)
          /\ \A g \in 1..Len(handle) : handle'[g].name = handle[g].name /\ handle'[g].actor = handle[g].actor
      <4> DEFINE e == [handle[h] EXCEPT !.faults = (@ \cap Pool!Young(h)) \cup {Len(replaced[h]) + 1}]
      <4>1. handle[h] \in Handle /\ Len(replaced[h]) \in Nat
        BY <2>1 DEF PoolTypes
      <4>2. e \in Handle /\ e.name = handle[h].name /\ e.actor = handle[h].actor
        BY <4>1 DEF Handle
      <4>3. handle' = [handle EXCEPT ![h] = e]
        BY <2>4, Zenon DEF Pool!Faulted
      <4> HIDE DEF e, h
      <4>4. QED BY <2>1, <4>2, <4>3, SeqUpdate DEF PoolTypes
    <3>3. replaced' \in Seq(Seq(Nat)) /\ Len(replaced') = Len(replaced)
      BY <2>1, <2>4 DEF PoolTypes
    <3>a. [pc |-> "replace", h |-> h, idx |-> i - 1] \in CallState
      BY <2>1, <3>1 DEF CallState, Pool!Names
    <3>b. \A d \in Callers : /\ pcall' \in [Callers -> CallState]
                             /\ d = c => pcall'[d].h = h /\ pcall'[d].idx = i - 1
                             /\ d # c => pcall'[d] = pcall[d]
      BY <2>4, <3>a, Zenon DEF PoolTypes
    <3> HIDE DEF h
    <3>4. Pool!TypeOK' /\ PoolLock'
      BY <2>1, <2>2, <3>2, Zenon DEF Pool!TypeOK, PoolLock
    <3>5. PoolTypes'
      BY <2>1, <2>2, <3>1, <3>2, <3>3, <3>b, Zenon DEF PoolTypes
    <3>6. PoolNames'
      <4>1. Placed => Placed'
        BY <1>a, <2>2, <3>2, Zenon DEF Placed
      <4>2. ActorsNamed => ActorsNamed'
        BY <3>2, Zenon DEF ActorsNamed
      <4>3. Placed /\ CallsNamed => CallsNamed'
        <5> SUFFICES ASSUME Placed, CallsNamed, NEW d \in Callers, pcall'[d].pc \in {"replace", "retry"}
                     PROVE  handle'[pcall'[d].h].name = pcall'[d].idx
          BY Zenon DEF CallsNamed
        <5>1. CASE d = c
          <6>1. pcall'[d].h = h /\ pcall'[d].idx = i - 1 /\ handle'[h].name = handle[h].name
            BY <2>1, <3>2, <3>b, <5>1, Zenon
          <6>2. QED BY <3>1, <6>1, Zenon DEF Placed
        <5>2. CASE d # c
          BY <1>b, <3>2, <3>b, <5>2 DEF CallsNamed
        <5>3. QED BY <5>1, <5>2, Zenon
      <4>4. TodoNext => TodoNext'
        BY <2>2, Zenon DEF TodoNext
      <4>5. QED BY <2>2, <4>1, <4>2, <4>3, <4>4, Zenon DEF PoolNames
    <3>7. QED BY <3>4, <3>5, <3>6, Zenon
  <2>5. PICK o \in Pool!Outcomes(h) :
            IF o # "fault" \/ Pool!IsTripped(h)
            THEN Pool!Ends(c, IF o = "ok" THEN "done" ELSE "failed") /\ UNCHANGED <<handle, replaced>>
            ELSE \E i \in Pool!PositionOf(h) :
                 /\ pcall' = [pcall EXCEPT ![c] = [pc |-> "replace", h |-> h, idx |-> i - 1]]
                 /\ handle' = Pool!Faulted(h)
                 /\ replaced' = [replaced EXCEPT ![h] = Append(@, 0)]
    BY <1>2, Zenon DEF Pool!Call
  <2> HIDE DEF h
  <2>6. CASE o # "fault" \/ Pool!IsTripped(h)
    BY <2>3, <2>5, <2>6, Zenon
  <2>7. CASE ~(o # "fault" \/ Pool!IsTripped(h))
    BY <2>4, <2>5, <2>7, Zenon
  <2>8. QED BY <2>6, <2>7, Zenon
<1>3. ASSUME NEW c \in Callers, Pool!CallEmpty(c) \/ Pool!ReplaceFails(c) \/ Pool!Retry(c) PROVE PoolInv'
  <2>1. /\ \E o \in {"done", "failed"} : Pool!Ends(c, o)
        /\ UNCHANGED <<workers, nextIndex, lock, resizer, handle, replaced, live>>
        /\ failedCreate' = failedCreate \/ failedCreate' = TRUE
    BY <1>3, Zenon DEF Pool!CallEmpty, Pool!ReplaceFails, Pool!Retry, Pool!poolVars
  <2>2. nextIndex' \in Nat /\ live' \subseteq live
    BY <2>1, Zenon DEF Pool!TypeOK
  <2>3. failedCreate' \in BOOLEAN /\ (failedCreate => failedCreate')
    <3>1. CASE failedCreate' = failedCreate
      BY <3>1, Zenon DEF PoolTypes
    <3>2. CASE failedCreate' = TRUE
      BY <3>2, Zenon
    <3>3. QED BY <2>1, <3>1, <3>2, Zenon
  <2>4. QED BY <1>1, <2>1, <2>2, <2>3, Zenon
<1>4. ASSUME NEW c \in Callers, Pool!ReplaceOk(c) PROVE PoolInv'
  <2> DEFINE h == pcall[c].h
             i == pcall[c].idx
  <2>1. h \in 1..Len(handle) /\ i \in Pool!Names
    BY <1>4, Zenon DEF Pool!ReplaceOk, PoolTypes
  <2>2. /\ pcall[c].pc = "replace"
        /\ live' = live \cup {i} /\ handle' = [handle EXCEPT ![h].actor = i]
        /\ pcall' = [pcall EXCEPT ![c].pc = "retry"]
        /\ UNCHANGED <<workers, nextIndex, lock, resizer, replaced, failedCreate>>
    BY <1>4, Zenon DEF Pool!ReplaceOk, Pool!poolVars
  <2>3. /\ handle' \in Seq(Handle) /\ Len(handle') = Len(handle)
        /\ \A g \in 1..Len(handle) : /\ handle'[g].name = handle[g].name
                                     /\ handle'[g].actor = IF g = h THEN i ELSE handle[g].actor
    <3> DEFINE e == [handle[h] EXCEPT !.actor = i]
    <3>1. handle[h] \in Handle /\ i \in Nat
      BY <2>1 DEF PoolTypes, Pool!Names
    <3>2. e \in Handle /\ e.name = handle[h].name /\ e.actor = i
      BY <3>1, Zenon DEF Handle
    <3>3. handle' = [handle EXCEPT ![h] = e]
      BY <2>2, Zenon
    <3> HIDE DEF e, h, i
    <3>4. QED BY <2>1, <3>2, <3>3, SeqUpdate DEF PoolTypes
  <2>4. /\ pcall' \in [Callers -> CallState]
        /\ \A d \in Callers : /\ pcall'[d].h = pcall[d].h /\ pcall'[d].idx = pcall[d].idx
                              /\ pcall'[d].pc \in {"replace", "retry"} => pcall[d].pc \in {"replace", "retry"}
    BY <2>2, Zenon DEF PoolTypes, CallState
  <2>5. Pool!TypeOK' /\ PoolLock'
    BY <2>1, <2>2, <2>3, Zenon DEF Pool!TypeOK, PoolLock
  <2>6. PoolTypes'
    BY <2>2, <2>3, <2>4, Zenon DEF PoolTypes
  <2>7. PoolNames'
    <3>1. Placed => Placed'
      BY <1>a, <2>2, <2>3, Zenon DEF Placed
    <3>2. CallsNamed => handle[h].name = i
      BY <2>2, Zenon DEF CallsNamed
    <3>3. CallsNamed /\ ActorsNamed => ActorsNamed'
      BY <2>3, <3>2, Zenon DEF ActorsNamed
    <3>4. CallsNamed => CallsNamed'
      BY <1>b, <2>3, <2>4 DEF CallsNamed
    <3>5. TodoNext => TodoNext'
      BY <2>2, Zenon DEF TodoNext
    <3>6. QED BY <2>2, <3>1, <3>3, <3>4, <3>5, Zenon DEF PoolNames
  <2>8. QED BY <2>5, <2>6, <2>7, Zenon
<1>5. ASSUME NEW r \in Resizers, Pool!Ask(r) \/ Pool!Resized(r) PROVE PoolInv'
  <2>1. PICK z \in {"waiting", "done"} : resizer' = [resizer EXCEPT ![r].pc = z]
    BY <1>5, Zenon DEF Pool!Ask, Pool!Resized
  <2>2. /\ resizer' \in [Resizers -> [pc : {"idle", "waiting", "create", "done"}, todo : Seq(Pool!Names)]]
        /\ resizer'[r].pc # "create" /\ \A q \in Resizers : q # r => resizer'[q] = resizer[q]
    <3>1. resizer[r] \in [pc : {"idle", "waiting", "create", "done"}, todo : Seq(Pool!Names)]
      BY Zenon DEF PoolTypes
    <3>4. [resizer[r] EXCEPT !.pc = z] = [pc |-> z, todo |-> resizer[r].todo]
      BY <3>1
    <3>2. resizer' = [resizer EXCEPT ![r] = [pc |-> z, todo |-> resizer[r].todo]]
      BY <2>1, <3>4, Zenon
    <3>3. QED BY <3>1, <3>2, Zenon DEF PoolTypes
  <2>3. UNCHANGED <<workers, handle, nextIndex, live, pcall, replaced, failedCreate>>
    BY <1>5, Zenon DEF Pool!Ask, Pool!Resized
  <2>8. lock' \in Resizers \cup {Nobody} /\ \A q \in Resizers : q # r /\ lock = q => lock' = q
    BY <1>5, Zenon DEF Pool!Ask, Pool!Resized, Pool!TypeOK, PoolLock
  <2>4. Pool!TypeOK' /\ PoolTypes' /\ PoolLock'
    BY <2>2, <2>3, <2>8, Zenon DEF Pool!TypeOK, PoolTypes, PoolLock
  <2>5. TodoNext => TodoNext'
    BY <2>2, <2>3, Zenon DEF TodoNext
  <2>6. PoolNames'
    BY <2>3, <2>5, Zenon DEF PoolNames, Placed, ActorsNamed, CallsNamed
  <2>7. QED BY <2>4, <2>6, Zenon
<1>6. ASSUME NEW r \in Resizers, Pool!Resize(r) PROVE PoolInv'
  <2>1. PICK n \in 0..MaxSize :
            /\ resizer' = [resizer EXCEPT ![r] = [pc |-> "create", todo |-> Pool!Missing(n)]]
            /\ IF n < Len(workers)
               THEN /\ workers' = SubSeq(workers, 1, n)
                    /\ nextIndex' = nextIndex % (IF n = 0 THEN 1 ELSE n)
               ELSE UNCHANGED <<workers, nextIndex>>
    BY <1>6, Zenon DEF Pool!Resize
  <2>2. /\ lock = Nobody /\ lock' = r
        /\ UNCHANGED <<handle, live, pcall, replaced, failedCreate>>
    BY <1>6, Zenon DEF Pool!Resize, Pool!Locked
  <2>3. /\ workers' \in Seq(1..Len(handle)) /\ Len(workers') <= Len(workers)
        /\ Len(workers') = IF n < Len(workers) THEN n ELSE Len(workers)
        /\ \A i \in 1..Len(workers') : workers'[i] = workers[i]
    BY <2>1 DEF Pool!TypeOK
  <2>4. /\ Pool!Missing(n) \in Seq(Pool!Names)
        /\ Len(workers') + Len(Pool!Missing(n)) <= MaxSize
        /\ \A k \in 1..Len(Pool!Missing(n)) : Pool!Missing(n)[k] = Len(workers') + k - 1
    <3> DEFINE m == IF n > Len(workers) THEN n - Len(workers) ELSE 0
    <3>0. Len(workers) \in Nat /\ Len(workers) <= MaxSize /\ n \in 0..MaxSize /\ MaxSize \in Nat
      BY <2>1 DEF Pool!TypeOK, PoolLock
    <3>1. /\ m \in Nat /\ Len(workers) \in Nat /\ Len(workers') + m <= MaxSize
          /\ m > 0 => Len(workers') = Len(workers) /\ Len(workers) + m = n
      <4>1. CASE n > Len(workers)
        BY <2>3, <3>0, <4>1
      <4>2. CASE n <= Len(workers)
        <5>1. m = 0 /\ Len(workers') <= Len(workers) /\ Len(workers') \in Nat
          BY <2>3, <3>0, <4>2
        <5> HIDE DEF m
        <5>2. QED BY <3>0, <5>1
      <4>3. QED BY <3>0, <4>1, <4>2
    <3> HIDE DEF m
    <3>2. \A k \in 1..m : Len(workers) + k - 1 \in Pool!Names
      BY <3>0, <3>1 DEF Pool!Names
    <3>3. Pool!Missing(n) = [k \in 1..m |-> Len(workers) + k - 1]
      BY Zenon DEF Pool!Missing, m
    <3>4. Pool!Missing(n) \in Seq(Pool!Names) /\ Len(Pool!Missing(n)) = m
      BY <3>1, <3>2, <3>3
    <3>5. QED BY <3>0, <3>1, <3>3, <3>4
  <2>5. nextIndex' \in Nat
    BY <2>1 DEF Pool!TypeOK
  <2>6. \A q \in Resizers : q # r => resizer'[q] = resizer[q] /\ resizer[q].pc # "create"
    BY <2>1, <2>2, Zenon DEF PoolTypes, PoolLock
  <2>7. Pool!TypeOK' /\ PoolTypes'
    BY <2>1, <2>2, <2>3, <2>4, <2>5, Zenon DEF Pool!TypeOK, PoolTypes
  <2>8. resizer'[r] = [pc |-> "create", todo |-> Pool!Missing(n)]
    BY <2>1, Zenon DEF PoolTypes
  <2>9. PoolLock'
    <3>1. Len(workers') <= MaxSize
      BY <2>3 DEF PoolLock, Pool!TypeOK
    <3>2. QED BY <2>2, <2>4, <2>6, <2>8, <3>1 DEF PoolLock
  <2>10. PoolNames'
    <3>1. Placed => Placed'
      <4>1. \A k \in 1..Len(workers') : k \in 1..Len(workers)
        BY <2>3 DEF Pool!TypeOK
      <4>2. QED BY <2>2, <2>3, <4>1, Zenon DEF Placed
    <3>2. TodoNext'
      BY <2>4, <2>6, <2>8 DEF TodoNext
    <3>3. QED BY <2>2, <3>1, <3>2, Zenon DEF PoolNames, ActorsNamed, CallsNamed
  <2>11. QED BY <2>7, <2>9, <2>10, Zenon
<1>7. ASSUME NEW r \in Resizers, Pool!Create(r) PROVE PoolInv'
  <2> DEFINE i == Head(resizer[r].todo)
  <2>1. /\ resizer[r].pc = "create" /\ resizer[r].todo # <<>>
        /\ resizer' = [resizer EXCEPT ![r].todo = Tail(@)]
        /\ UNCHANGED <<nextIndex, lock, pcall>>
    BY <1>7, Zenon DEF Pool!Create
  <2>2. /\ i \in Pool!Names /\ i = resizer[r].todo[1]
        /\ Tail(resizer[r].todo) \in Seq(Pool!Names)
        /\ Len(Tail(resizer[r].todo)) = Len(resizer[r].todo) - 1
        /\ \A k \in 1..Len(resizer[r].todo) - 1 : Tail(resizer[r].todo)[k] = resizer[r].todo[k + 1]
    BY <2>1 DEF PoolTypes
  <2>3. /\ resizer' \in [Resizers -> [pc : {"idle", "waiting", "create", "done"}, todo : Seq(Pool!Names)]]
        /\ resizer'[r].todo = Tail(resizer[r].todo) /\ resizer'[r].pc = "create"
        /\ \A q \in Resizers : q # r => resizer'[q] = resizer[q] /\ resizer[q].pc # "create"
    BY <2>1, <2>2, Zenon DEF PoolTypes, PoolLock
  <2>4. CASE /\ workers' = Append(workers, Len(handle) + 1)
             /\ handle' = Append(handle, [name |-> i, actor |-> i, faults |-> {}])
             /\ replaced' = Append(replaced, <<>>)
             /\ live' = live \cup {i}
             /\ UNCHANGED <<failedCreate, pfaults>>
    <3>1. [name |-> i, actor |-> i, faults |-> {}] \in Handle
      BY <2>2 DEF Pool!Names, Handle
    <3>2. /\ handle' \in Seq(Handle) /\ Len(handle') = Len(handle) + 1
          /\ handle'[Len(handle) + 1] = [name |-> i, actor |-> i, faults |-> {}]
          /\ \A g \in 1..Len(handle) : handle'[g] = handle[g]
      BY <2>4, <3>1 DEF PoolTypes
    <3>3. replaced' \in Seq(Seq(Nat)) /\ Len(replaced') = Len(replaced) + 1
      BY <2>4 DEF PoolTypes
    <3>4. /\ workers' \in Seq(1..Len(handle')) /\ Len(workers') = Len(workers) + 1
          /\ workers'[Len(workers) + 1] = Len(handle) + 1
          /\ \A k \in 1..Len(workers) : workers'[k] = workers[k]
      BY <2>4, <3>2 DEF Pool!TypeOK, PoolTypes
    <3>5. Pool!TypeOK' /\ PoolTypes'
      <4>1. Pool!TypeOK'
        BY <2>1, <2>2, <2>4, <3>4, Zenon DEF Pool!TypeOK
      <4>2. \A c \in Callers : pcall[c].pc \in {"replace", "retry"} => pcall[c].h \in 1..Len(handle')
        BY <1>b, <3>2 DEF PoolTypes
      <4>3. failedCreate' \in BOOLEAN /\ Len(replaced') = Len(handle')
        BY <2>4, <3>2, <3>3, Zenon DEF PoolTypes
      <4>4. PoolTypes'
        BY <2>1, <2>3, <3>2, <3>3, <4>2, <4>3, Zenon DEF PoolTypes
      <4>5. QED BY <4>1, <4>4, Zenon
    <3>6. PoolLock'
      <4>1. Len(workers) + Len(resizer[r].todo) <= MaxSize /\ lock = r
        BY <2>1, Zenon DEF PoolLock
      <4>2. Len(resizer[r].todo) \in Nat \ {0} /\ Len(workers) \in Nat
        BY <2>1 DEF PoolTypes, Pool!TypeOK
      <4>3. Len(workers') + Len(resizer'[r].todo) <= MaxSize /\ Len(workers') <= MaxSize
        <5>1. Len(workers') = Len(workers) + 1 /\ Len(resizer'[r].todo) = Len(resizer[r].todo) - 1
          BY <2>2, <2>3, <3>4, Zenon
        <5>2. \A a \in Nat, b \in Nat \ {0} : a + b <= MaxSize => (a + 1) + (b - 1) <= MaxSize /\ a + 1 <= MaxSize
          OBVIOUS
        <5>3. QED BY <4>1, <4>2, <5>1, <5>2, Zenon
      <4>4. QED BY <2>1, <2>3, <4>1, <4>3, Zenon DEF PoolLock
    <3>7. PoolNames'
      <4>1. SUFFICES ASSUME ~failedCreate' PROVE PoolNames'
        BY Zenon DEF PoolNames
      <4>2. ~failedCreate
        BY <2>4, <4>1, Zenon
      <4>3. Placed /\ ActorsNamed /\ CallsNamed /\ TodoNext
        BY <4>2, Zenon DEF PoolNames
      <4>4. 1 \in 1..Len(resizer[r].todo)
        BY <2>1 DEF PoolTypes
      <4>5. i = Len(workers)
        <5>1. resizer[r].todo[1] = Len(workers) + 1 - 1
          BY <2>1, <4>3, <4>4, Zenon DEF TodoNext
        <5>2. Len(workers) \in Nat
          BY DEF Pool!TypeOK
        <5>3. QED BY <2>2, <5>1, <5>2
      <4> HIDE DEF i
      <4>6. Placed'
        <5>1. \A k \in 1..Len(workers') : k \in 1..Len(workers) \/ k = Len(workers) + 1
          BY <3>4 DEF Pool!TypeOK
        <5>2. \A k \in 1..Len(workers) : handle'[workers'[k]].name = k - 1
          BY <1>a, <3>2, <3>4, <4>3, Zenon DEF Placed
        <5>3. handle'[workers'[Len(workers) + 1]].name = Len(workers) + 1 - 1
          BY <3>2, <3>4, <4>5 DEF Pool!TypeOK
        <5>4. QED BY <5>1, <5>2, <5>3 DEF Placed
      <4>7. ActorsNamed'
        <5>1. \A g \in 1..Len(handle') : g \in 1..Len(handle) \/ g = Len(handle) + 1
          BY <3>2 DEF PoolTypes
        <5>2. QED BY <3>2, <4>3, <5>1 DEF ActorsNamed
      <4>8. CallsNamed'
        BY <2>1, <3>2, <4>3, Zenon DEF CallsNamed, PoolTypes
      <4>9. TodoNext'
        <5>1. \A k \in 1..Len(resizer'[r].todo) : k + 1 \in 1..Len(resizer[r].todo)
          BY <2>1, <2>2, <2>3 DEF PoolTypes
        <5>2. \A k \in 1..Len(resizer'[r].todo) : resizer'[r].todo[k] = resizer[r].todo[k + 1]
          BY <2>1, <2>2, <2>3, Zenon DEF PoolTypes
        <5>5. \A k \in 1..Len(resizer'[r].todo) : resizer'[r].todo[k] = Len(workers) + (k + 1) - 1
          BY <2>1, <4>3, <5>1, <5>2, Zenon DEF TodoNext
        <5>6. Len(workers) \in Nat /\ Len(resizer'[r].todo) \in Nat
          BY <2>3 DEF Pool!TypeOK
        <5>3. \A k \in 1..Len(resizer'[r].todo) : resizer'[r].todo[k] = Len(workers') + k - 1
          BY <3>4, <5>5, <5>6
        <5>4. QED BY <2>3, <5>3, Zenon DEF TodoNext
      <4>10. QED BY <4>6, <4>7, <4>8, <4>9, Zenon DEF PoolNames
    <3>8. QED BY <3>5, <3>6, <3>7, Zenon
  <2>5. CASE failedCreate' = TRUE /\ UNCHANGED <<workers, handle, live, replaced>>
    BY <2>1, <2>2, <2>3, <2>5, SMTT(30) DEF Pool!TypeOK, PoolTypes, PoolLock, PoolNames
  <2>6. QED BY <1>7, <2>4, <2>5, Zenon DEF Pool!Create
<1>8. ASSUME NEW i \in live, Pool!ActorDies(i) PROVE PoolInv'
  BY <1>8, Zenon
     DEF Pool!ActorDies, Pool!poolVars, Pool!TypeOK, PoolTypes, PoolLock, PoolNames,
     Placed, ActorsNamed, CallsNamed, TodoNext
<1>9. CASE Pool!Tick
  <2>1. replaced' \in Seq(Seq(Nat)) /\ Len(replaced') = Len(handle)
    <3>1. \A h \in 1..Len(handle) : Pool!Aged(replaced[h]) \in Seq(Nat)
      <4> SUFFICES ASSUME NEW h \in 1..Len(handle) PROVE Pool!Aged(replaced[h]) \in Seq(Nat)
        OBVIOUS
      <4>1. replaced[h] \in Seq(Nat)
        BY DEF PoolTypes
      <4>2. \A k \in 1..Len(replaced[h]) : replaced[h][k] \in Nat
        BY <4>1
      <4>3. QED BY <4>1, <4>2, SMTT(30) DEF Pool!Aged
    <3>2. replaced' = [h \in 1..Len(handle) |-> Pool!Aged(replaced[h])] /\ Len(handle) \in Nat
      BY <1>9 DEF Pool!Tick, PoolTypes
    <3>3. QED BY <3>1, <3>2
  <2>2. UNCHANGED <<workers, nextIndex, lock, resizer, handle, live, pcall, failedCreate>>
    BY <1>9, Zenon DEF Pool!Tick, Pool!poolVars
  <2>3. QED BY <2>1, <2>2, Zenon DEF Pool!TypeOK, PoolTypes, PoolLock, PoolNames,
     Placed, ActorsNamed, CallsNamed, TodoNext
<1>10. CASE UNCHANGED Pool!vars
  BY <1>10, Zenon DEF Pool!vars, Pool!TypeOK, PoolTypes, PoolLock, PoolNames,
     Placed, ActorsNamed, CallsNamed, TodoNext
<1>11. QED
  BY <1>2, <1>3, <1>4, <1>5, <1>6, <1>7, <1>8, <1>9, <1>10, Zenon
     DEF Pool!Next, Pool!CallStep


----
\* What needs cardinalities: the replacements in a window.
INSTANCE FiniteSetTheorems

\* The part takes Cardinality from the same module.
LEMMA PoolCardinality == \A S : Pool!Cardinality(S) = Cardinality(S)
  BY Zenon DEF Pool!Cardinality, Cardinality

\* The breaker of a worker remembers every fault that is still in its window, so
\* that what is_tripped counts is what has been replaced.
PoolWindow ==
    \A h \in 1..Len(handle) :
        Pool!Young(h) \subseteq handle[h].faults /\ Cardinality(Pool!Young(h)) <= MaxReplaces

LEMMA YoungFinite ==
    ASSUME PoolInv, NEW h \in 1..Len(handle)
    PROVE  /\ IsFiniteSet(Pool!Young(h)) /\ Cardinality(Pool!Young(h)) \in Nat
           /\ Len(replaced[h]) \in Nat /\ replaced[h] \in Seq(Nat)
<1>1. Len(replaced[h]) \in Nat /\ replaced[h] \in Seq(Nat)
  BY DEF PoolInv, PoolTypes
<1>2. Pool!Young(h) \in SUBSET (1..Len(replaced[h]))
  BY Zenon DEF Pool!Young
<1>3. IsFiniteSet(1..Len(replaced[h]))
  BY <1>1, FS_Interval
<1>4. IsFiniteSet(Pool!Young(h))
  BY <1>2, <1>3, FS_Subset, Zenon
<1>5. QED BY <1>1, <1>4, FS_CardinalityType, Zenon

\* record_fault of a worker whose breaker is closed: one more in the window.
LEMMA YoungFaults ==
    ASSUME PoolInv, PoolWindow, NEW h \in 1..Len(handle), ~Pool!IsTripped(h),
           handle' = Pool!Faulted(h), replaced' = [replaced EXCEPT ![h] = Append(@, 0)]
    PROVE  PoolWindow'
<1> DEFINE n == Len(replaced[h]) + 1
           Y == Pool!Young(h)
<1> USE PoolAssumption
<1>0. handle \in Seq(Handle) /\ replaced \in Seq(Seq(Nat)) /\ Len(replaced) = Len(handle)
  BY Zenon DEF PoolInv, PoolTypes
<1>1. /\ IsFiniteSet(Y) /\ Cardinality(Y) \in Nat
      /\ Len(replaced[h]) \in Nat /\ replaced[h] \in Seq(Nat)
  BY YoungFinite, Zenon
<1>2. Cardinality(Y) < MaxReplaces
  <2>1. handle[h].faults \cap Y = Y
    BY Zenon DEF PoolWindow
  <2>2. ~(Cardinality(handle[h].faults \cap Y) >= MaxReplaces)
    BY PoolCardinality, Zenon DEF Pool!IsTripped
  <2>3. ~(Cardinality(Y) >= MaxReplaces)
    BY <2>1, <2>2, Zenon
  <2> HIDE DEF Y
  <2>4. QED BY <1>1, <2>3
<1>3. handle'[h].faults = Y \cup {n}
  <2>1. handle'[h].faults = (handle[h].faults \cap Y) \cup {n}
    BY <1>0 DEF Pool!Faulted, Handle
  <2>2. QED BY <2>1, Zenon DEF PoolWindow
<1>4. \A g \in 1..Len(handle) : g # h => handle'[g] = handle[g] /\ replaced'[g] = replaced[g]
  BY <1>0 DEF Pool!Faulted
<1>5. Len(handle') = Len(handle) /\ replaced'[h] = Append(replaced[h], 0)
  BY <1>0 DEF Pool!Faulted
<1>6. Pool!Young(h)' = Y \cup {n}
  <2>1. Len(replaced'[h]) = n /\ replaced'[h][n] = 0 /\ \A k \in 1..Len(replaced[h]) : replaced'[h][k] = replaced[h][k]
    BY <1>1, <1>5
  <2>2. 1..n = 1..Len(replaced[h]) \cup {n} /\ n \notin 1..Len(replaced[h])
    BY <1>1
  <2>3. QED BY <2>1, <2>2 DEF Pool!Young
<1>7. Cardinality(Y \cup {n}) <= MaxReplaces
  <2> HIDE DEF Y, n
  <2>1. Cardinality(Y \cup {n}) = IF n \in Y THEN Cardinality(Y) ELSE Cardinality(Y) + 1
    BY <1>1, FS_AddElement, Zenon
  <2>2. QED BY <1>1, <1>2, <2>1
<1>8. \A g \in 1..Len(handle) : g # h => Pool!Young(g)' = Pool!Young(g)
  BY <1>4, Zenon DEF Pool!Young
<1> HIDE DEF Y, n
<1>9. QED
  BY <1>3, <1>4, <1>5, <1>6, <1>7, <1>8, Zenon DEF PoolWindow

LEMMA PoolWindowNext ==
    PoolInv /\ PoolWindow /\ [Pool!Next]_(Pool!vars) => PoolWindow'
<1> SUFFICES ASSUME PoolInv, PoolWindow, [Pool!Next]_(Pool!vars) PROVE PoolWindow'
  OBVIOUS
<1> USE PoolAssumption
<1>0. handle \in Seq(Handle) /\ replaced \in Seq(Seq(Nat)) /\ Len(replaced) = Len(handle)
  BY Zenon DEF PoolInv, PoolTypes
<1>1. CASE UNCHANGED <<handle, replaced>>
  BY <1>1, Zenon DEF PoolWindow, Pool!Young
<1>2. ASSUME NEW c \in Callers, Pool!Call(c) PROVE PoolWindow'
  <2>1. PICK h \in 1..Len(handle) : h = Pool!Selected
    BY <1>2, PoolSelects, Zenon DEF Pool!Call
  <2>2. \/ UNCHANGED <<handle, replaced>>
        \/ /\ ~Pool!IsTripped(h) /\ handle' = Pool!Faulted(h)
           /\ replaced' = [replaced EXCEPT ![h] = Append(@, 0)]
    BY <1>2, <2>1, Zenon DEF Pool!Call
  <2>3. QED BY <1>1, <2>2, YoungFaults, Zenon
<1>3. ASSUME NEW c \in Callers, Pool!ReplaceOk(c) PROVE PoolWindow'
  <2>1. PICK h \in 1..Len(handle), i \in Nat : handle' = [handle EXCEPT ![h] = [handle[h] EXCEPT !.actor = i]]
    BY <1>3, Zenon DEF Pool!ReplaceOk, PoolInv, PoolTypes, CallState
  <2> DEFINE e == [handle[h] EXCEPT !.actor = i]
  <2>2. e.faults = handle[h].faults
    BY <1>0 DEF Handle
  <2> HIDE DEF e
  <2>3. handle' = [handle EXCEPT ![h] = e] /\ replaced' = replaced
    BY <1>3, <2>1, Zenon DEF e, Pool!ReplaceOk
  <2>4. Len(handle') = Len(handle) /\ \A g \in 1..Len(handle) : handle'[g].faults = handle[g].faults
    BY <1>0, <2>2, <2>3
  <2>5. QED BY <2>3, <2>4, Zenon DEF PoolWindow, Pool!Young
<1>4. ASSUME NEW r \in Resizers, Pool!Create(r) PROVE PoolWindow'
  <2>1. CASE UNCHANGED <<handle, replaced>>
    BY <1>1, <2>1, Zenon
  <2>2. CASE ~UNCHANGED <<handle, replaced>>
    <3>1. PICK i : handle' = Append(handle, [name |-> i, actor |-> i, faults |-> {}]) /\ replaced' = Append(replaced, <<>>)
      BY <1>4, <2>2, Zenon DEF Pool!Create
    <3>2. /\ Len(handle') = Len(handle) + 1 /\ replaced'[Len(handle) + 1] = <<>>
          /\ \A g \in 1..Len(handle) : handle'[g] = handle[g] /\ replaced'[g] = replaced[g]
      BY <1>0, <3>1
    <3>3. \A g \in 1..Len(handle') : g \in 1..Len(handle) \/ g = Len(handle) + 1
      BY <1>0, <3>2
    <3>5. \A g \in 1..Len(handle) : Pool!Young(g)' = Pool!Young(g)
      BY <3>2, Zenon DEF Pool!Young
    <3>6. \A g \in 1..Len(handle') : g = Len(handle) + 1 => Pool!Young(g)' = {}
      BY <3>2 DEF Pool!Young
    <3>7. Cardinality({}) <= MaxReplaces
      BY FS_EmptySet
    <3>8. QED BY <3>2, <3>3, <3>5, <3>6, <3>7, Zenon DEF PoolWindow
  <2>3. QED BY <2>1, <2>2, Zenon
<1>5. CASE Pool!Tick
  <2>1. replaced' = [h \in 1..Len(handle) |-> Pool!Aged(replaced[h])] /\ handle' = handle
    BY <1>5, Zenon DEF Pool!Tick
  <2>2. ASSUME NEW h \in 1..Len(handle)
        PROVE  Pool!Young(h)' \in SUBSET Pool!Young(h)
    <3>1. replaced[h] \in Seq(Nat) /\ replaced'[h] = Pool!Aged(replaced[h])
      BY <1>0, <2>1
    <3>2. /\ Len(replaced'[h]) = Len(replaced[h])
          /\ \A k \in 1..Len(replaced[h]) : replaced'[h][k] < Window => replaced[h][k] < Window
      BY <3>1 DEF Pool!Aged
    <3>3. QED BY <3>2, Zenon DEF Pool!Young
  <2>3. ASSUME NEW h \in 1..Len(handle)
        PROVE  Cardinality(Pool!Young(h)') <= MaxReplaces
    <3>1. IsFiniteSet(Pool!Young(h)) /\ Cardinality(Pool!Young(h)) \in Nat
      BY YoungFinite, Zenon
    <3>2. Cardinality(Pool!Young(h)') <= Cardinality(Pool!Young(h)) /\ IsFiniteSet(Pool!Young(h)')
      BY <2>2, <3>1, FS_Subset, Zenon
    <3>3. Cardinality(Pool!Young(h)') \in Nat
      BY <3>2, FS_CardinalityType, Zenon
    <3>4. Cardinality(Pool!Young(h)) <= MaxReplaces
      BY Zenon DEF PoolWindow
    <3>5. QED BY <3>1, <3>2, <3>3, <3>4
  <2>4. QED BY <2>1, <2>2, <2>3, Zenon DEF PoolWindow
<1>6. QED
  BY <1>1, <1>2, <1>3, <1>4, <1>5, Zenon
     DEF Pool!Next, Pool!CallStep, Pool!CallEmpty, Pool!ReplaceFails, Pool!Retry, Pool!Ask, Pool!Resize,
         Pool!Resized, Pool!ActorDies, Pool!vars

\* ActorPool: under overlapping resizes and replacements a worker keeps its name,
\* its place and its actor and the pool its bound, and no window sees more
\* replacements than the breaker allows (resize, _replace_worker, is_tripped).
THEOREM WorkloadCorrect == Pool!Spec => []WorkloadSound
<1>1. Pool!Init => PoolWindow
  BY DEF Pool!Init, PoolWindow
<1>2. PoolInv /\ PoolWindow => WorkloadSound
  <2>1. PoolInv => Pool!PoolSound
    <3> SUFFICES ASSUME PoolInv, ~failedCreate
                 PROVE  Len(workers) <= MaxSize /\ \A i \in 1..Len(workers) :
                            handle[workers[i]].name = i - 1 /\ handle[workers[i]].actor = i - 1
      BY Zenon DEF Pool!PoolSound
    <3>1. \A i \in 1..Len(workers) : workers[i] \in 1..Len(handle)
      BY DEF PoolInv, Pool!TypeOK
    <3>2. QED BY <3>1, Zenon DEF PoolInv, PoolLock, PoolNames, Placed, ActorsNamed
  <2>2. QED BY <2>1, PoolCardinality, Zenon
               DEF PoolWindow, Pool!ReplacesBounded, WorkloadSound
<1>3. QED
  BY PoolInit, PoolNext, PoolWindowNext, <1>1, <1>2, PTL DEF Pool!Spec

\* The part takes Cardinality from the same module.
LEMMA FetchCardinality == \A S : Fetch!Cardinality(S) = Cardinality(S)
  BY Zenon DEF Fetch!Cardinality, Cardinality

\* CodeFetcher. A process past its _gc_artifact_cache may add one entry.
Loading == {p \in Procs : pc[p] \in {"download", "verify", "extract"}}
FetchRoom == Len(ready) + Cardinality(Loading) <= MaxEntries - 1 + Cardinality(Procs)

LEMMA LoadingFinite ==
    /\ IsFiniteSet(Loading) /\ Cardinality(Loading) \in Nat
    /\ Cardinality(Procs) \in Nat /\ Cardinality(Loading) <= Cardinality(Procs)
<1>1. Loading \in SUBSET Procs
  BY Zenon DEF Loading
<1>2. IsFiniteSet(Loading) /\ Cardinality(Loading) <= Cardinality(Procs)
  BY <1>1, FS_Subset, FetchAssumption, Zenon
<1>3. QED BY <1>2, FS_CardinalityType, FetchAssumption, Zenon

LEMMA FetchRoomNext ==
    FetchInv /\ FetchRoom /\ [Fetch!Next]_(Fetch!vars) => FetchRoom'
<1> SUFFICES ASSUME FetchInv, FetchRoom, [Fetch!Next]_(Fetch!vars) PROVE FetchRoom'
  OBVIOUS
<1>0. /\ ready \in Seq(Keys)
      /\ pc \in [Procs -> {"idle", "gc", "download", "verify", "extract"}]
      /\ Len(ready) \in Nat /\ MaxEntries \in Nat \ {0}
  BY FetchAssumption DEF FetchInv, FetchFiles, Fetch!TypeOK
<1>1. /\ IsFiniteSet(Loading) /\ Cardinality(Loading) \in Nat /\ Cardinality(Procs) \in Nat
      /\ Cardinality(Loading') \in Nat /\ Cardinality(Loading') <= Cardinality(Procs)
  <2>1. Cardinality(Loading') \in Nat /\ Cardinality(Loading') <= Cardinality(Procs)
    <3>1. Loading' \in SUBSET Procs
      BY Zenon DEF Loading
    <3>2. IsFiniteSet(Loading') /\ Cardinality(Loading') <= Cardinality(Procs)
      BY <3>1, FS_Subset, FetchAssumption, Zenon
    <3>3. QED BY <3>2, FS_CardinalityType, Zenon
  <2>2. QED BY <2>1, LoadingFinite, Zenon
<1>2. CASE ready' = ready /\ Loading' = Loading
  BY <1>2, Zenon DEF FetchRoom
<1>3. ASSUME NEW p \in Procs, p \in Loading, Loading' = Loading \ {p},
             Len(ready') \in {Len(ready), Len(ready) + 1}
      PROVE  FetchRoom'
  <2>1. Cardinality(Loading') = Cardinality(Loading) - 1
    BY <1>1, <1>3, FS_RemoveElement, Zenon
  <2>2. QED BY <1>0, <1>1, <1>3, <2>1 DEF FetchRoom
<1>4. ASSUME NEW p \in Procs, Fetch!Gc(p) PROVE FetchRoom'
  <2>1. Len(ready') \in Nat /\ Len(ready') < MaxEntries
    <3>1. ready' = SubSeq(ready, Fetch!Evictions + 1, Len(ready))
      BY <1>4, Zenon DEF Fetch!Gc
    <3>2. /\ Fetch!Evictions \in 0..Len(ready) /\ Len(ready) - Fetch!Evictions < MaxEntries
          /\ Len(ready') = Len(ready) - Fetch!Evictions
      BY <1>0, <3>1, FetchKept, Zenon
    <3>3. QED BY <1>0, <3>2
  <2>2. QED BY <1>0, <1>1, <2>1 DEF FetchRoom
<1>5. ASSUME NEW p \in Procs,
             Fetch!DownloadFails(p) \/ Fetch!Extract(p) \/ Fetch!ExtractFails(p) \/ Fetch!Crash(p)
      PROVE  FetchRoom'
  <2>1. pc[p] \in {"download", "extract"} /\ pc' = [pc EXCEPT ![p] = "idle"]
    BY <1>5, Zenon
       DEF Fetch!DownloadFails, Fetch!Extract, Fetch!ExtractFails, Fetch!Crash, Fetch!At
  <2>2. p \in Loading /\ Loading' = Loading \ {p}
    BY <1>0, <2>1, Zenon DEF Loading
  <2>3. ready' = ready \/ \E k \in Keys : ready' = Append(ready, k)
    BY <1>5, Zenon
       DEF Fetch!DownloadFails, Fetch!Extract, Fetch!ExtractFails, Fetch!Crash,
           Fetch!Dies, FetchInv, FetchFiles
  <2>4. Len(ready') \in {Len(ready), Len(ready) + 1}
    BY <1>0, <2>3
  <2>5. QED BY <1>3, <2>2, <2>4, Zenon
<1>6. ASSUME NEW p \in Procs, Fetch!Verify(p) PROVE FetchRoom'
  <2>1. CASE pc[p] = "verify" /\ pc' = [pc EXCEPT ![p] = "extract"]
    BY <1>0, <1>2, <1>6, <2>1, Zenon DEF Loading, Fetch!Verify
  <2>2. CASE pc[p] = "verify" /\ pc' = [pc EXCEPT ![p] = "idle"]
    <3>1. p \in Loading /\ Loading' = Loading \ {p} /\ Len(ready') \in {Len(ready), Len(ready) + 1}
      BY <1>0, <1>6, <2>2, Zenon DEF Loading, Fetch!Verify
    <3>2. QED BY <1>3, <3>1, Zenon
  <2>3. QED BY <1>6, <2>1, <2>2, Zenon DEF Fetch!Verify, Fetch!At
<1>7. ASSUME NEW p \in Procs,
             \/ \E k \in Keys : Fetch!Deploy(p, k)
             \/ Fetch!BadUrl(p) \/ Fetch!Undeploy(p) \/ Fetch!Download(p) \/ Fetch!CrashInGc(p)
      PROVE  FetchRoom'
  <2>1. /\ ready' = ready
        /\ \/ UNCHANGED pc
           \/ pc[p] = "idle" /\ pc' = [pc EXCEPT ![p] = "gc"]
           \/ pc[p] = "download" /\ pc' = [pc EXCEPT ![p] = "verify"]
           \/ pc[p] = "gc" /\ pc' = [pc EXCEPT ![p] = "idle"]
    BY <1>7, Zenon
       DEF Fetch!Deploy, Fetch!BadUrl, Fetch!Undeploy, Fetch!Download, Fetch!CrashInGc,
           Fetch!Dies, Fetch!At
  <2>2. Loading' = Loading
    BY <1>0, <2>1, Zenon DEF Loading
  <2>3. QED BY <1>2, <2>1, <2>2, Zenon
<1>8. CASE UNCHANGED Fetch!vars
  BY <1>2, <1>8, Zenon DEF Fetch!vars, Loading
<1>9. QED
  BY <1>4, <1>5, <1>6, <1>7, <1>8, Zenon DEF Fetch!Next

\* CodeFetcher: the shared package cache stays within MAX entries and one per
\* further process, a ready entry holds what its checksum promises, and no archive
\* outlives its fetch (_gc_artifact_cache, _download, _extract), for any number of
\* processes, keys and faults.
THEOREM CacheCorrect == Fetch!Spec => []CacheSound
<1>1. Fetch!Init => FetchRoom
  <2>1. Fetch!Init => Loading = {} /\ ready = <<>>
    BY Zenon DEF Fetch!Init, Loading
  <2>2. Fetch!Init => Len(ready) = 0 /\ Cardinality(Loading) = 0
    BY <2>1, FS_EmptySet
  <2>3. QED BY <2>2, LoadingFinite, FetchAssumption DEF FetchRoom
<1>2. FetchInv /\ FetchRoom => CacheSound
  <2> SUFFICES ASSUME FetchInv, FetchRoom PROVE CacheSound
    OBVIOUS
  <2>1. Fetch!CacheBounded
    <3>1. Len(ready) \in Nat /\ MaxEntries \in Nat
      BY FetchAssumption DEF FetchInv, FetchFiles
    <3>2. Len(ready) <= MaxEntries + Cardinality(Procs) - 1
      BY <3>1, LoadingFinite DEF FetchRoom
    <3>3. QED BY <3>2, FetchCardinality, Zenon DEF Fetch!CacheBounded
  <2>2. Fetch!ReadyIsVerified
    BY Zenon DEF Fetch!ReadyIsVerified, Fetch!SetOf, FetchInv, FetchApart
  <2>3. Fetch!NoTempLeft
    BY Zenon DEF Fetch!NoTempLeft, FetchInv, FetchFiles
  <2>4. QED BY <2>1, <2>2, <2>3, Zenon DEF CacheSound
<1>3. QED
  BY FetchInit, FetchNext, FetchRoomNext, <1>1, <1>2, PTL DEF Fetch!Spec

\* The types of the two parts.
WorkersTypeOK == Pool!TypeOK /\ Fetch!TypeOK

\* The types of the two parts hold in every state.
THEOREM WorkersTypeCorrect == Pool!Spec /\ Fetch!Spec => []WorkersTypeOK
<1>1. PoolInv /\ FetchInv => WorkersTypeOK
  BY Zenon DEF PoolInv, FetchInv, WorkersTypeOK
<1>2. QED
  BY PoolInit, PoolNext, FetchInit, FetchNext, <1>1, PTL
     DEF Pool!Spec, Fetch!Spec
====
