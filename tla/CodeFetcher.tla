---- MODULE CodeFetcher ----
\* The artifact cache (src/platform/remote_code_fetcher.py) and the deployments
\* that use it (deploy and undeploy of src/agent/server.py). Several processes of
\* a host share the cache directory; a fetch blocks its own process only.
EXTENDS Integers, FiniteSets, Sequences

CONSTANTS
    Procs,
    Keys,        \* cache keys: an URL with the checksum it is fetched with
    Checked,     \* keys whose request names a checksum
    MaxEntries,  \* max_cache_entries
    MaxFaults    \* failed, corrupt or oversized downloads, unsafe archives, crashes

VARIABLES
    entry,     \* cache directory: what package/ of a key holds
    ready,     \* keys with a .ready marker, oldest first
    pc, key,   \* per process: where fetch_artifact is, and for which key
    tmp,       \* per process: what its temporary file holds, "none" when it has none
    deployed,  \* per process: deployed_packages' state of one package, whose versions are the keys
    torn,      \* history: two processes fetched one key at once, or one died evicting
    faults

vars == <<entry, ready, pc, key, tmp, deployed, torn, faults>>

Contents == {"none", "partial", "good", "bad"}
SetOf(s) == {s[i] : i \in 1..Len(s)}

Init ==
    /\ entry = [k \in Keys |-> "none"]
    /\ ready = <<>>
    /\ pc = [p \in Procs |-> "idle"]
    /\ key \in [Procs -> {CHOOSE k \in Keys : TRUE}]
    /\ tmp = [p \in Procs |-> "none"]
    /\ deployed = [p \in Procs |-> "none"]
    /\ torn = FALSE
    /\ faults = 0

Fault == faults < MaxFaults /\ faults' = faults + 1
At(p, here, there) == pc[p] = here /\ pc' = [pc EXCEPT ![p] = there]

\* The end of fetch_artifact in deploy: the package's state and, in the finally
\* blocks and error paths, the removal of the temporary file
FinishedKeepsTemp(p, st) ==
    /\ deployed' = [deployed EXCEPT ![p] = st]
    /\ UNCHANGED tmp
Finished(p, st) ==
    /\ deployed' = [deployed EXCEPT ![p] = st]
    /\ tmp' = [tmp EXCEPT ![p] = "none"]

Fetching(k) == {q \in Procs : pc[q] # "idle" /\ key[q] = k}

\* POST /deploy: validate_artifact_url, then the cache lookup
Deploy(p, k) ==
    /\ pc[p] = "idle"
    /\ key' = [key EXCEPT ![p] = k]
    /\ IF k \in SetOf(ready) /\ entry[k] # "none"
       THEN /\ deployed' = [deployed EXCEPT ![p] = "DEPLOYED"]
            /\ UNCHANGED <<pc, torn>>
       ELSE /\ deployed' = [deployed EXCEPT ![p] = "DOWNLOADING"]
            /\ pc' = [pc EXCEPT ![p] = "gc"]
            /\ torn' = (torn \/ Fetching(k) # {})
    /\ UNCHANGED <<entry, ready, tmp, faults>>

BadUrl(p) ==
    /\ pc[p] = "idle"
    /\ Fault
    /\ deployed' = [deployed EXCEPT ![p] = "FAILED"]
    /\ UNCHANGED <<entry, ready, pc, key, tmp, torn>>

\* _gc_artifact_cache: evict the oldest ready entries, by directory mtime
ExcessAll == Len(ready) - MaxEntries
Excess == Len(ready) - MaxEntries + 1
Evictions == IF Len(ready) < MaxEntries THEN 0 ELSE Excess
Evicted == SetOf(SubSeq(ready, 1, Evictions))
Gc(p) ==
    /\ At(p, "gc", "download")
    /\ entry' = [k \in Keys |-> IF k \in Evicted THEN "none" ELSE entry[k]]
    /\ ready' = SubSeq(ready, Evictions + 1, Len(ready))
    /\ torn' = (torn \/ \E k \in Evicted : Fetching(k) # {})
    /\ UNCHANGED <<key, tmp, deployed, faults>>

\* _download: stream into a temporary file, then compare the checksum
Download(p) ==
    /\ At(p, "download", "verify")
    /\ \/ tmp' = [tmp EXCEPT ![p] = "good"] /\ UNCHANGED faults
       \/ tmp' = [tmp EXCEPT ![p] = "bad"] /\ Fault
    /\ UNCHANGED <<entry, ready, key, deployed, torn>>
DownloadFails(p) ==
    /\ At(p, "download", "idle")
    /\ Fault
    /\ Finished(p, "FAILED")
    /\ UNCHANGED <<entry, ready, key, torn>>

VerifyAny(p) ==
    /\ At(p, "verify", "extract")
    /\ UNCHANGED <<entry, ready, key, tmp, deployed, torn, faults>>
Verify(p) ==
    /\ \/ /\ key[p] \in Checked => tmp[p] = "good"
          /\ At(p, "verify", "extract")
          /\ UNCHANGED <<tmp, deployed>>
       \/ /\ key[p] \in Checked /\ tmp[p] # "good"
          /\ At(p, "verify", "idle")
          /\ Finished(p, "FAILED")
    /\ UNCHANGED <<entry, ready, key, torn, faults>>

\* _extract, then ready_marker.touch; a refused archive has written nothing,
\* a failing extractall leaves a part behind
Extract(p) ==
    /\ At(p, "extract", "idle")
    /\ entry' = [entry EXCEPT ![key[p]] = tmp[p]]
    /\ ready' = IF key[p] \in SetOf(ready) THEN ready ELSE Append(ready, key[p])
    /\ Finished(p, "DEPLOYED")
    /\ UNCHANGED <<key, torn, faults>>
ExtractFails(p) ==
    /\ At(p, "extract", "idle")
    /\ Fault
    /\ \E left \in {entry[key[p]], "partial"} : entry' = [entry EXCEPT ![key[p]] = left]
    /\ Finished(p, "FAILED")
    /\ UNCHANGED <<ready, key, torn>>

Undeploy(p) ==
    /\ pc[p] = "idle"
    /\ deployed[p] # "none"
    /\ deployed' = [deployed EXCEPT ![p] = "none"]
    /\ UNCHANGED <<entry, ready, pc, key, tmp, torn, faults>>

\* The process dies and forgets its deployments. A half-extracted entry stays
\* behind, or, inside an eviction, a marker beside half a package; the temporary
\* file is nobody's.
Dies(p, k) ==
    /\ Fault
    /\ entry' = [entry EXCEPT ![k] = "partial"]
    /\ tmp' = [tmp EXCEPT ![p] = "none"]
    /\ deployed' = [deployed EXCEPT ![p] = "none"]
    /\ UNCHANGED <<ready, key>>
Crash(p) == At(p, "extract", "idle") /\ Dies(p, key[p]) /\ UNCHANGED torn
CrashInGc(p) == At(p, "gc", "idle") /\ torn' = TRUE /\ \E k \in Evicted : Dies(p, k)

Next == \E p \in Procs :
    \/ \E k \in Keys : Deploy(p, k)
    \/ BadUrl(p) \/ Undeploy(p) \/ Gc(p) \/ Download(p) \/ DownloadFails(p) \/ Verify(p)
    \/ Extract(p) \/ ExtractFails(p) \/ Crash(p) \/ CrashInGc(p)

Spec == Init /\ [][Next]_vars

TypeOK ==
    /\ entry \in [Keys -> Contents]
    /\ SetOf(ready) \subseteq Keys
    /\ pc \in [Procs -> {"idle", "gc", "download", "verify", "extract"}]
    /\ deployed \in [Procs -> {"none", "DOWNLOADING", "DEPLOYED", "FAILED"}]

\* With any number of processes at work the cache never holds more packages than
\* its limit and one per further process (_gc_artifact_cache runs before every
\* download and leaves room for one).
CacheBounded == Len(ready) <= MaxEntries + Cardinality(Procs) - 1

\* A .ready entry of a request that named a checksum holds what the checksum
\* promises, after failed and interrupted extractions too, unless two processes
\* fetched one key at once or one died inside an eviction (no lock, no rename).
ReadyIsVerified ==
    torn \/ \A k \in SetOf(ready) : k \in Checked => entry[k] = "good"

\* A process that is not fetching has no temporary archive left on disk, however
\* its fetch ended (the unlink on every path of _download and fetch_artifact).
NoTempLeft == \A p \in Procs : pc[p] = "idle" => tmp[p] = "none"
====
