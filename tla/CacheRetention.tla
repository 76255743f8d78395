---------------------------- MODULE CacheRetention ----------------------------
(* The job cache's bucket, and the processes that save, restore, sweep and     *)
(* delete in it (cache-service: cacheindex.go, retention.go, server/v1.go,     *)
(* v2.go, blob.go, retain.go). The bucket has no transactions: every put,      *)
(* delete and listing is a step of its own. One repository; an entry has one   *)
(* blob. Which entries are idle or over quota is left open: the access and     *)
(* adoption markers decide it, and nothing else depends on them.               *)
EXTENDS Naturals, FiniteSets

CONSTANTS
  Entries,       \* the entries that are ever saved
  Sweepers,      \* replicas' eviction loops and callers of Index.Remove
  UploadTTL,     \* how long a v2 session lasts
  DownloadLife,  \* DownloadTTL and TransferTimeout: how long a URL is read from
  BlobGrace, OrphanGrace,
  SweepLimit,    \* the time a sweep takes at most
  MaxBreaks,     \* store errors, deadlines and crashes
  MaxClock

ASSUME RetentionAssumption ==
  /\ {UploadTTL, DownloadLife, BlobGrace, OrphanGrace, SweepLimit, MaxBreaks,
      MaxClock} \subseteq Nat
  /\ "none" \notin Entries

VARIABLES
  clock,     \* time, from 1
  blobAt,    \* when the blob was written, 0 without one
  docs,      \* the entry documents
  tombAt,    \* when the tombstone was last written, 0 without one
  uploading, \* when the save that is under way wrote its blob, 0 before any
  published, \* entries whose save has ended with a document
  finding,   \* entries a lookup has read and not yet answered
  readUntil, \* until when somebody may read the blob through a URL
  sweeper,   \* per sweeper: [at, docs, blobs, tombs, now, since, todo, cur]
  excused,   \* blobs the store lost, or a sweep collected from old listings
  breaks     \* so far

bucket == <<blobAt, docs, tombAt>>
saves == <<uploading, published>>
cacheVars == <<clock, bucket, saves, finding, readUntil, sweeper, excused, breaks>>

Nobody == [e \in Entries |-> 0]
Resting == [at |-> "idle", docs |-> {}, blobs |-> Nobody, tombs |-> Nobody,
            now |-> 0, since |-> 0, todo |-> {}, cur |-> "none"]

RetentionInit ==
  /\ clock = 1
  /\ blobAt = Nobody /\ docs = {} /\ tombAt = Nobody
  /\ uploading = Nobody /\ published = {}
  /\ finding = {} /\ readUntil = Nobody
  /\ sweeper = [s \in Sweepers |-> Resting]
  /\ excused = {} /\ breaks = 0

Breaks == breaks < MaxBreaks /\ breaks' = breaks + 1

-----------------------------------------------------------------------------
(* A save writes the blob, in one request (v1) or at the block list of a       *)
(* session (v2), and publishes the entry in the same request or at finalize,   *)
(* as long as the session lasts. It is given up by doing nothing.              *)
NewBlob(e) ==
  /\ uploading[e] = 0
  /\ uploading' = [uploading EXCEPT ![e] = clock]
  /\ blobAt' = [blobAt EXCEPT ![e] = clock]
  /\ UNCHANGED <<clock, docs, tombAt, published, finding, readUntil, sweeper,
                 excused, breaks>>

Commit(e) ==
  /\ uploading[e] # 0 /\ e \notin published
  /\ clock - uploading[e] <= UploadTTL
  /\ docs' = docs \cup {e}
  /\ published' = published \cup {e}
  /\ UNCHANGED <<clock, blobAt, tombAt, uploading, finding, readUntil, sweeper,
                 excused, breaks>>

(* A restore reads the document, then makes sure of the blob, and hands out a  *)
(* URL.                                                                        *)
Lookup(e) ==
  /\ e \in docs \ finding
  /\ finding' = finding \cup {e}
  /\ UNCHANGED <<clock, saves, bucket, readUntil, sweeper, excused, breaks>>

servable(e) ==
  /\ e \in finding
  /\ finding' = finding \ {e}
  /\ readUntil' = IF blobAt[e] = 0 THEN readUntil
                  ELSE [readUntil EXCEPT ![e] = clock + DownloadLife]
  /\ UNCHANGED <<clock, saves, bucket, sweeper, excused, breaks>>

-----------------------------------------------------------------------------
(* scan: entries before blobs before tombstones. The sweep of a bucket that    *)
(* has never held anything is left out.                                        *)
At(s, at) == sweeper[s].at = at
Goes(s, at) == [sweeper EXCEPT ![s].at = at]

scanEntries(s) ==
  /\ At(s, "idle") /\ uploading # Nobody
  /\ sweeper' = [sweeper EXCEPT ![s] = [Resting EXCEPT !.at = "blobs", !.docs = docs,
                                                       !.since = clock]]
  /\ UNCHANGED <<clock, saves, bucket, finding, readUntil, excused, breaks>>

scanBlobs(s) ==
  /\ At(s, "blobs")
  /\ sweeper' = [Goes(s, "tombstones") EXCEPT ![s].blobs = blobAt]
  /\ UNCHANGED <<clock, saves, bucket, finding, readUntil, excused, breaks>>

scanTombstones(s) ==
  /\ At(s, "tombstones")
  /\ sweeper' = [Goes(s, "decide") EXCEPT ![s].tombs = tombAt]
  /\ UNCHANGED <<clock, saves, bucket, finding, readUntil, excused, breaks>>

(* sweepSnapshot: an entry whose document is gone by now counts only if the    *)
(* process has read it before; one without its blob goes, and so does any that *)
(* is idle or in excess of the quota. The kept ones stay in docs.              *)
(* Mutant of Dangling: an entry without its blob is kept like any other.       *)
DanglingKept(s) == {}
Dangling(s) == {e \in sweeper[s].docs : sweeper[s].blobs[e] = 0}
sweepSnapshot(s) ==
  /\ At(s, "decide")
  /\ \E known \in {sweeper[s].docs, sweeper[s].docs \cap docs} :
       \E gone \in SUBSET known :
         /\ Dangling(s) \cap known \subseteq gone
         /\ sweeper' = [Goes(s, "evict") EXCEPT ![s].docs = known \ gone,
                          ![s].todo = gone, ![s].now = clock]
  /\ UNCHANGED <<clock, saves, bucket, finding, readUntil, excused, breaks>>

(* Index.Remove, and the deletions of claimName and removeGitSeeds, evict what *)
(* they have listed, whatever a sweep does meanwhile.                          *)
removeEntry(s, e) ==
  /\ At(s, "idle") /\ e \in docs
  /\ sweeper' = [sweeper EXCEPT ![s] = [Resting EXCEPT !.at = "remove", !.todo = {e},
                                          !.since = clock]]
  /\ UNCHANGED <<clock, saves, bucket, finding, readUntil, excused, breaks>>

(* Mutant of evict: the tombstone is left out.                                 *)
evictUnmarked(s, e) ==
  /\ sweeper[s].at \in {"evict", "remove"} /\ sweeper[s].cur = "none"
  /\ e \in sweeper[s].todo
  /\ sweeper' = [sweeper EXCEPT ![s].cur = e]
  /\ UNCHANGED <<clock, saves, blobAt, docs, tombAt, finding, readUntil, excused, breaks>>

(* evict: the tombstone, then the document.                                    *)
evict(s, e) ==
  /\ sweeper[s].at \in {"evict", "remove"} /\ sweeper[s].cur = "none"
  /\ e \in sweeper[s].todo
  /\ tombAt' = [tombAt EXCEPT ![e] = clock]
  /\ sweeper' = [sweeper EXCEPT ![s].cur = e, ![s].tombs[e] = sweeper[s].now]
  /\ UNCHANGED <<clock, saves, blobAt, docs, finding, readUntil, excused, breaks>>

evictsDocument(s) ==
  /\ sweeper[s].at \in {"evict", "remove"} /\ sweeper[s].cur # "none"
  /\ docs' = docs \ {sweeper[s].cur}
  /\ sweeper' = [sweeper EXCEPT ![s].cur = "none", ![s].todo = @ \ {sweeper[s].cur}]
  /\ UNCHANGED <<clock, saves, blobAt, tombAt, finding, readUntil, excused, breaks>>

Evicted(s) ==
  /\ sweeper[s].at \in {"evict", "remove"} /\ sweeper[s].todo = {}
  /\ sweeper' = IF At(s, "evict") THEN [Goes(s, "collect") EXCEPT ![s].todo = Entries]
                ELSE [sweeper EXCEPT ![s] = Resting]
  /\ UNCHANGED <<clock, saves, bucket, finding, readUntil, excused, breaks>>

(* The rest of sweepSnapshot, for the blob and the tombstone of e: what the    *)
(* listings and the clock of the sweep say of them.                            *)
Tombstoned(w, e) == w.tombs[e] # 0
(* Mutant of OldBlob: the grace is left out.                                   *)
AnyBlob(w, e) == TRUE
OldTombstone(w, e) == Tombstoned(w, e) /\ w.now - w.tombs[e] >= BlobGrace
OldBlob(w, e) == w.now - w.blobs[e] >= OrphanGrace
DeletesBlob(w, e) ==
  /\ w.blobs[e] # 0 /\ e \notin w.docs
  /\ IF Tombstoned(w, e) THEN OldTombstone(w, e) ELSE OldBlob(w, e)
DeletesTombstone(w, e) ==
  \/ w.blobs[e] # 0 /\ e \in w.docs /\ OldTombstone(w, e)
  \/ w.blobs[e] = 0 /\ Tombstoned(w, e)

Done(s, e) == [sweeper EXCEPT ![s].todo = @ \ {e}]

(* An eviction has written a tombstone since the sweep listed them.            *)
Overtaken(s, e) == tombAt[e] > sweeper[s].tombs[e]
Excuses(s, e) == excused' = IF Overtaken(s, e) THEN excused \cup {e} ELSE excused

collectBlob(s, e) ==
  /\ At(s, "collect") /\ e \in sweeper[s].todo
  /\ DeletesBlob(sweeper[s], e)
  /\ blobAt' = [blobAt EXCEPT ![e] = 0]
  /\ sweeper' = IF Tombstoned(sweeper[s], e)
                THEN [sweeper EXCEPT ![s].blobs[e] = 0] ELSE Done(s, e)
  /\ Excuses(s, e)
  /\ UNCHANGED <<clock, saves, docs, tombAt, finding, readUntil, breaks>>

collectTombstone(s, e) ==
  /\ At(s, "collect") /\ e \in sweeper[s].todo
  /\ DeletesTombstone(sweeper[s], e)
  /\ tombAt' = [tombAt EXCEPT ![e] = 0]
  /\ Excuses(s, e)
  /\ sweeper' = Done(s, e)
  /\ UNCHANGED <<clock, saves, blobAt, docs, finding, readUntil, breaks>>

Collected(s) ==
  /\ At(s, "collect")
  /\ \A e \in sweeper[s].todo :
       ~DeletesBlob(sweeper[s], e) /\ ~DeletesTombstone(sweeper[s], e)
  /\ sweeper' = [sweeper EXCEPT ![s] = Resting]
  /\ UNCHANGED <<clock, saves, bucket, finding, readUntil, excused, breaks>>

-----------------------------------------------------------------------------
(* A store error, the deadline or a crash ends a sweep or a removal anywhere;  *)
(* the request under way may have been carried out.                            *)
breaksOff(s) ==
  /\ ~At(s, "idle")
  /\ Breaks
  /\ docs' \in {docs, docs \ {sweeper[s].cur}}
  /\ sweeper' = [sweeper EXCEPT ![s] = Resting]
  /\ UNCHANGED <<clock, saves, blobAt, tombAt, finding, readUntil, excused>>

(* The bucket's lifecycle rule, or an operator, deletes a blob.                *)
blobLost(e) ==
  /\ blobAt[e] # 0
  /\ Breaks
  /\ blobAt' = [blobAt EXCEPT ![e] = 0]
  /\ excused' = excused \cup {e}
  /\ UNCHANGED <<clock, saves, docs, tombAt, finding, readUntil, sweeper>>

(* A lookup has five seconds, the two writes of an eviction come together, and *)
(* a sweep has its deadline.                                                   *)
Tick ==
  /\ clock < MaxClock
  /\ finding = {}
  /\ \A s \in Sweepers : /\ sweeper[s].cur = "none"
                         /\ ~At(s, "idle") => clock - sweeper[s].since < SweepLimit
  /\ clock' = clock + 1
  /\ UNCHANGED <<bucket, saves, finding, readUntil, sweeper, excused, breaks>>

-----------------------------------------------------------------------------
Sweeps(s) ==
  \/ scanEntries(s) \/ scanBlobs(s) \/ scanTombstones(s) \/ sweepSnapshot(s)
  \/ evictsDocument(s) \/ Evicted(s) \/ Collected(s)
  \/ \E e \in Entries : evict(s, e) \/ collectBlob(s, e) \/ collectTombstone(s, e)

RetentionNext ==
  \/ \E e \in Entries : \/ NewBlob(e) \/ Commit(e) \/ Lookup(e) \/ servable(e)
                        \/ blobLost(e)
  \/ \E s \in Sweepers : \/ Sweeps(s) \/ breaksOff(s)
                         \/ \E e \in Entries : removeEntry(s, e)
  \/ Tick

RetentionSpec == RetentionInit /\ [][RetentionNext]_cacheVars

(* Every replica goes on sweeping.                                             *)
RetentionFairness == \A s \in Sweepers : WF_cacheVars(Sweeps(s))
RetentionFairSpec == RetentionSpec /\ RetentionFairness

-----------------------------------------------------------------------------
(* A restore that was handed a URL can read the bytes for as long as the URL   *)
(* and a download through it last, whatever replicas sweep, operators delete   *)
(* and processes die meanwhile (retention.go, BlobGrace and evict); but for    *)
(* bytes the store itself lost and for an entry evicted between a sweep's      *)
(* listing of the tombstones and what it then collects.                        *)
DownloadsCompleteApart ==
  \A e \in Entries \ excused : clock < readUntil[e] => blobAt[e] # 0

(* No step of the service leaves an entry without its bytes: not a sweep that  *)
(* listed the entries before a commit, not two sweeps at once, not one that    *)
(* stopped half way (retention.go, scan; cacheindex.go, servable).             *)
EntryHasBytes == \A e \in docs \ excused : blobAt[e] # 0

(* Bytes that somebody still needs are kept: those of a download promised to  *)
(* finish, and those an entry names (retention.go, sweepSnapshot and evict).   *)
BytesKept == DownloadsCompleteApart /\ EntryHasBytes

(* An entry that lost its bytes is removed, so that its key can be saved again *)
(* (retention.go, sweepSnapshot).                                              *)
EntriesSettled == \A e \in docs : blobAt[e] # 0
=============================================================================
