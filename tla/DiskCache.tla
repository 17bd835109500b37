----------------------------- MODULE DiskCache -----------------------------
(***************************************************************************)
(* The disk cache of internal/cache/disk: response files, the sharded LRU  *)
(* that tracks them, the byte counter that bounds them, the expiry sweep,  *)
(* the purges, and a restart that keeps the files and loses the rest.      *)
(*                                                                         *)
(* A response is a version number; 0 is "no file".  Every file operation,  *)
(* every critical section of a shard and every update of the counter is a  *)
(* step of its own, because nothing else orders them.  Sizes are uniform:  *)
(* a .meta file has MetaSize bytes and a .body file BodySize.              *)
(***************************************************************************)
EXTENDS Integers, Sequences, FiniteSets, FiniteSetsExt, LRUCache

CONSTANTS
  Clients,     \* goroutines that read and write entries
  Keys,        \* cache keys
  NumShards,   \* shardCount
  shard,       \* DiskCache.shard: a key's shard
  MetaSize, BodySize,
  MaxSize,     \* DiskCache.MaxSize, 0 for unlimited
  Environments,  \* what else happens, see IsEnvironment
  NoKey

\* One environment is chosen for a behavior: the keys that are requested, the
\* purge operations that happen, whether entries outlive MaxAge or a location's
\* TTL, and bounds on responses written, purges and restarts.
IsEnvironment(e) ==
  /\ e.keys \subseteq Keys
  /\ e.purges \subseteq {"host", "path", "all", "files"}
  /\ e.expiry \in BOOLEAN
  /\ e.maxWrites \in Nat /\ e.maxPurges \in Nat /\ e.maxCrashes \in Nat

ASSUME DiskCacheAssumption ==
  /\ NumShards \in Nat \ {0}
  /\ shard \in [Keys -> 1..NumShards]
  /\ MetaSize \in Nat \ {0} /\ BodySize \in Nat \ {0}
  /\ MaxSize \in Nat
  /\ \A e \in Environments : IsEnvironment(e)
  /\ NoKey \notin Keys

EntrySize == MetaSize + BodySize

VARIABLES
  meta, body,   \* the version in a key's .meta and .body file
  stale,        \* keys whose .meta file is older than the maximum age
  lru,          \* per shard, the tracked keys and sizes, most recent first
  overdue,      \* tracked keys whose expiresAt has passed
  CurrentSize,
  cl,           \* the clients
  sweeper,      \* the sweep goroutine
  purger,       \* the goroutine or process that purges
  env,          \* the environment of this behavior
  writes, purges, crashes,
  dead          \* history: versions that had been stored when a finished
                \* purge of their key began

files == <<meta, body, stale>>
index == <<lru, overdue>>
counts == <<env, writes, purges, crashes>>
vars == <<files, index, CurrentSize, cl, sweeper, purger, counts, dead>>

IdleClient  == [pc |-> "idle", key |-> NoKey, ver |-> 0, at |-> 1,
                victim |-> NoKey, owed |-> 0]
IdleSweeper == [pc |-> "idle", at |-> 1, keys |-> {}, owed |-> 0]
IdlePurger  == [pc |-> "idle", op |-> "none", keys |-> {}, key |-> NoKey,
                at |-> 1, owed |-> 0, doomed |-> {}]

Init ==
  /\ meta = [k \in Keys |-> 0]
  /\ body = [k \in Keys |-> 0]
  /\ stale = {}
  /\ lru = [s \in 1..NumShards |-> <<>>]
  /\ overdue = {}
  /\ CurrentSize = 0
  /\ cl = [c \in Clients |-> IdleClient]
  /\ sweeper = IdleSweeper
  /\ purger = IdlePurger
  /\ env \in Environments
  /\ writes = 0 /\ purges = 0 /\ crashes = 0
  /\ dead = {}

-----------------------------------------------------------------------------
(* Files and shards *)

writeMeta(k, v) == /\ meta' = [meta EXCEPT ![k] = v]
                   /\ stale' = stale \ {k}

removeMeta(k) == writeMeta(k, 0)

removeBody(k) == body' = [body EXCEPT ![k] = 0]

Tracked(k) == InCache(lru[shard[k]], k)

TrackedSize(k) == GetValue(lru[shard[k]], k)

\* Mutant: the size of the entry that is replaced is not given back.
putDeltaGross(k, size) == size

\* lruShard.put returns by how much the tracked bytes grow.
putDelta(k, size) == size - (IF Tracked(k) THEN TrackedSize(k) ELSE 0)

\* Mutant: a present key is pushed again instead of being moved.
putAgain(k, size) ==
  /\ lru' = [lru EXCEPT ![shard[k]] =
                addToFront(@, [key |-> k, value |-> size])]
  /\ overdue' = overdue \ {k}

put(k, size) ==
  /\ lru' = [lru EXCEPT ![shard[k]] = Put(@, Len(@) + 1, k, size)]
  /\ overdue' = overdue \ {k}

\* lruShard.remove and the loops that unlink several entries of a shard.
untrack(s, ks) ==
  /\ lru' = [lru EXCEPT ![s] = SelectSeq(@, LAMBDA e : e.key \notin ks)]
  /\ overdue' = overdue \ ks

KeysOf(s) == {lru[s][i].key : i \in DOMAIN lru[s]}

SizeOf(ks) == MapThenSumSet(TrackedSize, ks)

-----------------------------------------------------------------------------
(* SetResponseToCache *)

At(c, s) == cl[c].pc = s

Goto(c, s) == cl' = [cl EXCEPT ![c].pc = s]

Return(c) == cl' = [cl EXCEPT ![c] = IdleClient]

StartWrite(c, k) ==
  /\ At(c, "idle")
  /\ k \in env.keys
  /\ writes < env.maxWrites
  /\ writes' = writes + 1
  /\ cl' = [cl EXCEPT ![c].pc = "space", ![c].key = k, ![c].ver = writes + 1]
  /\ UNCHANGED <<files, index, CurrentSize, sweeper, purger, env, purges, crashes, dead>>

\* Mutant: the new entry is left out of the comparison.
ensureSpaceLate(c) ==
  /\ At(c, "space")
  /\ IF MaxSize = 0 \/ CurrentSize <= MaxSize
     THEN Goto(c, "meta")
     ELSE cl' = [cl EXCEPT ![c].pc = "evict", ![c].at = 1]
  /\ UNCHANGED <<files, index, CurrentSize, sweeper, purger, counts, dead>>

\* ensureSpace loops until the entry fits or there is nothing to evict.
ensureSpace(c) ==
  /\ At(c, "space")
  /\ IF MaxSize = 0 \/ CurrentSize + EntrySize <= MaxSize
     THEN Goto(c, "meta")
     ELSE cl' = [cl EXCEPT ![c].pc = "evict", ![c].at = 1]
  /\ UNCHANGED <<files, index, CurrentSize, sweeper, purger, counts, dead>>

\* DiskCache.evict tries the shards in order; each is locked by itself.
evictShard(c) ==
  /\ At(c, "evict")
  /\ cl[c].at <= NumShards
  /\ LET s == cl[c].at IN
     IF lru[s] = <<>>
     THEN /\ cl' = [cl EXCEPT ![c].at = s + 1]
          /\ UNCHANGED index
     ELSE LET e == lru[s][Len(lru[s])] IN
          /\ untrack(s, {e.key})
          /\ cl' = [cl EXCEPT ![c].pc = "evicted", ![c].at = 1,
                              ![c].victim = e.key, ![c].owed = -e.value]
  /\ UNCHANGED <<files, CurrentSize, sweeper, purger, counts, dead>>

\* "cache full, cannot store entry".
CacheFull(c) ==
  /\ At(c, "evict")
  /\ cl[c].at = NumShards + 1
  /\ Return(c)
  /\ UNCHANGED <<files, index, CurrentSize, sweeper, purger, counts, dead>>

EvictAccount(c) ==
  /\ At(c, "evicted")
  /\ CurrentSize' = CurrentSize + cl[c].owed
  /\ cl' = [cl EXCEPT ![c].pc = "evictMeta", ![c].owed = 0]
  /\ UNCHANGED <<files, index, sweeper, purger, counts, dead>>

EvictMeta(c) ==
  /\ At(c, "evictMeta")
  /\ removeMeta(cl[c].victim)
  /\ Goto(c, "evictBody")
  /\ UNCHANGED <<body, index, CurrentSize, sweeper, purger, counts, dead>>

EvictBody(c) ==
  /\ At(c, "evictBody")
  /\ removeBody(cl[c].victim)
  /\ cl' = [cl EXCEPT ![c].pc = "space", ![c].victim = NoKey]
  /\ UNCHANGED <<meta, stale, index, CurrentSize, sweeper, purger, counts, dead>>

\* writeAtomic renames a complete temporary file into place, or fails.
WriteMeta(c) ==
  /\ At(c, "meta")
  /\ \/ writeMeta(cl[c].key, cl[c].ver) /\ Goto(c, "body")
     \/ Return(c) /\ UNCHANGED <<meta, stale>>
  /\ UNCHANGED <<body, index, CurrentSize, sweeper, purger, counts, dead>>

WriteBody(c) ==
  /\ At(c, "body")
  /\ \/ /\ body' = [body EXCEPT ![cl[c].key] = cl[c].ver]
        /\ Goto(c, "touch")
     \/ /\ Goto(c, "undo")
        /\ UNCHANGED body
  /\ UNCHANGED <<meta, stale, index, CurrentSize, sweeper, purger, counts, dead>>

UndoMeta(c) ==
  /\ At(c, "undo")
  /\ removeMeta(cl[c].key)
  /\ Return(c)
  /\ UNCHANGED <<body, index, CurrentSize, sweeper, purger, counts, dead>>

\* touch tracks the entry and owes the counter the difference.
touch(c) ==
  /\ At(c, "touch") \/ At(c, "hit")
  /\ LET size == IF At(c, "touch") THEN EntrySize ELSE MetaSize IN
     /\ put(cl[c].key, size)
     /\ cl' = [cl EXCEPT ![c].pc = "account",
                         ![c].owed = putDelta(cl[c].key, size)]
  /\ UNCHANGED <<files, CurrentSize, sweeper, purger, counts, dead>>

Account(c) ==
  /\ At(c, "account")
  /\ CurrentSize' = CurrentSize + cl[c].owed
  /\ Return(c)
  /\ UNCHANGED <<files, index, sweeper, purger, counts, dead>>
-----------------------------------------------------------------------------
(* StreamCachedResponse *)

StartRead(c, k) ==
  /\ k \in env.keys
  /\ At(c, "idle")
  /\ cl' = [cl EXCEPT ![c].pc = "stat", ![c].key = k]
  /\ UNCHANGED <<files, index, CurrentSize, sweeper, purger, counts, dead>>

Stat(c) ==
  /\ At(c, "stat")
  /\ CASE meta[cl[c].key] = 0   -> Return(c)
       [] cl[c].key \in stale    -> Goto(c, "expireMeta")
       [] OTHER                  -> Goto(c, "open")
  /\ UNCHANGED <<files, index, CurrentSize, sweeper, purger, counts, dead>>

\* An expired entry loses its files and its tracking entry.
ExpireMeta(c) ==
  /\ At(c, "expireMeta")
  /\ removeMeta(cl[c].key)
  /\ Goto(c, "expireBody")
  /\ UNCHANGED <<body, index, CurrentSize, sweeper, purger, counts, dead>>

ExpireBody(c) ==
  /\ At(c, "expireBody")
  /\ removeBody(cl[c].key)
  /\ Goto(c, "untrack")
  /\ UNCHANGED <<meta, stale, index, CurrentSize, sweeper, purger, counts, dead>>

Untrack(c) ==
  LET k == cl[c].key IN
  /\ At(c, "untrack")
  /\ IF Tracked(k)
     THEN /\ untrack(shard[k], {k})
          /\ cl' = [cl EXCEPT ![c].pc = "account", ![c].owed = -TrackedSize(k)]
     ELSE Return(c) /\ UNCHANGED index
  /\ UNCHANGED <<files, CurrentSize, sweeper, purger, counts, dead>>

\* The status and the headers are on their way once the metadata is read.
OpenMeta(c) ==
  /\ At(c, "open")
  /\ IF meta[cl[c].key] = 0
     THEN Return(c)
     ELSE Goto(c, "send")
  /\ UNCHANGED <<files, index, CurrentSize, sweeper, purger, counts, dead>>

\* An open file is readable to its end, whoever removes it meanwhile.
OpenBody(c) ==
  /\ At(c, "send")
  /\ IF body[cl[c].key] = 0
     THEN Return(c)
     ELSE Goto(c, "hit")
  /\ UNCHANGED <<files, index, CurrentSize, sweeper, purger, counts, dead>>

\* The client goes away while the body is copied: the entry is not touched.
CopyFails(c) ==
  /\ At(c, "hit")
  /\ Return(c)
  /\ UNCHANGED <<files, index, CurrentSize, sweeper, purger, counts, dead>>

-----------------------------------------------------------------------------
(* The sweep: the shards in order, each locked by itself *)

StartSweep ==
  /\ env.expiry
  /\ sweeper.pc = "idle"
  /\ sweeper' = [IdleSweeper EXCEPT !.pc = "find"]
  /\ UNCHANGED <<files, index, CurrentSize, cl, purger, counts, dead>>

findExpired ==
  LET s == sweeper.at
      expired == KeysOf(s) \cap overdue
  IN
  /\ sweeper.pc = "find"
  /\ s <= NumShards
  /\ untrack(s, expired)
  /\ sweeper' = [sweeper EXCEPT !.pc = "files", !.keys = expired,
                                !.owed = -SizeOf(expired)]
  /\ UNCHANGED <<files, CurrentSize, cl, purger, counts, dead>>

\* The .meta file is removed.  The path built for the .body file lacks the
\* key's directory, so that os.Remove finds nothing.
SweepFile(k) ==
  /\ sweeper.pc = "files"
  /\ k \in sweeper.keys
  /\ removeMeta(k)
  /\ sweeper' = [sweeper EXCEPT !.keys = @ \ {k}]
  /\ UNCHANGED <<body, index, CurrentSize, cl, purger, counts, dead>>

SweepAccount ==
  /\ sweeper.pc = "files"
  /\ sweeper.keys = {}
  /\ CurrentSize' = CurrentSize + sweeper.owed
  /\ sweeper' = IF sweeper.at = NumShards
                THEN IdleSweeper
                ELSE [sweeper EXCEPT !.pc = "find", !.at = @ + 1, !.owed = 0]
  /\ UNCHANGED <<files, index, cl, purger, counts, dead>>

-----------------------------------------------------------------------------
(* Purges.  "host" is PurgeByHost, "path" is purgeByHostPath, "all" is       *)
(* PurgeAll; "files" is PurgeFiles, run by another process on the files.     *)

\* The version of k whose write has finished, if any.
Stored(k) ==
  IF meta[k] = body[k] /\ ~\E c \in Clients : At(c, "touch") /\ cl[c].key = k
  THEN meta[k] ELSE 0

StartPurge(op, ks) ==
  /\ purger.pc = "idle"
  /\ purges < env.maxPurges
  /\ purges' = purges + 1
  /\ purger' = [IdlePurger EXCEPT
                  !.pc = IF op = "files" THEN "walk" ELSE "shards",
                  !.op = op, !.keys = ks,
                  !.doomed = {Stored(k) : k \in ks} \ {0}]
  /\ UNCHANGED <<files, index, CurrentSize, cl, sweeper, env, writes, crashes, dead>>

\* Mutant: every entry of the shard is counted as purged.
PurgeShardCountsAll ==
  LET s == purger.at
      matched == {k \in KeysOf(s) \cap purger.keys : meta[k] # 0}
  IN
  /\ purger.pc = "shards"
  /\ purger.op \in {"host", "path"}
  /\ s <= NumShards
  /\ untrack(s, matched)
  /\ purger' = [purger EXCEPT
                  !.at = s + 1, !.owed = @ - Cardinality(KeysOf(s)),
                  !.pc = IF purger.op = "path" THEN "account" ELSE @]
  /\ UNCHANGED <<files, CurrentSize, cl, sweeper, counts, dead>>

\* PurgeByHost and purgeByHostPath untrack the entries whose .meta file can be
\* read and matches; the files stay.  The counter is given the number of
\* entries: at the end by the one, after each shard by the other.
PurgeShard ==
  LET s == purger.at
      matched == {k \in KeysOf(s) \cap purger.keys : meta[k] # 0}
  IN
  /\ purger.pc = "shards"
  /\ purger.op \in {"host", "path"}
  /\ s <= NumShards
  /\ untrack(s, matched)
  /\ purger' = [purger EXCEPT
                  !.at = s + 1, !.owed = @ - Cardinality(matched),
                  !.pc = IF purger.op = "path" THEN "account" ELSE @]
  /\ UNCHANGED <<files, CurrentSize, cl, sweeper, counts, dead>>

PurgeAccount ==
  /\ purger.pc = "account"
  /\ CurrentSize' = CurrentSize + purger.owed
  /\ purger' = [purger EXCEPT !.pc = "shards", !.owed = 0]
  /\ UNCHANGED <<files, index, cl, sweeper, counts, dead>>

\* PurgeAll removes the files of the tracked entries under the shard's lock.
PurgeAllShard ==
  LET ks == KeysOf(purger.at) IN
  /\ purger.pc = "shards"
  /\ purger.op = "all"
  /\ purger.at <= NumShards
  /\ meta' = [k \in Keys |-> IF k \in ks THEN 0 ELSE meta[k]]
  /\ body' = [k \in Keys |-> IF k \in ks THEN 0 ELSE body[k]]
  /\ stale' = stale \ ks
  /\ untrack(purger.at, ks)
  /\ purger' = [purger EXCEPT !.at = @ + 1]
  /\ UNCHANGED <<CurrentSize, cl, sweeper, counts, dead>>

FinishPurge ==
  /\ purger.pc = "shards"
  /\ purger.at = NumShards + 1
  /\ CurrentSize' = IF purger.op = "all" THEN 0 ELSE CurrentSize + purger.owed
  /\ dead' = dead \cup purger.doomed
  /\ purger' = IdlePurger
  /\ UNCHANGED <<files, index, cl, sweeper, counts>>

\* PurgeFiles: a matching .meta file is read, then removed, then its .body.
purgeProbe(k) ==
  /\ purger.pc = "walk"
  /\ k \in purger.keys
  /\ purger' = IF meta[k] = 0
               THEN [purger EXCEPT !.keys = @ \ {k}]
               ELSE [purger EXCEPT !.keys = @ \ {k}, !.pc = "meta", !.key = k]
  /\ UNCHANGED <<files, index, CurrentSize, cl, sweeper, counts, dead>>

\* Mutant: only the .body file is removed.
PurgeMetaForgets ==
  /\ purger.pc = "meta"
  /\ purger' = [purger EXCEPT !.pc = "body"]
  /\ UNCHANGED <<files, index, CurrentSize, cl, sweeper, counts, dead>>

PurgeMeta ==
  /\ purger.pc = "meta"
  /\ removeMeta(purger.key)
  /\ purger' = [purger EXCEPT !.pc = "body"]
  /\ UNCHANGED <<body, index, CurrentSize, cl, sweeper, counts, dead>>

PurgeBody ==
  /\ purger.pc = "body"
  /\ removeBody(purger.key)
  /\ purger' = [purger EXCEPT !.pc = "walk", !.key = NoKey]
  /\ UNCHANGED <<meta, stale, index, CurrentSize, cl, sweeper, counts, dead>>

FinishWalk ==
  /\ purger.pc = "walk"
  /\ purger.keys = {}
  /\ dead' = dead \cup purger.doomed
  /\ purger' = IdlePurger
  /\ UNCHANGED <<files, index, CurrentSize, cl, sweeper, counts>>
-----------------------------------------------------------------------------
(* Time and restarts *)

AgeFile(k) ==
  /\ env.expiry
  /\ meta[k] # 0
  /\ k \notin stale
  /\ stale' = stale \cup {k}
  /\ UNCHANGED <<meta, body, index, CurrentSize, cl, sweeper, purger, counts, dead>>

AgeEntry(k) ==
  /\ env.expiry
  /\ Tracked(k)
  /\ k \notin overdue
  /\ overdue' = overdue \cup {k}
  /\ UNCHANGED <<files, lru, CurrentSize, cl, sweeper, purger, counts, dead>>

\* New: the files are still there, and nothing is tracked.
Restart ==
  /\ crashes < env.maxCrashes
  /\ crashes' = crashes + 1
  /\ lru' = [s \in 1..NumShards |-> <<>>]
  /\ overdue' = {}
  /\ CurrentSize' = 0
  /\ cl' = [c \in Clients |-> IdleClient]
  /\ sweeper' = IdleSweeper
  /\ purger' = IF purger.op = "files" THEN purger ELSE IdlePurger
  /\ UNCHANGED <<files, env, writes, purges, dead>>

ClientStep(c) ==
  \/ ensureSpace(c) \/ evictShard(c) \/ CacheFull(c) \/ EvictAccount(c)
  \/ EvictMeta(c) \/ EvictBody(c) \/ WriteMeta(c) \/ WriteBody(c) \/ UndoMeta(c)
  \/ touch(c) \/ Account(c) \/ Stat(c) \/ ExpireMeta(c) \/ ExpireBody(c)
  \/ Untrack(c) \/ OpenMeta(c) \/ OpenBody(c) \/ CopyFails(c)

SweepStep ==
  \/ StartSweep \/ findExpired \/ SweepAccount
  \/ \E k \in Keys : SweepFile(k)

PurgeStep ==
  \/ PurgeShard \/ PurgeAccount \/ PurgeAllShard \/ FinishPurge
  \/ PurgeMeta \/ PurgeBody \/ FinishWalk
  \/ \E k \in Keys : purgeProbe(k)

Next ==
  \/ \E c \in Clients, k \in Keys : StartWrite(c, k) \/ StartRead(c, k)
  \/ \E c \in Clients : ClientStep(c)
  \/ SweepStep
  \/ \E op \in env.purges :
       \E ks \in IF op = "all" THEN {env.keys} ELSE (SUBSET env.keys) \ {{}} :
         StartPurge(op, ks)
  \/ PurgeStep
  \/ \E k \in Keys : AgeFile(k) \/ AgeEntry(k)
  \/ Restart

Spec == Init /\ [][Next]_vars

-----------------------------------------------------------------------------
(* Properties *)

Versions == 0..env.maxWrites

TypeOK ==
  /\ meta \in [Keys -> Versions]
  /\ body \in [Keys -> Versions]
  /\ stale \subseteq Keys
  /\ \A s \in 1..NumShards :
       /\ \A i \in DOMAIN lru[s] : /\ shard[lru[s][i].key] = s
                                  /\ lru[s][i].value \in {MetaSize, EntrySize}
       /\ Unique(lru[s])
  /\ \A k \in overdue : Tracked(k)
  /\ CurrentSize \in Int
  /\ \A c \in Clients : /\ cl[c].ver \in Versions
                         /\ cl[c].key \in Keys \cup {NoKey}
                         /\ cl[c].at \in 1..(NumShards + 1)
  /\ dead \subseteq Versions

TrackedBytes == SizeOf(UNION {KeysOf(s) : s \in 1..NumShards})

Owed(c) == cl[c].owed

\* CurrentSize "tracks the total bytes of all entries": the counter is always
\* the tracked bytes, up to what the goroutines that have left a shard's lock
\* still owe it, whatever they do at the same time, as long as nothing but
\* PurgeFiles purges.  (The purges by host and by path subtract a number of
\* entries from a number of bytes: see NeverUndercounts.)
AccountingExact ==
  env.purges \subseteq {"files"} =>
    CurrentSize + MapThenSumSet(Owed, Clients) + sweeper.owed = TrackedBytes

\* ensureSpace tests the counter before the entry is counted, so concurrent
\* writers can pass together; but they overshoot MaxSize by no more than one
\* entry for every client but the one that passed last, as long as every file
\* is tracked.  (A hit tracks its entry without ensureSpace: what a restart, a
\* purge by host or path, or an expiry that races with a write leaves untracked
\* comes on top when it is read.  PurgeAll stores 0 while others are about to
\* count.)
BoundedOvershoot ==
  /\ MaxSize # 0 /\ EntrySize <= MaxSize
  /\ env.purges \subseteq {"files"} /\ env.maxCrashes = 0 /\ ~ env.expiry
  => TrackedBytes <= MaxSize + (Cardinality(Clients) - 1) * EntrySize

\* Purges by host and by path give the counter a number of entries for a
\* number of bytes.  It then counts too much, never too little: what is tracked
\* stays within what is counted and owed, also across restarts.  (PurgeAll
\* stores 0 while others still owe, and is left out.)
NeverUndercounts ==
  "all" \notin env.purges =>
    CurrentSize + MapThenSumSet(Owed, Clients) + sweeper.owed + purger.owed
      >= TrackedBytes

BeingEvicted(k) ==
  \E c \in Clients : cl[c].victim = k /\ cl[c].pc \in {"evicted", "evictMeta"}

\* A response that was stored when a purge began is not readable once the purge
\* has finished, whoever writes or evicts meanwhile, but for the file that an
\* eviction was about to remove when PurgeAll passed.
PurgedStaysPurged ==
  \A k \in Keys : meta[k] \in dead => BeingEvicted(k)

\* The purges that remove files are final in a process that is not restarted:
\* PurgeFiles leaves "never a stale serve", and PurgeAll "removes all cache entries".
FilePurgesFinal ==
  env.purges \subseteq {"files", "all"} /\ env.maxCrashes = 0 => PurgedStaysPurged
=============================================================================
