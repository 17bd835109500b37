---------------------------- MODULE MCDiskCache ----------------------------
(* DiskCache on small instances: k1 is in the first shard by itself.         *)
EXTENDS DiskCache, TLC

CONSTANTS k1, k2, k3

TwoShards == [k \in Keys |-> IF k = k1 THEN 1 ELSE 2]

Quiet == [keys |-> {k1, k2}, purges |-> {}, expiry |-> FALSE,
          maxWrites |-> 2, maxPurges |-> 0, maxCrashes |-> 0]

\* Entries expire on the disk and in the tracking list, and the sweep runs.
Expiring == [Quiet EXCEPT !.expiry = TRUE]

\* The cache is at its limit when two more entries are written.
Crowded == [Quiet EXCEPT !.keys = {k1, k2, k3}, !.maxWrites = 3]

\* A purge by host or by path, and a restart.
Drifting == [Quiet EXCEPT !.purges = {"host", "path"}, !.maxPurges = 1,
                          !.maxCrashes = 1]

\* The purges that remove files.
Purging(op) == [Quiet EXCEPT !.purges = {op}, !.maxPurges = 1]

AllEnvironments == {Expiring, Crowded, Drifting, Purging("files"), Purging("all")}

HostPurgeEnvironments == {[Quiet EXCEPT !.purges = {"host"}, !.maxPurges = 1]}

ClientSymmetry == Permutations(Clients)
=============================================================================
