------------------------ MODULE ControlPlaneProofs --------------------------
(***************************************************************************)
(* The safety properties of ControlPlane, for any directory, any names and *)
(* configs, and any number of edits, restarts and failed publishes.        *)
(*                                                                         *)
(* TypeOK is inductive with PlaceInv.  ByNameInv relates byName and the    *)
(* stream when no publish fails, RecordInv the two when the process is not *)
(* restarted; LoadInv relates what has been read to the directory, and     *)
(* ResultInv what a syncAll leaves behind.                                 *)
(***************************************************************************)
EXTENDS ControlPlane, TLAPS

\* Where the watcher is, and what waits for it.
PlaceInv ==
  /\ env \in Environments
  /\ pc = "idle" => watching
  /\ pc \in {"down", "synced"} => ~watching
  /\ dirty => pc = "idle"
  /\ starts = 0 => /\ pc = "down" /\ byName = NoNames /\ stream = NoNames
                   /\ unrecorded = {} /\ reverted = {}
  /\ pc = "update" => \A n \in todo : next[n] \notin {NoConfig, byName[n]}
  /\ pc = "delete" => \A n \in todo : next[n] = NoConfig /\ byName[n] # NoConfig

\* Without a failed publish, what byName has of a name is in the stream, or an
\* event that replaces it is.
ByNameInv ==
  ~env.failures =>
    /\ pc \in {"synced", "idle", "list", "read", "compare"} =>
         \A n \in Names : byName[n] # NoConfig => stream[n] = byName[n]
    /\ pc \in {"update", "delete"} =>
         \A n \in Names \ todo : next[n] # NoConfig => stream[n] = next[n]

\* In a process that is not restarted, byName says what the stream has, but for the
\* names whose event it does not know of; a syncAll brings all but the reverted
\* ones to what it has read.
RecordInv ==
  env.maxStarts = 1 =>
    /\ \A n \in Names \ unrecorded : Current(n) = byName[n]
    /\ pc \in {"update", "delete"} => \A n \in Names \ reverted :
         /\ next[n] # NoConfig /\ n \notin todo => Current(n) = next[n]
         /\ next[n] = NoConfig /\ byName[n] = NoConfig => Current(n) = NoConfig
         /\ next[n] = NoConfig /\ pc = "delete" /\ n \notin todo => Current(n) = NoConfig
    /\ ~env.failures => /\ reverted = {}
                        /\ pc \notin {"update", "delete"} => unrecorded = {}

\* The files that claim n and have been read.
Read(n) == Claimants(n) \ toRead

\* As long as no change is notified, the files that have been read are as they
\* were, and next is the outcome of reading them in order.
LoadInv ==
  Watched /\ ~notified /\ pc \in {"read", "compare", "update", "delete"} =>
    /\ pc # "read" => toRead = {}
    /\ \A f \in toRead : file[f] # NoFile
    /\ \A f \in Files \ toRead : file[f] # BadFile
    /\ \A f \in Files \ toRead : file[f] # NoFile => \A g \in toRead : f < g
    /\ pc = "read" /\ toRead = {} => \A f \in Files : file[f] = NoFile
    /\ \A n \in Names :
         \/ Read(n) = {} /\ next[n] = NoConfig
         \/ \E f \in Read(n) : next[n] = file[f] /\ \A g \in Read(n) : g <= f

\* A syncAll that nothing has been notified since has published what the
\* directory says, or has failed, without a failed publish for lack of something
\* to load.
ResultInv ==
  Watched /\ ~notified /\ ~dirty /\ pc \in {"synced", "idle"} =>
    /\ ok => \A n \in Names \ reverted : Current(n) = Desired(n)
    /\ ~ok /\ ~env.failures => ~Loadable

-----------------------------------------------------------------------------
(* Types, and where the watcher is *)

LEMMA TypeStep ==
  ASSUME TypeOK, PlaceInv, [Next]_vars
  PROVE TypeOK'
  <1> USE ControlPlaneAssumption DEF TypeOK, PlaceInv, NoNames, history, sync, watch, PCs
  <1>a. env.maxEdits \in Nat /\ env.maxStarts \in Nat
    BY Zenon DEF IsEnvironment
  <1>1. ASSUME NEW f \in Files, NEW c \in Contents, Edit(f, c)
        PROVE TypeOK'
    <2>1. edits' \in 0..env.maxEdits
      <3>1. edits \in 0..env.maxEdits /\ edits < env.maxEdits /\ edits' = edits + 1
        BY <1>1, Zenon DEF Edit
      <3> QED BY <1>a, <3>1
    <2>2. file' \in [Files -> Contents]
      BY <1>1, Zenon DEF Edit
    <2> QED BY <1>1, <2>1, <2>2, Zenon DEF Edit
  <1>2. CASE Start
    <2>1. starts' \in 0..env.maxStarts
      <3>1. starts \in 0..env.maxStarts /\ starts < env.maxStarts /\ starts' = starts + 1
        BY <1>2, Zenon DEF Start
      <3> QED BY <1>a, <3>1
    <2> QED BY <1>2, <2>1, Zenon DEF Start
  <1>3. CASE ListDir
    BY <1>3, Zenon DEF ListDir
  <1>4. CASE ReadFile
    <2>1. PICK f \in toRead :
            /\ IF file[f] \in Configs
               THEN /\ next' = [n \in Names |->
                                  IF n \in claims[file[f]] THEN file[f] ELSE next[n]]
                    /\ toRead' = toRead \ {f}
                    /\ pc' = IF toRead' = {} THEN "compare" ELSE "read"
                    /\ UNCHANGED <<byName, todo, watch, history>>
               ELSE SyncFails /\ UNCHANGED unrecorded
            /\ UNCHANGED <<file, stream, edits, starts>>
      BY <1>4, Zenon DEF ReadFile
    <2>2. CASE file[f] \in Configs
      BY <2>1, <2>2
    <2>3. CASE file[f] \notin Configs
      BY <2>1, <2>3, Zenon DEF SyncFails
    <2> QED BY <2>2, <2>3, Zenon
  <1>5. CASE NoTargetFiles
    BY <1>5, Zenon DEF NoTargetFiles, SyncFails
  <1>6. CASE Compare
    BY <1>6, Zenon DEF Compare
  <1>7. CASE CompareGone
    BY <1>7, Zenon DEF CompareGone
  <1>8. CASE FinishSync
    BY <1>8, Zenon DEF FinishSync
  <1>9. ASSUME NEW n \in Names, Publish(n)
        PROVE TypeOK'
    BY <1>9, Zenon DEF Publish
  <1>10. ASSUME NEW n \in Names, PublishFails(n)
         PROVE TypeOK'
    <2>1. stream' \in [Names -> Configs \cup {NoConfig, Tombstone}] /\ unrecorded' \subseteq Names
      BY <1>10 DEF PublishFails
    <2> QED BY <1>10, <2>1, Zenon DEF PublishFails, SyncFails
  <1>11. CASE AddWatch \/ Notice \/ TimerFires
    BY <1>11, Zenon DEF AddWatch, Notice, TimerFires
  <1>12. CASE Stop
    BY <1>12, Zenon DEF Stop
  <1>13. CASE UNCHANGED vars
    BY <1>13 DEF vars
  <1> QED
    BY <1>1, <1>2, <1>3, <1>4, <1>5, <1>6, <1>7, <1>8, <1>9, <1>10, <1>11, <1>12, <1>13, Zenon
      DEF Next, PublisherStep

LEMMA PlaceStep ==
  ASSUME TypeOK, PlaceInv, [Next]_vars
  PROVE PlaceInv'
  <1>a. starts \in Nat
    BY ControlPlaneAssumption DEF TypeOK, IsEnvironment
  <1>1. ASSUME NEW f \in Files, NEW c \in Contents, Edit(f, c)
        PROVE PlaceInv'
    BY <1>1, Zenon DEF Edit, PlaceInv, history, sync
  <1>2. CASE Start
    <2>1. starts' # 0
      BY <1>a, <1>2 DEF Start
    <2> QED BY <1>2, <2>1, Zenon DEF Start, PlaceInv, history, watch
  <1>3. CASE ListDir
    BY <1>3, Zenon DEF ListDir, PlaceInv, history, watch
  <1>4. CASE ReadFile
    BY <1>4, Zenon DEF ReadFile, SyncFails, PlaceInv, history, watch
  <1>5. CASE NoTargetFiles
    BY <1>5, Zenon DEF NoTargetFiles, SyncFails, PlaceInv, watch
  <1>6. CASE Compare \/ CompareGone \/ FinishSync
    BY <1>6 DEF Compare, CompareGone, FinishSync, PlaceInv, history, watch
  <1>7. ASSUME NEW n \in Names, Publish(n)
        PROVE PlaceInv'
    BY <1>7, Zenon DEF Publish, PlaceInv, watch
  <1>8. ASSUME NEW n \in Names, PublishFails(n)
        PROVE PlaceInv'
    BY <1>8, Zenon DEF PublishFails, SyncFails, PlaceInv, watch
  <1>9. CASE AddWatch \/ Notice \/ TimerFires \/ UNCHANGED vars
    BY <1>9 DEF AddWatch, Notice, TimerFires, vars, PlaceInv, history, sync, watch
  <1>10. CASE Stop
    BY <1>10, Zenon DEF Stop, PlaceInv, history
  <1> QED
    BY <1>1, <1>2, <1>3, <1>4, <1>5, <1>6, <1>7, <1>8, <1>9, <1>10, Zenon DEF Next,
      PublisherStep

-----------------------------------------------------------------------------
(* byName and the stream *)

LEMMA ByNameStep ==
  ASSUME TypeOK, PlaceInv, ByNameInv, [Next]_vars
  PROVE ByNameInv'
  <1>1. ASSUME NEW f \in Files, NEW c \in Contents, Edit(f, c)
        PROVE ByNameInv'
    BY <1>1, Zenon DEF Edit, ByNameInv, history, sync
  <1>2. CASE Start \/ Stop
    BY <1>2, Zenon DEF Start, Stop, NoNames, ByNameInv
  <1>3. CASE ListDir
    BY <1>3, Zenon DEF ListDir, ByNameInv, history
  <1>4. CASE ReadFile
    BY <1>4 DEF ReadFile, SyncFails, ByNameInv, history
  <1>5. CASE NoTargetFiles
    BY <1>5, Zenon DEF NoTargetFiles, SyncFails, ByNameInv
  <1>6. CASE Compare
    BY <1>6, Zenon DEF Compare, ByNameInv
  <1>7. CASE CompareGone \/ FinishSync
    BY <1>7, Zenon DEF CompareGone, FinishSync, ByNameInv, history
  <1>8. ASSUME NEW n \in Names, Publish(n)
        PROVE ByNameInv'
    <2>1. /\ pc \in {"update", "delete"} /\ pc' = pc /\ env' = env /\ next' = next
          /\ stream' = [stream EXCEPT ![n] = IF pc = "update" THEN next[n] ELSE Tombstone]
          /\ todo' = todo \ {n} /\ n \in todo
      BY <1>8, Zenon DEF Publish
    <2>2. pc = "delete" => next[n] = NoConfig
      BY <2>1, Zenon DEF PlaceInv
    <2> QED BY <2>1, <2>2 DEF TypeOK, ByNameInv
  <1>9. ASSUME NEW n \in Names, PublishFails(n)
        PROVE ByNameInv'
    BY <1>9, Zenon DEF PublishFails, SyncFails, ByNameInv
  <1>10. CASE AddWatch \/ Notice \/ TimerFires \/ UNCHANGED vars
    BY <1>10, Zenon DEF AddWatch, Notice, TimerFires, vars, ByNameInv, history, sync
  <1> QED
    BY <1>1, <1>2, <1>3, <1>4, <1>5, <1>6, <1>7, <1>8, <1>9, <1>10, Zenon DEF Next,
      PublisherStep

LEMMA RecordStep ==
  ASSUME TypeOK, PlaceInv, RecordInv, [Next]_vars
  PROVE RecordInv'
  <1>a. env' = env
    BY Zenon DEF Next, PublisherStep, vars, history, Edit, Start, ListDir, ReadFile, SyncFails,
      NoTargetFiles, Compare, Publish, PublishFails, CompareGone, FinishSync, AddWatch, Notice,
      TimerFires, Stop
  <1>b. starts < env.maxStarts /\ env.maxStarts = 1 =>
          /\ pc = "down" /\ byName = NoNames /\ unrecorded = {}
    <2>1. starts \in Nat
      BY ControlPlaneAssumption DEF TypeOK, PlaceInv, IsEnvironment
    <2>2. starts < 1 => starts = 0
      BY <2>1
    <2> QED BY <2>2, Zenon DEF PlaceInv
  <1> SUFFICES ASSUME env.maxStarts = 1 PROVE RecordInv'
    BY <1>a, Zenon DEF RecordInv
  <1>1. ASSUME NEW f \in Files, NEW c \in Contents, Edit(f, c)
        PROVE RecordInv'
    BY <1>1 DEF Edit, RecordInv, Current, history, sync
  <1>2. CASE Start \/ Stop
    <2>1. Start
      BY <1>2, <1>b, Zenon DEF Stop
    <2> QED BY <2>1, <1>b DEF Start, RecordInv, Current, history
  <1>3. CASE ListDir
    BY <1>3, Zenon DEF ListDir, RecordInv, Current, history
  <1>4. CASE ReadFile
    BY <1>4 DEF ReadFile, SyncFails, RecordInv, Current, history
  <1>5. CASE NoTargetFiles
    BY <1>5, Zenon DEF NoTargetFiles, SyncFails, RecordInv, Current
  <1>6. CASE Compare
    BY <1>6 DEF Compare, RecordInv, Current
  <1>7. CASE CompareGone
    BY <1>7 DEF CompareGone, RecordInv, Current, history
  <1>8. CASE FinishSync
    <2>1. \A n \in Names \ reverted : Current(n) = next[n]
      BY <1>8, Zenon DEF FinishSync, RecordInv
    <2> QED BY <1>8, <2>1, Zenon DEF FinishSync, RecordInv, Current
  <1>9. ASSUME NEW n \in Names, Publish(n)
        PROVE RecordInv'
    <2>1. /\ pc \in {"update", "delete"} /\ pc' = pc /\ env' = env /\ next' = next
          /\ stream' = [stream EXCEPT ![n] = IF pc = "update" THEN next[n] ELSE Tombstone]
          /\ todo' = todo \ {n} /\ n \in todo /\ unrecorded' = unrecorded \cup {n}
          /\ reverted' = reverted /\ byName' = byName
      BY <1>9, Zenon DEF Publish
    <2>2. /\ pc = "delete" => next[n] = NoConfig /\ byName[n] # NoConfig
          /\ pc = "update" => next[n] # NoConfig
      BY <2>1, Zenon DEF PlaceInv
    <2>3. \A m \in Names \ {n} : Current(m)' = Current(m)
      BY <2>1 DEF Current
    <2>4. Current(n)' = next[n]
      <3>1. Tombstone \notin Configs /\ next[n] \in Configs \cup {NoConfig} /\ NoConfig # Tombstone
        BY ControlPlaneAssumption, Zenon DEF TypeOK
      <3> QED BY <2>1, <2>2, <3>1, Zenon DEF Current, TypeOK
    <2> QED BY <2>1, <2>2, <2>3, <2>4 DEF RecordInv
  <1>10. ASSUME NEW n \in Names, PublishFails(n)
         PROVE RecordInv'
    <2>1. /\ pc' \in {"idle", "down"} /\ env.failures /\ byName' = byName
          /\ unrecorded' = unrecorded \cup {m \in {n} : stream'[m] # stream[m]}
      BY <1>10, Zenon DEF PublishFails, SyncFails
    <2>2. \A m \in Names \ {n} : stream'[m] = stream[m]
      BY <1>10, Zenon DEF PublishFails, TypeOK
    <2>3. \A m \in Names \ unrecorded' : stream'[m] = stream[m] /\ m \notin unrecorded
      BY <2>1, <2>2, Zenon
    <2> QED BY <1>a, <2>1, <2>3 DEF RecordInv, Current
  <1>11. CASE AddWatch \/ Notice \/ TimerFires \/ UNCHANGED vars
    BY <1>11 DEF AddWatch, Notice, TimerFires, vars, RecordInv, Current, history, sync
  <1> QED
    BY <1>1, <1>2, <1>3, <1>4, <1>5, <1>6, <1>7, <1>8, <1>9, <1>10, <1>11, Zenon DEF Next,
      PublisherStep

-----------------------------------------------------------------------------
(* The directory and what is read of it *)

\* In a watched directory nothing is edited unnoticed.
LEMMA EditIsNotified ==
  ASSUME Watched, NEW f \in Files, NEW c \in Contents, Edit(f, c)
  PROVE notified'
  BY Zenon DEF Watched, Edit

LEMMA WatchedStays ==
  ASSUME [Next]_vars
  PROVE env' = env /\ Watched' = Watched
  <1>1. env' = env
    BY Zenon DEF Next, PublisherStep, vars, history, Edit, Start, ListDir, ReadFile, SyncFails,
      NoTargetFiles, Compare, Publish, PublishFails, CompareGone, FinishSync, AddWatch, Notice,
      TimerFires, Stop
  <1> QED BY <1>1, Zenon DEF Watched

LEMMA LoadStep ==
  ASSUME TypeOK, PlaceInv, LoadInv, [Next]_vars
  PROVE LoadInv'
  <1>0. env' = env /\ Watched' = Watched
    BY WatchedStays, Zenon
  <1> SUFFICES ASSUME Watched, ~notified', pc' \in {"read", "compare", "update", "delete"}
               PROVE LoadInv'
    BY <1>0, Zenon DEF LoadInv
  <1>1. ASSUME NEW f \in Files, NEW c \in Contents, Edit(f, c)
        PROVE LoadInv'
    BY <1>1, EditIsNotified, Zenon
  <1>2. CASE ListDir
    <2>1. /\ file' = file /\ toRead' = {f \in Files : file[f] # NoFile} /\ next' = NoNames
          /\ pc' = "read"
      BY <1>2, Zenon DEF ListDir
    <2>2. \A n \in Names : Read(n)' = {} /\ next'[n] = NoConfig
      BY <2>1, ControlPlaneAssumption, Zenon DEF Read, Claimants, NoNames
    <2> QED BY <2>1, <2>2, ControlPlaneAssumption, Zenon DEF LoadInv
  <1>3. CASE ReadFile
    <2>1. PICK f \in toRead :
            /\ pc = "read" /\ \A g \in toRead : f <= g
            /\ IF file[f] \in Configs
               THEN /\ next' = [n \in Names |->
                                  IF n \in claims[file[f]] THEN file[f] ELSE next[n]]
                    /\ toRead' = toRead \ {f}
                    /\ pc' = IF toRead' = {} THEN "compare" ELSE "read"
                    /\ UNCHANGED <<byName, todo, watch, history>>
               ELSE SyncFails /\ UNCHANGED unrecorded
            /\ UNCHANGED <<file, stream, edits, starts>>
      BY <1>3, Zenon DEF ReadFile
    <2>2. /\ file[f] \in Configs /\ toRead' = toRead \ {f} /\ ~notified /\ file' = file
          /\ next' = [n \in Names |-> IF n \in claims[file[f]] THEN file[f] ELSE next[n]]
          /\ pc' = IF toRead' = {} THEN "compare" ELSE "read"
      BY <2>1, Zenon DEF SyncFails, watch
    <2>3. Files \subseteq Nat /\ toRead \subseteq Files /\ f \in Files
      BY ControlPlaneAssumption DEF TypeOK, Files
    <2>4. /\ \A g \in toRead : file[g] # NoFile
          /\ \A g \in Files \ toRead : file[g] # BadFile
          /\ \A g \in Files \ toRead : file[g] # NoFile => \A h \in toRead : g < h
      BY <2>1, <2>2, Zenon DEF LoadInv
    <2>5. \A g \in Files \ toRead' : file[g] # BadFile
      BY <2>2, <2>4, ControlPlaneAssumption, Zenon
    <2>6. \A h \in toRead' : f < h
      BY <2>1, <2>2, <2>3
    <2>7. \A g \in Files \ toRead' : file[g] # NoFile => \A h \in toRead' : g < h
      BY <2>2, <2>4, <2>6, Zenon
    <2>8. ASSUME NEW n \in Names
          PROVE \/ Read(n)' = {} /\ next'[n] = NoConfig
                \/ \E h \in Read(n)' : next'[n] = file[h] /\ \A g \in Read(n)' : g <= h
      <3>1. CASE n \in claims[file[f]]
        <4>1. f \in Read(n)' /\ next'[n] = file[f]
          BY <2>2, <2>3, <3>1, Zenon DEF Read, Claimants
        <4>2. ASSUME NEW g \in Read(n)' PROVE g <= f
          <5>1. g \in Files /\ (g = f \/ (g \notin toRead /\ file[g] \in Configs))
            BY <2>2, <4>2, Zenon DEF Read, Claimants
          <5>2. g = f \/ g < f
            BY <2>4, <5>1, ControlPlaneAssumption, Zenon
          <5> QED BY <2>3, <5>1, <5>2
        <4> QED BY <4>1, <4>2, Zenon
      <3>2. CASE n \notin claims[file[f]]
        <4>1. Read(n)' = Read(n) /\ next'[n] = next[n]
          BY <2>2, <3>2, Zenon DEF Read, Claimants
        <4>2. \/ Read(n) = {} /\ next[n] = NoConfig
              \/ \E h \in Read(n) : next[n] = file[h] /\ \A g \in Read(n) : g <= h
          BY <2>1, <2>2, Zenon DEF LoadInv
        <4> QED BY <4>1, <4>2, Zenon
      <3> QED BY <3>1, <3>2, Zenon
    <2> QED BY <2>2, <2>4, <2>5, <2>7, <2>8 DEF LoadInv, sync
  <1>4. CASE Compare \/ CompareGone \/ \E n \in Names : Publish(n)
    <2>1. /\ UNCHANGED <<file, toRead, next, notified>>
          /\ pc \in {"compare", "update", "delete"} /\ pc' # "read"
      BY <1>4, Zenon DEF Compare, CompareGone, Publish, watch
    <2> QED BY <2>1 DEF LoadInv, Read, Claimants
  <1>5. CASE UNCHANGED vars
    BY <1>5 DEF vars, LoadInv, Read, Claimants, watch, sync
  <1>6. CASE Start \/ NoTargetFiles \/ FinishSync \/ AddWatch \/ TimerFires \/ Stop
             \/ \E n \in Names : PublishFails(n)
    BY <1>6, Zenon DEF Start, NoTargetFiles, PublishFails, SyncFails, FinishSync, AddWatch,
      TimerFires, Stop
  <1>7. CASE Notice
    BY <1>7, Zenon DEF Notice
  <1> QED
    BY <1>1, <1>2, <1>3, <1>4, <1>5, <1>6, <1>7, Zenon DEF Next, PublisherStep

\* Once every file is read, next is what the directory says.
LEMMA ReadingIsDesired ==
  ASSUME Watched, LoadInv, ~notified, pc \in {"compare", "update", "delete"},
         NEW n \in Names
  PROVE next[n] = Desired(n)
  <1>1. Read(n) = Claimants(n)
    BY Zenon DEF LoadInv, Read
  <1>2. \/ Claimants(n) = {} /\ next[n] = NoConfig
        \/ \E f \in Claimants(n) : next[n] = file[f] /\ \A g \in Claimants(n) : g <= f
    BY <1>1, Zenon DEF LoadInv
  <1>3. CASE Claimants(n) = {}
    BY <1>2, <1>3, Zenon DEF Desired
  <1>4. ASSUME NEW f \in Claimants(n), next[n] = file[f], \A g \in Claimants(n) : g <= f
        PROVE next[n] = Desired(n)
    <2> DEFINE h == CHOOSE h \in Claimants(n) : \A g \in Claimants(n) : g <= h
    <2>1. h \in Claimants(n) /\ \A g \in Claimants(n) : g <= h
      BY <1>4, Zenon
    <2>2. Claimants(n) \subseteq Nat
      BY ControlPlaneAssumption DEF Claimants, Files
    <2>3. h = f
      <3>1. h <= f /\ f <= h /\ h \in Nat /\ f \in Nat
        BY <1>4, <2>1, <2>2, Zenon
      <3> HIDE DEF h
      <3> QED BY <3>1
    <2>4. Desired(n) = file[h]
      BY <1>4, Zenon DEF Desired
    <2> QED BY <1>4, <2>3, <2>4, Zenon
  <1> QED BY <1>2, <1>3, <1>4, Zenon

LEMMA ResultStep ==
  ASSUME TypeOK, PlaceInv, RecordInv, LoadInv, ResultInv, [Next]_vars
  PROVE ResultInv'
  <1>0. env' = env /\ Watched' = Watched
    BY WatchedStays, Zenon
  <1> SUFFICES ASSUME Watched, ~notified', ~dirty', pc' \in {"synced", "idle"}
               PROVE ResultInv'
    BY <1>0, Zenon DEF ResultInv
  <1>1. ASSUME NEW f \in Files, NEW c \in Contents, Edit(f, c)
        PROVE ResultInv'
    BY <1>1, EditIsNotified, Zenon
  <1>2. CASE FinishSync
    <2>1. /\ pc = "delete" /\ todo = {} /\ ~notified /\ UNCHANGED <<file, stream, reverted>>
          /\ ok' = TRUE
      BY <1>2, Zenon DEF FinishSync, watch
    <2>2. \A n \in Names : next[n] = Desired(n)
      BY <2>1, ReadingIsDesired, Zenon
    <2>3. \A n \in Names \ reverted : Current(n) = next[n]
      BY <2>1, Zenon DEF RecordInv, Watched
    <2>4. \A n \in Names : Current(n)' = Current(n) /\ Desired(n)' = Desired(n)
      BY <2>1 DEF Current, Desired, Claimants
    <2> QED BY <2>1, <2>2, <2>3, <2>4 DEF ResultInv
  <1>3. CASE ReadFile
    <2>1. PICK f \in toRead : /\ pc = "read" /\ file[f] \notin Configs
                              /\ SyncFails /\ file' = file
      BY <1>3, Zenon DEF ReadFile
    <2>2. f \in Files /\ file[f] \in Contents /\ file[f] # NoFile /\ ~ok'
      BY <2>1, Zenon DEF TypeOK, LoadInv, SyncFails, watch
    <2>3. ~Loadable'
      BY <2>1, <2>2, Zenon DEF Contents, Loadable
    <2> QED BY <2>2, <2>3, Zenon DEF ResultInv
  <1>4. CASE NoTargetFiles
    <2>1. pc = "read" /\ toRead = {} /\ ~notified /\ file' = file /\ ~ok'
      BY <1>4, Zenon DEF NoTargetFiles, SyncFails, watch
    <2>2. \A f \in Files : file[f] = NoFile
      BY <2>1, Zenon DEF LoadInv
    <2>3. ~Loadable'
      BY <2>1, <2>2, Zenon DEF Loadable
    <2> QED BY <2>1, <2>3, Zenon DEF ResultInv
  <1>5. ASSUME NEW n \in Names, PublishFails(n)
        PROVE ResultInv'
    BY <1>0, <1>5, Zenon DEF PublishFails, SyncFails, ResultInv
  <1>6. CASE AddWatch \/ UNCHANGED vars
    <2>1. UNCHANGED <<file, stream, notified, dirty, ok, reverted>> /\ pc \in {"synced", "idle"}
      BY <1>6, Zenon DEF AddWatch, vars, watch, history
    <2>2. Loadable' = Loadable /\ \A n \in Names : Current(n)' = Current(n) /\ Desired(n)' = Desired(n)
      BY <2>1 DEF Current, Desired, Claimants, Loadable
    <2> QED BY <1>0, <2>1, <2>2, Zenon DEF ResultInv
  <1>7. CASE Start \/ ListDir \/ Compare \/ CompareGone \/ TimerFires \/ Stop \/ \E n \in Names : Publish(n)
    BY <1>7, Zenon DEF Start, ListDir, Compare, CompareGone, TimerFires, Stop, Publish
  <1>8. CASE Notice
    BY <1>8, Zenon DEF Notice
  <1> QED
    BY <1>1, <1>2, <1>3, <1>4, <1>5, <1>6, <1>7, <1>8, Zenon DEF Next, PublisherStep

-----------------------------------------------------------------------------
(* Theorems *)

PublisherInv ==
  TypeOK /\ PlaceInv /\ ByNameInv /\ RecordInv /\ LoadInv /\ ResultInv

LEMMA PublisherInvariance == Spec => []PublisherInv
  <1>1. Init => PublisherInv
    <2> SUFFICES ASSUME Init PROVE PublisherInv
      BY Zenon
    <2> USE DEF Init, NoNames
    <2>1. TypeOK
      <3>1. env.maxEdits \in Nat /\ env.maxStarts \in Nat
        BY ControlPlaneAssumption, Zenon DEF IsEnvironment
      <3>2. edits \in 0..env.maxEdits /\ starts \in 0..env.maxStarts
        BY <3>1
      <3> QED BY <3>2, ControlPlaneAssumption, Zenon DEF TypeOK, PCs
    <2>2. PlaceInv /\ ByNameInv /\ LoadInv /\ ResultInv
      BY Zenon DEF PlaceInv, ByNameInv, LoadInv, ResultInv
    <2>3. RecordInv
      BY Zenon DEF RecordInv, Current
    <2> QED BY <2>1, <2>2, <2>3, Zenon DEF PublisherInv
  <1>2. PublisherInv /\ [Next]_vars => PublisherInv'
    BY TypeStep, PlaceStep, ByNameStep, RecordStep, LoadStep, ResultStep, Zenon DEF PublisherInv
  <1> QED BY <1>1, <1>2, PTL DEF Spec

\* The publisher's state keeps its types; nothing is notified, and the timer of
\* watchConfigDir does not run, while the directory is not watched.
THEOREM PublisherTypes == Spec => []TypeOK
  <1>1. PublisherInv => TypeOK
    BY Zenon DEF PublisherInv
  <1> QED BY <1>1, PublisherInvariance, PTL

\* As long as no publish fails, what syncAll skips as unchanged is what the stream
\* has, over any number of restarts.
THEOREM SkippedIsPublished == Spec => []LastStatePublished
  <1>1. PublisherInv => LastStatePublished
    BY Zenon DEF PublisherInv, ByNameInv, LastStatePublished
  <1> QED BY <1>1, PublisherInvariance, PTL

\* When the watcher waits and the directory can be loaded, the last syncAll has
\* read it as it is now, and if it succeeded it has brought every name's event to
\* what the files say, but for the reverted ones.
THEOREM SyncRepairs == Spec => []RepairedBySync
  <1>1. PublisherInv => RepairedBySync
    BY Zenon DEF PublisherInv, ResultInv, RepairedBySync, Quiet
  <1> QED BY <1>1, PublisherInvariance, PTL

\* Without a failed publish none is reverted and the last syncAll has not failed on
\* a directory that can be loaded: the stream agrees with the directory.
THEOREM QuietMeansPublished == Spec => []PublishedWhenQuiet
  <1>1. PublisherInv => PublishedWhenQuiet
    <2> SUFFICES ASSUME PublisherInv, Watched, ~env.failures, Quiet, Loadable
                 PROVE Agrees
      BY Zenon DEF PublishedWhenQuiet
    <2>1. ok
      BY Zenon DEF PublisherInv, ResultInv, Quiet
    <2>2. reverted = {}
      BY Zenon DEF PublisherInv, RecordInv, Watched
    <2> QED BY <2>1, <2>2, Zenon DEF PublisherInv, ResultInv, Quiet, Agrees
  <1> QED BY <1>1, PublisherInvariance, PTL

=============================================================================
