---------------------------- MODULE ControlPlane ----------------------------
(***************************************************************************)
(* The control plane: the publisher that loads config.d, compares it with  *)
(* what it published before and writes one retained event per server name, *)
(* and the watcher that runs it again after a change of the directory.     *)
(*                                                                         *)
(* A file holds a config, or YAML that does not parse.  The JetStream      *)
(* stream keeps the newest event of a subject, so it is a function from    *)
(* names to events.  Every file that is read and every event that is       *)
(* published is a step of its own: the directory is edited meanwhile, and  *)
(* a publish can fail in the middle.                                       *)
(***************************************************************************)
EXTENDS Naturals, FiniteSets

CONSTANTS
  Names,         \* server names
  Configs,
  claims,        \* ParseServerNames: the names a config's server_name lists
  NumFiles,      \* files of config.d, in the order os.ReadDir lists them
  NoFile, BadFile,
  NoConfig,      \* name without an entry in a map, or without an event
  Tombstone,     \* event with Deleted set
  InitialFiles,  \* the directory at the beginning
  Environments   \* what happens around the process, see IsEnvironment

Files == 1..NumFiles
Contents == Configs \cup {NoFile, BadFile}

\* One environment is chosen for a behavior: bounds on the changes of the
\* directory and on the starts of the process, whether the directory changes
\* before it is watched, and whether a publish can fail.
IsEnvironment(e) ==
  /\ e.maxEdits \in Nat /\ e.maxStarts \in Nat
  /\ e.earlyEdits \in BOOLEAN /\ e.failures \in BOOLEAN

ASSUME ControlPlaneAssumption ==
  /\ NumFiles \in Nat \ {0}
  /\ claims \in [Configs -> SUBSET Names]
  /\ Configs \cap {NoFile, BadFile, NoConfig, Tombstone} = {}
  /\ NoFile # BadFile /\ NoConfig # Tombstone
  /\ InitialFiles \in [Files -> Contents]
  /\ \A e \in Environments : IsEnvironment(e)

VARIABLES
  file,      \* config.d
  stream,    \* the retained event of a name
  pc,        \* where the publisher is
  byName,    \* configPublisher.byName
  next,      \* the map syncAll builds
  toRead,    \* files listed and not yet read
  todo,      \* names whose event is still to be published
  watching,  \* watcher.Add has been called
  notified,  \* an fsnotify event waits in watcher.Events
  dirty,     \* the debounce timer is running
  env,       \* the environment of this behavior
  edits, starts,
  ok,        \* history: the last syncAll succeeded
  unrecorded,  \* history: names with an event that byName does not know of
  reverted   \* history: such names that the last syncAll skipped as unchanged

history == <<env, ok, unrecorded, reverted>>
sync == <<byName, next, toRead, todo>>
watch == <<watching, notified, dirty>>
vars == <<file, stream, pc, sync, watch, edits, starts, history>>

NoNames == [n \in Names |-> NoConfig]

Init ==
  /\ file = InitialFiles
  /\ stream = NoNames
  /\ pc = "down"
  /\ byName = NoNames
  /\ next = NoNames
  /\ toRead = {}
  /\ todo = {}
  /\ watching = FALSE /\ notified = FALSE /\ dirty = FALSE
  /\ env \in Environments
  /\ edits = 0 /\ starts = 0
  /\ ok = TRUE /\ unrecorded = {} /\ reverted = {}

-----------------------------------------------------------------------------
(* The environment: the directory *)

\* Somebody writes, replaces or removes a file.
Edit(f, c) ==
  /\ edits < env.maxEdits
  /\ c # file[f]
  /\ env.earlyEdits \/ watching
  /\ file' = [file EXCEPT ![f] = c]
  /\ notified' = watching
  /\ edits' = edits + 1
  /\ UNCHANGED <<stream, pc, sync, watching, dirty, starts, history>>

-----------------------------------------------------------------------------
(* syncAll *)

\* Run: a new publisher has published nothing, whatever the stream holds.
Start ==
  /\ pc = "down"
  /\ starts < env.maxStarts
  /\ starts' = starts + 1
  /\ pc' = "list"
  /\ byName' = NoNames
  /\ UNCHANGED <<file, stream, next, toRead, todo, watch, edits, history>>

\* LoadTargets lists the directory, ...
ListDir ==
  /\ pc = "list"
  /\ toRead' = {f \in Files : file[f] # NoFile}
  /\ next' = NoNames
  /\ pc' = "read"
  /\ UNCHANGED <<file, stream, byName, todo, watch, edits, starts, history>>

\* An error ends the first syncAll and the process with it; a later one is
\* logged, and nothing is tried again before the next change.
SyncFails ==
  /\ pc' = IF watching THEN "idle" ELSE "down"
  /\ toRead' = {}
  /\ todo' = {}
  /\ next' = NoNames
  /\ ok' = FALSE
  /\ UNCHANGED <<byName, watch, env, reverted>>

\* ... and reads the files in order; of two that claim a name the later wins.
\* A file that has gone since or does not parse fails the whole load.
ReadFile ==
  \E f \in toRead :
    /\ pc = "read"
    /\ \A g \in toRead : f <= g
    /\ IF file[f] \in Configs
       THEN /\ next' = [n \in Names |->
                          IF n \in claims[file[f]] THEN file[f] ELSE next[n]]
            /\ toRead' = toRead \ {f}
            /\ pc' = IF toRead' = {} THEN "compare" ELSE "read"
            /\ UNCHANGED <<byName, todo, watch, history>>
       ELSE SyncFails /\ UNCHANGED unrecorded
    /\ UNCHANGED <<file, stream, edits, starts>>

\* ErrNoTargetFiles: an empty directory is an error too.
NoTargetFiles ==
  /\ pc = "read"
  /\ toRead = {}
  /\ SyncFails
  /\ UNCHANGED <<file, stream, edits, starts, unrecorded>>

\* What the retained event of a name tells an edge.
Current(n) == IF stream[n] = Tombstone THEN NoConfig ELSE stream[n]

\* Mutant: a name that was published before is taken to be unchanged.
CompareNamesOnly ==
  /\ pc = "compare"
  /\ todo' = {n \in Names : next[n] # NoConfig /\ byName[n] = NoConfig}
  /\ pc' = "update"
  /\ UNCHANGED <<file, stream, byName, next, toRead, watch, edits, starts, history>>

\* The names whose config is not the one that was published before.
Compare ==
  /\ pc = "compare"
  /\ todo' = {n \in Names : next[n] \notin {NoConfig, byName[n]}}
  /\ pc' = "update"
  /\ reverted' = {n \in unrecorded : next[n] = byName[n]}
  /\ UNCHANGED <<file, stream, byName, next, toRead, watch, edits, starts,
                 env, ok, unrecorded>>

\* js.Publish returns after the server has stored the event.
Publish(n) ==
  /\ pc \in {"update", "delete"}
  /\ n \in todo
  /\ stream' = [stream EXCEPT ![n] = IF pc = "update" THEN next[n] ELSE Tombstone]
  /\ todo' = todo \ {n}
  /\ unrecorded' = unrecorded \cup {n}
  /\ UNCHANGED <<file, pc, byName, next, toRead, watch, edits, starts,
                 env, ok, reverted>>

\* Mutant: the failure is logged, and syncAll goes on.
PublishFailsContinues(n) ==
  /\ env.failures
  /\ pc \in {"update", "delete"}
  /\ n \in todo
  /\ todo' = todo \ {n}
  /\ UNCHANGED <<file, stream, pc, byName, next, toRead, watch, edits, starts,
                 history>>

\* It can also fail, before the event is stored or (a lost reply) after.
PublishFails(n) ==
  /\ env.failures
  /\ pc \in {"update", "delete"}
  /\ n \in todo
  /\ stream' \in {stream, [stream EXCEPT ![n] = IF pc = "update" THEN next[n]
                                                ELSE Tombstone]}
  /\ unrecorded' = unrecorded \cup {m \in {n} : stream'[m] # stream[m]}
  /\ SyncFails
  /\ UNCHANGED <<file, edits, starts>>

\* After the updates, the deletions: names published before that no file
\* claims any more.
CompareGone ==
  /\ pc = "update"
  /\ todo = {}
  /\ todo' = {n \in Names : byName[n] # NoConfig /\ next[n] = NoConfig}
  /\ pc' = "delete"
  /\ UNCHANGED <<file, stream, byName, next, toRead, watch, edits, starts, history>>

\* Mutant: the events that came in during syncAll are taken as dealt with.
FinishSyncDrains ==
  /\ pc = "delete"
  /\ todo = {}
  /\ byName' = next
  /\ next' = NoNames
  /\ ok' = TRUE
  /\ unrecorded' = reverted
  /\ pc' = IF watching THEN "idle" ELSE "synced"
  /\ notified' = FALSE
  /\ UNCHANGED <<file, stream, toRead, todo, watching, dirty, edits, starts, env, reverted>>

\* The first syncAll is followed by the goroutine that adds the watch.
FinishSync ==
  /\ pc = "delete"
  /\ todo = {}
  /\ byName' = next
  /\ next' = NoNames
  /\ ok' = TRUE
  /\ unrecorded' = reverted
  /\ pc' = IF watching THEN "idle" ELSE "synced"
  /\ UNCHANGED <<file, stream, toRead, todo, watch, edits, starts, env, reverted>>

-----------------------------------------------------------------------------
(* watchConfigDir: one goroutine, which also runs syncAll *)

AddWatch ==
  /\ pc = "synced"
  /\ watching' = TRUE
  /\ pc' = "idle"
  /\ UNCHANGED <<file, stream, sync, notified, dirty, edits, starts, history>>

\* A change of a .yaml or .yml file (re)starts the debounce timer.
Notice ==
  /\ pc = "idle"
  /\ notified
  /\ notified' = FALSE
  /\ dirty' = TRUE
  /\ UNCHANGED <<file, stream, pc, sync, watching, edits, starts, history>>

\* Mutant: the timer is started again and nothing is done.
TimerFiresIdly ==
  /\ pc = "idle"
  /\ dirty
  /\ UNCHANGED vars

TimerFires ==
  /\ pc = "idle"
  /\ dirty
  /\ dirty' = FALSE
  /\ pc' = "list"
  /\ UNCHANGED <<file, stream, sync, watching, notified, edits, starts, history>>

\* Mutant: the notification outlives the process.
StopKeepsEvent ==
  /\ starts < env.maxStarts
  /\ pc # "down"
  /\ pc' = "down"
  /\ byName' = NoNames /\ next' = NoNames
  /\ toRead' = {} /\ todo' = {}
  /\ watching' = FALSE /\ dirty' = FALSE
  /\ UNCHANGED <<file, stream, notified, edits, starts, history>>

\* The process ends, by a signal or a crash; stream and directory stay.
Stop ==
  /\ starts < env.maxStarts
  /\ pc # "down"
  /\ pc' = "down"
  /\ byName' = NoNames /\ next' = NoNames
  /\ toRead' = {} /\ todo' = {}
  /\ watching' = FALSE /\ notified' = FALSE /\ dirty' = FALSE
  /\ UNCHANGED <<file, stream, edits, starts, history>>

PublisherStep ==
  \/ Start \/ ListDir \/ ReadFile \/ NoTargetFiles
  \/ Compare \/ CompareGone \/ FinishSync
  \/ \E n \in Names : Publish(n) \/ PublishFails(n)
  \/ AddWatch \/ Notice \/ TimerFires

Next ==
  \/ \E f \in Files, c \in Contents : Edit(f, c)
  \/ PublisherStep
  \/ Stop

Spec == Init /\ [][Next]_vars

\* The goroutine is scheduled, the timer fires and the server answers.
FairSpec == Spec /\ WF_vars(PublisherStep)

-----------------------------------------------------------------------------
(* Properties *)

PCs == {"down", "list", "read", "compare", "update", "delete", "synced", "idle"}

TypeOK ==
  /\ file \in [Files -> Contents]
  /\ stream \in [Names -> Configs \cup {NoConfig, Tombstone}]
  /\ pc \in PCs
  /\ byName \in [Names -> Configs \cup {NoConfig}]
  /\ next \in [Names -> Configs \cup {NoConfig}]
  /\ toRead \subseteq Files /\ todo \subseteq Names
  /\ watching \in BOOLEAN /\ notified \in BOOLEAN /\ dirty \in BOOLEAN
  /\ (notified \/ dirty) => watching
  /\ edits \in 0..env.maxEdits /\ starts \in 0..env.maxStarts
  /\ ok \in BOOLEAN /\ unrecorded \subseteq Names /\ reverted \subseteq Names

\* What the directory says: the last file that claims a name has it.
Claimants(n) == {f \in Files : file[f] \in Configs /\ n \in claims[file[f]]}

Desired(n) ==
  IF Claimants(n) = {} THEN NoConfig
  ELSE file[CHOOSE f \in Claimants(n) : \A g \in Claimants(n) : g <= f]

Agrees == \A n \in Names : Current(n) = Desired(n)

Loadable ==
  /\ \A f \in Files : file[f] # BadFile
  /\ \E f \in Files : file[f] # NoFile

Quiet == pc = "idle" /\ ~notified /\ ~dirty

\* The process is not restarted, and the directory is watched when it changes.
Watched == env.maxStarts = 1 /\ ~env.earlyEdits

\* "Publish the initial state, then keep it in sync with the directory": when
\* the watcher waits for something new, and the directory can be loaded, the
\* retained events are what the files say, however the edits interleaved with
\* the reading and the publishing, as long as no publish failed.
PublishedWhenQuiet ==
  Watched /\ ~env.failures /\ Quiet /\ Loadable => Agrees

\* A publish that failed is made good by the next syncAll that succeeds: the
\* events are then what the files say, but for the names whose config is back
\* to what it was before the failure.
RepairedBySync ==
  Watched /\ Quiet /\ Loadable /\ ok =>
    \A n \in Names \ reverted : Current(n) = Desired(n)

\* byName "tracks the last state published for each target": as long as no
\* publish failed, a name that syncAll would skip as unchanged has that very
\* config in the stream, also after restarts.
LastStatePublished ==
  ~env.failures /\ pc \in {"idle", "list", "read", "compare"} =>
    \A n \in Names : byName[n] # NoConfig => stream[n] = byName[n]

\* Once the edits have stopped with a directory that can be loaded, the stream
\* comes to agree with it and stays so, if no publish failed and no edit was
\* made while nobody watched.
EventuallyPublished ==
  Watched /\ ~env.failures => <>[](Loadable => Agrees)
=============================================================================
