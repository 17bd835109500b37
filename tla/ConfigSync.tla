----------------------------- MODULE ConfigSync -----------------------------
(***************************************************************************)
(* An edge that takes its targets from the config stream: the durable      *)
(* consumer with its redeliveries, the catch-up before the edge serves,    *)
(* the live consumer after it, the target store the events are written to, *)
(* and crashes that can lose what Pebble has not synced.                   *)
(*                                                                         *)
(* JetStream is external.  It keeps the newest event of a subject, remembers *)
(* what the consumer has been sent and has acknowledged, sends an event    *)
(* again when it is not acknowledged in time or refused, at most           *)
(* MaxDeliver times, and forgets about an event that was superseded.       *)
(***************************************************************************)
EXTENDS Naturals, Sequences

CONSTANTS
  Names,        \* server names, which are also the subjects
  Configs,
  claims,       \* the hostnames a config's server_name lists
  NoConfig,     \* no row, or a retained tombstone
  MaxDeliver,   \* deliveries of an event
  Environments  \* what happens around the edge, see IsEnvironment

\* One environment is chosen for a behavior: bounds on the events published,
\* the restarts of the edge, the attempts to apply an event that fail, and the
\* acknowledgements that come too late or get lost; whether a crash loses
\* writes made with pebble.NoSync, whether Pebble can fail to delete a row, and
\* whether NATS can be unreachable when the edge starts.
IsEnvironment(e) ==
  /\ e.maxEvents \in Nat /\ e.maxCrashes \in Nat
  /\ e.maxErrors \in Nat /\ e.maxExpiries \in Nat
  /\ {e.losesWrites, e.deleteErrors, e.outages} \subseteq BOOLEAN

ASSUME ConfigSyncAssumption ==
  /\ claims \in [Configs -> SUBSET Names]
  /\ NoConfig \notin Configs
  /\ MaxDeliver \in Nat \ {0}
  /\ \A e \in Environments : IsEnvironment(e)

VARIABLES
  stream,      \* per subject: the retained event, [seq, cfg]; seq 0 is none
  sent,        \* per subject: where its event is with the consumer
  tries,       \* per subject: how often its event has been delivered
  lastSeq,     \* sequence number of the last event published
  inbox,       \* events the client has received and not yet applied
  settling,    \* how the event just handled is to be settled
  store,       \* the row h/<hostname>: [seq, cfg], NoConfig when there is
               \* none; seq is history, the event that wrote it
  unsynced,    \* the rows a crash may fall back to
  edge,        \* the edge's process
  env,         \* the environment of this behavior
  crashes, errors, expiries

consumer == <<sent, tries>>
server == <<stream, lastSeq, consumer>>
pebble == <<store, unsynced>>
bounds == <<crashes, errors, expiries>>
client == <<inbox, settling>>
vars == <<server, client, pebble, edge, env, bounds>>

\* The process catches up before it serves and follows the stream then, or it
\* serves without a consumer because NATS was unreachable.
Edge == {"down", "catchup", "live", "adrift"}

\* An event is "new" to the consumer, "pending" when delivered and not settled,
\* "again" when it is to be delivered again, else "settled" (acknowledged) or
\* "given up" (delivered MaxDeliver times in vain).
Sent == {"new", "pending", "again", "settled", "given up"}

Event(n) == [name |-> n, seq |-> stream[n].seq, cfg |-> stream[n].cfg]

Init ==
  /\ stream = [n \in Names |-> [seq |-> 0, cfg |-> NoConfig]]
  /\ sent = [n \in Names |-> "settled"]
  /\ tries = [n \in Names |-> 0]
  /\ lastSeq = 0
  /\ inbox = <<>>
  /\ settling = "none"
  /\ store = [n \in Names |-> [seq |-> 0, cfg |-> NoConfig]]
  /\ unsynced = {}
  /\ edge = "down"
  /\ env \in Environments
  /\ crashes = 0 /\ errors = 0 /\ expiries = 0

-----------------------------------------------------------------------------
(* The control plane and the server *)

\* PublishTarget: the stream keeps the newest event of the subject only, and
\* the consumer will never see the one before if it has not been sent.
PublishTarget(n, c) ==
  /\ lastSeq < env.maxEvents
  /\ c # NoConfig => n \in claims[c]
  /\ lastSeq' = lastSeq + 1
  /\ stream' = [stream EXCEPT ![n] = [seq |-> lastSeq + 1, cfg |-> c]]
  /\ sent' = [sent EXCEPT ![n] = "new"]
  /\ tries' = [tries EXCEPT ![n] = 0]
  /\ UNCHANGED <<client, pebble, edge, env, bounds>>

\* The consumer is sent the oldest event it has not seen, or one again.
Deliver(n) ==
  /\ edge \in {"catchup", "live"}
  /\ \/ /\ sent[n] = "new"
        /\ \A m \in Names : sent[m] = "new" => stream[n].seq <= stream[m].seq
     \/ sent[n] = "again"
  /\ inbox' = Append(inbox, Event(n))
  /\ sent' = [sent EXCEPT ![n] = "pending"]
  /\ tries' = [tries EXCEPT ![n] = @ + 1]
  /\ UNCHANGED <<stream, lastSeq, settling, pebble, edge, env, bounds>>

\* The event of n has been refused, or not acknowledged in time.
Redeliver(n) ==
  sent' = [sent EXCEPT ![n] = IF tries[n] < MaxDeliver THEN "again"
                              ELSE "given up"]

\* AckWait (or the BackOff in its place) passes: the process has gone, its
\* acknowledgement was lost, or the event is still in its queue.
AckWaitExpires(n) ==
  /\ sent[n] = "pending"
  /\ \/ expiries < env.maxExpiries /\ expiries' = expiries + 1
     \/ /\ \A i \in DOMAIN inbox : inbox[i].seq # stream[n].seq
        /\ UNCHANGED expiries
  /\ Redeliver(n)
  /\ UNCHANGED <<stream, lastSeq, tries, client, pebble, edge, env,
                 crashes, errors>>

-----------------------------------------------------------------------------
(* The edge *)

\* newProxyServer and NATSConfigSync.Start: the durable consumer is reopened.
Connect ==
  /\ edge = "down"
  /\ edge' = "catchup"
  /\ UNCHANGED <<server, client, pebble, env, bounds>>

\* "failed to create NATS sync" is logged; configReady and configErr are nil,
\* so that waitForConfigReplay does not wait and the store is served as it is.
ConnectFails ==
  /\ env.outages
  /\ edge = "down"
  /\ edge' = "adrift"
  /\ UNCHANGED <<server, client, pebble, env, bounds>>

\* Catching up fails (a fetch, the context): start returns configErr.
CatchUpFails ==
  /\ env.outages
  /\ edge = "catchup"
  /\ crashes < env.maxCrashes
  /\ crashes' = crashes + 1
  /\ edge' = "down"
  /\ inbox' = <<>>
  /\ settling' = "none"
  /\ UNCHANGED <<server, pebble, env, errors, expiries>>

\* Writes to Pebble; a crash may undo the last ones.
write(rows) ==
  /\ store' = rows
  /\ unsynced' = IF env.losesWrites /\ rows # store THEN unsynced \cup {store}
                                                ELSE unsynced

\* The rows after an event is applied to the hostnames hs.
Rows(ev, hs) ==
  [h \in Names |-> IF h \in hs THEN [seq |-> ev.seq, cfg |-> ev.cfg]
                                ELSE store[h]]

Hostnames(ev) == IF ev.cfg = NoConfig THEN {ev.name} ELSE claims[ev.cfg]

\* applyMessage: the event is applied to every hostname its config claims, a
\* delete to its own.
Apply ==
  /\ inbox # <<>>
  /\ settling = "none"
  /\ write(Rows(Head(inbox), Hostnames(Head(inbox))))
  /\ settling' = "ack"
  /\ UNCHANGED <<server, inbox, edge, env, bounds>>

\* Mutant: the error is logged and the event acknowledged.
ApplyFailsSilently ==
  /\ inbox # <<>>
  /\ settling = "none"
  /\ errors < env.maxErrors
  /\ Head(inbox).cfg # NoConfig
  /\ settling' = "ack"
  /\ errors' = errors + 1
  /\ UNCHANGED <<server, inbox, pebble, edge, env, crashes, expiries>>

\* An update that fails at some hostname is refused.
ApplyFails ==
  /\ inbox # <<>>
  /\ settling = "none"
  /\ errors < env.maxErrors
  /\ Head(inbox).cfg # NoConfig
  /\ \E hs \in (SUBSET Hostnames(Head(inbox))) \ {Hostnames(Head(inbox))} :
       write(Rows(Head(inbox), hs))
  /\ settling' = "nak"
  /\ errors' = errors + 1
  /\ UNCHANGED <<server, inbox, edge, env, crashes, expiries>>

\* A delete that fails is logged, and acknowledged.
DeleteFails ==
  /\ env.deleteErrors
  /\ inbox # <<>>
  /\ settling = "none"
  /\ Head(inbox).cfg = NoConfig
  /\ settling' = "ack"
  /\ UNCHANGED <<server, inbox, pebble, edge, env, bounds>>

\* Mutant: an event that failed goes back into the edge's own queue.
SettleRequeues ==
  LET n == Head(inbox).name IN
  /\ settling # "none"
  /\ IF settling = "ack" /\ stream[n].seq = Head(inbox).seq
     THEN sent' = [sent EXCEPT ![n] = "settled"]
     ELSE UNCHANGED sent
  /\ inbox' = IF settling = "nak" THEN Append(Tail(inbox), Head(inbox))
                                  ELSE Tail(inbox)
  /\ settling' = "none"
  /\ UNCHANGED <<stream, lastSeq, tries, pebble, edge, env, bounds>>

\* msg.Ack and msg.Nak; they mean nothing for an event that was superseded.
Settle ==
  LET n == Head(inbox).name
      counts == stream[n].seq = Head(inbox).seq /\ sent[n] # "given up"
  IN
  /\ settling # "none"
  /\ IF counts /\ settling = "ack"
     THEN sent' = [sent EXCEPT ![n] = "settled"]
     ELSE IF counts /\ sent[n] = "pending" THEN Redeliver(n) ELSE UNCHANGED sent
  /\ inbox' = Tail(inbox)
  /\ settling' = "none"
  /\ UNCHANGED <<stream, lastSeq, tries, pebble, edge, env, bounds>>

\* The error msg.Ack returns is ignored; the server will send the event again.
AckLost ==
  /\ settling = "ack"
  /\ expiries < env.maxExpiries
  /\ expiries' = expiries + 1
  /\ inbox' = Tail(inbox)
  /\ settling' = "none"
  /\ UNCHANGED <<server, pebble, edge, env, crashes, errors>>

\* Mutant: events that were refused are not waited for.
FinishCatchUpEarly ==
  /\ edge = "catchup"
  /\ inbox = <<>>
  /\ \A n \in Names : sent[n] # "new"
  /\ edge' = "live"
  /\ UNCHANGED <<server, client, pebble, env, bounds>>

\* Mutant: the live consumer is not attached.
FinishCatchUpDetached ==
  /\ edge = "catchup"
  /\ inbox = <<>>
  /\ \A n \in Names : sent[n] \notin {"new", "again"}
  /\ edge' = "adrift"
  /\ UNCHANGED <<server, client, pebble, env, bounds>>

\* A fetch comes back empty: the live consumer is attached, ready is closed and
\* the edge begins to serve.
FinishCatchUp ==
  /\ edge = "catchup"
  /\ inbox = <<>>
  /\ \A n \in Names : sent[n] \notin {"new", "again"}
  /\ edge' = "live"
  /\ UNCHANGED <<server, client, pebble, env, bounds>>

\* Pebble gets its log onto the disk.
Flush ==
  /\ unsynced # {}
  /\ unsynced' = {}
  /\ UNCHANGED <<server, client, store, edge, env, bounds>>

\* Mutant: the acknowledgement is sent after the process has gone.
CrashSettling ==
  /\ edge # "down"
  /\ crashes < env.maxCrashes
  /\ crashes' = crashes + 1
  /\ edge' = "down"
  /\ inbox' = <<>>
  /\ UNCHANGED <<server, settling, pebble, env, errors, expiries>>

Crash ==
  /\ edge # "down"
  /\ crashes < env.maxCrashes
  /\ crashes' = crashes + 1
  /\ edge' = "down"
  /\ inbox' = <<>>
  /\ settling' = "none"
  /\ store' \in {store} \cup unsynced
  /\ unsynced' = {}
  /\ UNCHANGED <<server, env, errors, expiries>>

EdgeStep ==
  \/ Connect \/ Apply \/ Settle \/ FinishCatchUp

Next ==
  \/ \E n \in Names, c \in Configs \cup {NoConfig} : PublishTarget(n, c)
  \/ \E n \in Names : Deliver(n) \/ AckWaitExpires(n)
  \/ EdgeStep
  \/ ConnectFails \/ CatchUpFails \/ ApplyFails \/ DeleteFails \/ AckLost
  \/ Flush \/ Crash

Spec == Init /\ [][Next]_vars

\* The edge is restarted and its goroutines run, the server delivers, and its
\* timers fire.  Publications, errors and crashes are the environment's.
FairSpec ==
  /\ Spec
  /\ WF_vars(EdgeStep)
  /\ \A n \in Names : WF_vars(Deliver(n)) /\ WF_vars(AckWaitExpires(n))

-----------------------------------------------------------------------------
(* Properties *)

Events == [name : Names, seq : 1..env.maxEvents, cfg : Configs \cup {NoConfig}]
RowType == [seq : 0..env.maxEvents, cfg : Configs \cup {NoConfig}]

TypeOK ==
  /\ stream \in [Names -> RowType]
  /\ sent \in [Names -> Sent]
  /\ tries \in [Names -> 0..MaxDeliver]
  /\ lastSeq \in 0..env.maxEvents
  /\ inbox \in Seq(Events)
  /\ settling \in {"none", "ack", "nak"}
  /\ settling # "none" => inbox # <<>>
  /\ store \in [Names -> RowType]
  /\ edge \in Edge
  /\ edge \in {"down", "adrift"} => inbox = <<>>

Applied(n) == store[n].cfg = stream[n].cfg

SettledIsApplied == \A n \in Names : sent[n] = "settled" => Applied(n)

\* The store keeps what it is told to keep.
StoreReliable == ~env.losesWrites /\ ~env.deleteErrors

\* A config is stored under the name of its event only.
OwnRows == \A c \in Configs : \E n \in Names : claims[c] = {n}

\* "Messages are acknowledged only after handle returns nil": when the server
\* takes the event of a name as settled, its row is in the store, whatever was
\* refused, delivered twice or interrupted by a crash, as long as the store
\* neither loses a write nor fails to delete and every target has one name.
AckedIsApplied == OwnRows /\ StoreReliable => SettledIsApplied

\* "The newest event wins": a row is never replaced by that of an older event,
\* whatever is delivered again (a crash may undo writes, which is not a write).
\* Events of one subject are ordered, those of two are not, so this is claimed
\* for targets of one name each.
NewestWins ==
  [][OwnRows /\ edge' # "down" => \A n \in Names : store'[n].seq >= store[n].seq]_vars

\* No event can be delivered in vain until the server gives it up.
FewFaults ==
  env.maxCrashes + env.maxErrors + env.maxExpiries < MaxDeliver

\* ready is closed "once the retained backlog has been fully applied": when
\* catch-up ends, every retained event is in the store, as long as no earlier
\* process left events behind that it had received and not acknowledged, and no
\* two targets share a hostname.
ReadyMeansApplied ==
  [][OwnRows /\ StoreReliable /\ FewFaults /\ env.maxCrashes = 0
       /\ edge = "catchup" /\ edge' = "live" => \A n \in Names : Applied(n)]_vars

\* A crash loses "at most the last writes, which the next reconnect restores":
\* when the edge serves again, what the server takes as settled is in the store.
LostWritesRestored == edge = "live" => SettledIsApplied

\* Once the publications and the faults have stopped, the edge comes to hold
\* what the stream holds, and stays so, if NATS was reachable when it started.
EventuallyConsistent ==
  OwnRows /\ StoreReliable /\ FewFaults /\ ~env.outages =>
    <>[](\A n \in Names : Applied(n))
=============================================================================
