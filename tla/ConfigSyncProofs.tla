-------------------------- MODULE ConfigSyncProofs --------------------------
(***************************************************************************)
(* The safety properties of ConfigSync, for any number of names and        *)
(* configs, any limit of deliveries and any environment.                   *)
(*                                                                         *)
(* TypeInv and OrderInv are inductive without further conditions.  RowInv  *)
(* needs targets of one name each; AckInv and ReadyInv need a store that   *)
(* keeps what it is told, and ReadyInv a bound on the faults.              *)
(***************************************************************************)
EXTENDS ConfigSync, TLAPS

AllRows == [Names -> RowType]

\* The bounds of the environment are kept.
BoundInv ==
  /\ env \in Environments
  /\ unsynced \subseteq AllRows
  /\ crashes \in 0..env.maxCrashes
  /\ errors \in 0..env.maxErrors
  /\ expiries \in 0..env.maxExpiries

\* The consumer knows events only, and counts their deliveries.
ConsumerInv ==
  \A n \in Names :
    /\ stream[n].seq = 0 => sent[n] = "settled"
    /\ sent[n] = "new" => tries[n] = 0
    /\ sent[n] = "again" => tries[n] < MaxDeliver
    /\ sent[n] = "given up" => tries[n] = MaxDeliver

TypeInv == TypeOK /\ BoundInv /\ ConsumerInv

\* Sequence numbers identify events, the stream holds the newest of a subject,
\* and the client receives those of one subject in order.
OrderInv ==
  /\ \A n \in Names : stream[n].seq <= lastSeq
  /\ \A m, n \in Names : stream[m].seq = stream[n].seq /\ stream[m].seq # 0 => m = n
  /\ \A n \in Names : stream[n].cfg # NoConfig => n \in claims[stream[n].cfg]
  /\ \A i \in DOMAIN inbox :
       /\ inbox[i].seq <= stream[inbox[i].name].seq
       /\ inbox[i].cfg # NoConfig => inbox[i].name \in claims[inbox[i].cfg]
       /\ \A n \in Names : inbox[i].seq = stream[n].seq => inbox[i] = Event(n)
  /\ \A i, j \in DOMAIN inbox :
       i <= j /\ inbox[i].name = inbox[j].name => inbox[i].seq <= inbox[j].seq

\* A row is not newer than the events that are still to be applied to it.
RowInv ==
  OwnRows =>
    /\ \A n \in Names : store[n].seq <= stream[n].seq
    /\ \A rows \in unsynced : \A n \in Names : rows[n].seq <= stream[n].seq
    /\ \A i \in DOMAIN inbox : store[inbox[i].name].seq <= inbox[i].seq

\* The row is that of the retained event.
Current(n) == store[n] = stream[n]

\* An event is in the store before its acknowledgement is sent.
AckInv ==
  OwnRows /\ StoreReliable =>
    /\ unsynced = {}
    /\ settling = "ack" =>
         LET ev == Head(inbox) IN store[ev.name] = [seq |-> ev.seq, cfg |-> ev.cfg]
    /\ \A n \in Names : sent[n] = "settled" => Current(n)

\* The retained event of n is in the client's queue.
Queued(n) == \E i \in DOMAIN inbox : inbox[i].seq = stream[n].seq

\* The event just handled is to be refused, and it is the retained event of n.
Refused(n) == settling = "nak" /\ Head(inbox).seq = stream[n].seq

\* The faults so far that cost a delivery.
Paid == errors + expiries

\* Every delivery of n's event but the last is paid for by an error, or by an
\* acknowledgement that is late or lost; a refusal to come is paid for already.
Charged(n) ==
  /\ sent[n] = "new" => ~Queued(n)
  /\ sent[n] \in {"again", "given up"} => tries[n] <= Paid
  /\ sent[n] = "again" /\ Refused(n) => tries[n] < Paid
  /\ sent[n] = "pending" => tries[n] <= Paid + 1
  /\ sent[n] = "pending" /\ (Refused(n) \/ ~Queued(n)) => tries[n] <= Paid

\* Deliveries are accounted for as long as the process does not crash.
FaultInv == env.maxCrashes = 0 => \A n \in Names : Charged(n)

\* Without crashes an event that is not settled is in the store or in the queue.
ReadyInv ==
  OwnRows /\ StoreReliable /\ env.maxCrashes = 0 =>
    \A n \in Names : sent[n] = "pending" => Current(n) \/ Queued(n)

-----------------------------------------------------------------------------
(* TypeInv *)

\* What the bounds of an environment are.
LEMMA EnvironmentType ==
  ASSUME env \in Environments
  PROVE  IsEnvironment(env)
BY ConfigSyncAssumption, Zenon

\* The rows after any hostnames have been written.
LEMMA RowsType ==
  ASSUME NEW ev \in Events, NEW hs \in SUBSET Names, store \in AllRows, env \in Environments
  PROVE  Rows(ev, hs) \in AllRows
BY EnvironmentType DEF AllRows, RowType, Events, Rows, IsEnvironment

\* An event is applied to hostnames.
LEMMA HostnamesType ==
  ASSUME NEW ev \in Events
  PROVE  Hostnames(ev) \in SUBSET Names
BY ConfigSyncAssumption, Zenon DEF Hostnames, Events

\* The environment is chosen once.
LEMMA SameEnvironment ==
  ASSUME [Next]_vars
  PROVE  env' = env /\ Events' = Events /\ RowType' = RowType /\ AllRows' = AllRows
<1>1. env' = env
  BY Zenon DEF Next, EdgeStep, PublishTarget, Deliver, AckWaitExpires, Connect, ConnectFails,
    CatchUpFails, Apply, ApplyFails, DeleteFails, Settle, AckLost, FinishCatchUp, Flush, Crash,
    vars
<1> QED
  BY <1>1, Zenon DEF Events, RowType, AllRows

\* The numbers of an environment.
LEMMA Bounds ==
  ASSUME env \in Environments
  PROVE  /\ env.maxEvents \in Nat /\ env.maxCrashes \in Nat
         /\ env.maxErrors \in Nat /\ env.maxExpiries \in Nat
BY EnvironmentType, Zenon DEF IsEnvironment

\* Every step keeps the bounds.
LEMMA BoundStep ==
  ASSUME TypeInv, [Next]_vars
  PROVE  BoundInv'
<1>a. /\ env' = env /\ AllRows' = AllRows
      /\ env.maxCrashes \in Nat /\ env.maxErrors \in Nat /\ env.maxExpiries \in Nat
  BY SameEnvironment, Bounds, Zenon DEF TypeInv, BoundInv
<1>b. /\ env \in Environments /\ unsynced \subseteq AllRows /\ store \in AllRows
      /\ crashes \in 0..env.maxCrashes /\ errors \in 0..env.maxErrors
      /\ expiries \in 0..env.maxExpiries
  BY Zenon DEF TypeInv, TypeOK, AllRows, BoundInv
<1>1. CASE \/ \E n \in Names, c \in Configs \cup {NoConfig} : PublishTarget(n, c)
           \/ \E n \in Names : Deliver(n)
           \/ Connect \/ ConnectFails \/ DeleteFails \/ Settle \/ FinishCatchUp
           \/ UNCHANGED vars
  <2>1. unsynced' = unsynced /\ crashes' = crashes /\ errors' = errors /\ expiries' = expiries
    BY <1>1, Zenon DEF PublishTarget, Deliver, Connect, ConnectFails, DeleteFails, Settle,
      FinishCatchUp, vars, pebble, bounds
  <2> QED
    BY <1>a, <1>b, <2>1, Zenon DEF BoundInv
<1>2. ASSUME NEW n \in Names, AckWaitExpires(n)
      PROVE  BoundInv'
  <2>1. expiries' \in 0..env.maxExpiries
    BY <1>2, <1>a, <1>b DEF AckWaitExpires
  <2> QED
    BY <1>2, <1>a, <1>b, <2>1, Zenon DEF AckWaitExpires, pebble, BoundInv
<1>3. CASE CatchUpFails
  BY <1>3, <1>a, <1>b DEF CatchUpFails, pebble, BoundInv
<1>4. CASE Apply
  BY <1>4, <1>a, <1>b, Zenon DEF Apply, write, bounds, BoundInv
<1>5. CASE ApplyFails
  BY <1>5, <1>a, <1>b DEF ApplyFails, write, BoundInv
<1>6. CASE AckLost
  BY <1>6, <1>a, <1>b DEF AckLost, pebble, BoundInv
<1>7. CASE Flush
  BY <1>7, <1>a, <1>b, Zenon DEF Flush, bounds, BoundInv
<1>8. CASE Crash
  BY <1>8, <1>a, <1>b DEF Crash, BoundInv
<1> QED
  BY <1>1, <1>2, <1>3, <1>4, <1>5, <1>6, <1>7, <1>8, Zenon DEF Next, EdgeStep

\* Every step keeps what the consumer knows.
LEMMA ConsumerStep ==
  ASSUME TypeInv, [Next]_vars
  PROVE  ConsumerInv'
<1>a. /\ stream \in [Names -> RowType] /\ sent \in [Names -> Sent]
      /\ tries \in [Names -> 0..MaxDeliver] /\ ConsumerInv /\ lastSeq \in Nat
  BY Bounds DEF TypeInv, TypeOK, BoundInv
<1>b. \A n \in Names : tries[n] \in Nat /\ (tries[n] < MaxDeliver \/ tries[n] = MaxDeliver)
  BY <1>a, ConfigSyncAssumption
<1> USE <1>a
<1>1. ASSUME NEW n \in Names, NEW c \in Configs \cup {NoConfig}, PublishTarget(n, c)
      PROVE  ConsumerInv'
  <2>1. \A m \in Names : m # n =>
          stream'[m] = stream[m] /\ sent'[m] = sent[m] /\ tries'[m] = tries[m]
    BY <1>1, Zenon DEF PublishTarget
  <2>2. stream'[n].seq # 0 /\ sent'[n] = "new" /\ tries'[n] = 0
    BY <1>1 DEF PublishTarget
  <2> QED
    BY <2>1, <2>2, Zenon DEF ConsumerInv
<1>2. ASSUME NEW n \in Names, Deliver(n)
      PROVE  ConsumerInv'
  BY <1>2, Zenon DEF ConsumerInv, Deliver
<1>3. ASSUME NEW n \in Names, AckWaitExpires(n)
      PROVE  ConsumerInv'
  <2>1. \A m \in Names : m # n => sent'[m] = sent[m]
    BY <1>3, Zenon DEF AckWaitExpires, Redeliver
  <2>2. sent'[n] = IF tries[n] < MaxDeliver THEN "again" ELSE "given up"
    BY <1>3, Zenon DEF AckWaitExpires, Redeliver
  <2>3. stream' = stream /\ tries' = tries /\ sent[n] = "pending"
    BY <1>3, Zenon DEF AckWaitExpires
  <2> QED
    BY <1>b, <2>1, <2>2, <2>3, Zenon DEF ConsumerInv
<1>4. CASE Settle
  <2>1. \A n \in Names :
             \/ sent'[n] = sent[n]
             \/ sent'[n] = "settled"
             \/ /\ sent[n] = "pending"
                /\ sent'[n] = IF tries[n] < MaxDeliver THEN "again" ELSE "given up"
    BY <1>4, Zenon DEF Settle, Redeliver
  <2>2. stream' = stream /\ tries' = tries
    BY <1>4, Zenon DEF Settle
  <2> QED
    BY <1>b, <2>1, <2>2, Zenon DEF ConsumerInv
<1>5. CASE \/ Connect \/ ConnectFails \/ CatchUpFails \/ Apply \/ ApplyFails \/ DeleteFails
           \/ AckLost \/ FinishCatchUp \/ Flush \/ Crash \/ UNCHANGED vars
  <2>1. stream' = stream /\ sent' = sent /\ tries' = tries
    BY <1>5, Zenon DEF Connect, ConnectFails, CatchUpFails, Apply, ApplyFails, DeleteFails,
      AckLost, FinishCatchUp, Flush, Crash, vars, server, consumer
  <2> QED
    BY <2>1, Zenon DEF ConsumerInv
<1> QED
  BY <1>1, <1>2, <1>3, <1>4, <1>5, Zenon DEF Next, EdgeStep

\* Every step keeps the types.
LEMMA TypeStep ==
  ASSUME TypeInv, [Next]_vars
  PROVE  TypeOK'
<1>a. env' = env /\ Events' = Events /\ RowType' = RowType
  BY SameEnvironment, Zenon
<1>b. env.maxEvents \in Nat
  BY Bounds, Zenon DEF TypeInv, BoundInv
<1>c. /\ stream \in [Names -> RowType] /\ sent \in [Names -> Sent]
      /\ tries \in [Names -> 0..MaxDeliver] /\ lastSeq \in 0..env.maxEvents
      /\ inbox \in Seq(Events) /\ settling \in {"none", "ack", "nak"}
      /\ settling # "none" => inbox # <<>>
      /\ store \in [Names -> RowType] /\ edge \in Edge
      /\ edge \in {"down", "adrift"} => inbox = <<>>
      /\ ConsumerInv /\ BoundInv
  BY Zenon DEF TypeInv, TypeOK
<1>n. /\ lastSeq \in Nat
      /\ \A n \in Names : tries[n] \in Nat
      /\ MaxDeliver \in Nat /\ 0 \in 0..MaxDeliver
  <2>1. MaxDeliver \in Nat /\ 0 \in 0..MaxDeliver
    BY ConfigSyncAssumption
  <2>2. lastSeq \in 0..env.maxEvents /\ tries \in [Names -> 0..MaxDeliver]
    BY <1>c, Zenon
  <2> QED
    BY <1>b, <2>1, <2>2
<1>d. /\ inbox # <<>> => Tail(inbox) \in Seq(Events) /\ Head(inbox) \in Events
      /\ <<>> \in Seq(Events)
  <2>1. inbox \in Seq(Events)
    BY <1>c, Zenon
  <2> QED
    BY <2>1
<1>e. ASSUME NEW hs \in SUBSET Hostnames(Head(inbox)), inbox # <<>>,
             write(Rows(Head(inbox), hs))
      PROVE  store' \in [Names -> RowType]
  BY <1>c, <1>d, <1>e, RowsType, HostnamesType, Zenon DEF write, AllRows, BoundInv
<1>1. ASSUME NEW n \in Names, NEW c \in Configs \cup {NoConfig}, PublishTarget(n, c)
      PROVE  TypeOK'
  <2>1. lastSeq \in Nat /\ lastSeq < env.maxEvents /\ lastSeq' = lastSeq + 1
    BY <1>1, <1>n, Zenon DEF PublishTarget
  <2>2. lastSeq' \in 0..env.maxEvents /\ [seq |-> lastSeq + 1, cfg |-> c] \in RowType
    BY <1>b, <2>1 DEF RowType
  <2>3. stream' \in [Names -> RowType]
    BY <1>1, <1>c, <2>2, Zenon DEF PublishTarget
  <2>4. tries' \in [Names -> 0..MaxDeliver] /\ sent' \in [Names -> Sent]
    BY <1>1, <1>c, <1>n, Zenon DEF PublishTarget, Sent
  <2> QED
    BY <1>1, <1>a, <1>c, <2>2, <2>3, <2>4, Zenon DEF TypeOK, PublishTarget, client, pebble
<1>2. ASSUME NEW n \in Names, Deliver(n)
      PROVE  TypeOK'
  <2>1. tries[n] < MaxDeliver
    <3>1. tries[n] = 0 \/ tries[n] < MaxDeliver
      BY <1>2, <1>c, Zenon DEF Deliver, ConsumerInv
    <3> QED
      BY <3>1, ConfigSyncAssumption
  <2>2. stream[n].seq # 0
    BY <1>2, <1>c, Zenon DEF Deliver, ConsumerInv
  <2>3. stream[n] \in RowType
    BY <1>c, Zenon
  <2>4. Event(n) \in Events
    BY <1>b, <2>2, <2>3 DEF Event, Events, RowType
  <2>5. inbox' \in Seq(Events) /\ inbox' # <<>>
    <3>1. inbox \in Seq(Events)
      BY <1>c, Zenon
    <3> QED
      BY <1>2, <2>4, <3>1 DEF Deliver
  <2>6. tries' \in [Names -> 0..MaxDeliver] /\ sent' \in [Names -> Sent]
    <3>1. tries[n] + 1 \in 0..MaxDeliver
      BY <1>n, <2>1
    <3> QED
      BY <1>2, <1>c, <3>1, Zenon DEF Deliver, Sent
  <2> QED
    BY <1>2, <1>a, <1>c, <2>5, <2>6, Zenon DEF TypeOK, Deliver, pebble
<1>3. ASSUME NEW n \in Names, AckWaitExpires(n)
      PROVE  TypeOK'
  BY <1>3, <1>a, <1>c, Zenon DEF TypeOK, AckWaitExpires, Redeliver, client, pebble, Sent
<1>4. CASE Connect
  BY <1>4, <1>a, <1>c, Zenon DEF TypeOK, Connect, server, consumer, client, pebble, bounds, Edge
<1>5. CASE ConnectFails
  BY <1>5, <1>a, <1>c, Zenon DEF TypeOK, ConnectFails, server, consumer, client, pebble, bounds,
    Edge
<1>6. CASE CatchUpFails
  BY <1>6, <1>a, <1>c, <1>d, Zenon DEF TypeOK, CatchUpFails, server, consumer, pebble, Edge
<1>7. CASE Apply
  BY <1>7, <1>a, <1>c, <1>e, Zenon DEF TypeOK, Apply, server, consumer
<1>8. CASE ApplyFails
  BY <1>8, <1>a, <1>c, <1>e, Zenon DEF TypeOK, ApplyFails, server, consumer
<1>9. CASE DeleteFails
  BY <1>9, <1>a, <1>c, Zenon DEF TypeOK, DeleteFails, server, consumer, pebble, bounds
<1>10. CASE Settle
  <2>1. Head(inbox).name \in Names
    BY <1>10, <1>c, <1>d, Zenon DEF Settle, Events
  <2>2. sent' \in [Names -> Sent]
    BY <1>10, <1>c, <2>1, Zenon DEF Settle, Redeliver, Sent, Edge
  <2> QED
    BY <1>10, <1>a, <1>c, <1>d, <2>2, Zenon DEF TypeOK, Settle, pebble
<1>11. CASE AckLost
  BY <1>11, <1>a, <1>c, <1>d, Zenon DEF TypeOK, AckLost, server, consumer, pebble
<1>12. CASE FinishCatchUp
  BY <1>12, <1>a, <1>c, Zenon DEF TypeOK, FinishCatchUp, server, consumer, client, pebble,
    bounds, Edge
<1>13. CASE Flush
  BY <1>13, <1>a, <1>c, Zenon DEF TypeOK, Flush, server, consumer, client, bounds
<1>14. CASE Crash
  BY <1>14, <1>a, <1>c, <1>d, Zenon DEF TypeOK, Crash, server, consumer, BoundInv, AllRows, Edge
<1>15. CASE UNCHANGED vars
  BY <1>15, <1>a, <1>c, Zenon DEF TypeOK, vars, server, consumer, client, pebble, bounds
<1> QED
  BY <1>1, <1>2, <1>3, <1>4, <1>5, <1>6, <1>7, <1>8, <1>9, <1>10, <1>11, <1>12, <1>13, <1>14,
    <1>15, Zenon DEF Next, EdgeStep, Edge

-----------------------------------------------------------------------------
(* OrderInv *)

\* Events of the queue are numbers and names.
LEMMA QueueType ==
  ASSUME TypeInv
  PROVE  /\ \A n \in Names : stream[n].seq \in Nat
         /\ \A n \in Names : stream[n] = [seq |-> stream[n].seq, cfg |-> stream[n].cfg]
         /\ \A i \in DOMAIN inbox :
              /\ i \in Nat
              /\ inbox[i].name \in Names
              /\ inbox[i].seq \in Nat \ {0}
              /\ inbox[i].cfg \in Configs \cup {NoConfig}
         /\ lastSeq \in Nat
<1>1. /\ stream \in [Names -> RowType] /\ inbox \in Seq(Events)
      /\ lastSeq \in 0..env.maxEvents /\ env.maxEvents \in Nat
  BY Bounds, Zenon DEF TypeInv, TypeOK, BoundInv
<1>2. \A n \in Names : stream[n] \in RowType
  BY <1>1, Zenon
<1>3. \A i \in DOMAIN inbox : i \in Nat /\ inbox[i] \in Events
  BY <1>1
<1> QED
  BY <1>1, <1>2, <1>3 DEF RowType, Events

\* Only PublishTarget changes the stream, and only Deliver puts something into
\* the queue.
LEMMA QueueStep ==
  ASSUME TypeInv, [Next]_vars
  PROVE  \/ \E n \in Names, c \in Configs \cup {NoConfig} : PublishTarget(n, c)
         \/ \E n \in Names : Deliver(n)
         \/ /\ stream' = stream /\ lastSeq' = lastSeq
            /\ inbox' = inbox \/ inbox' = <<>> \/ (inbox # <<>> /\ inbox' = Tail(inbox))
<1>1. settling # "none" => inbox # <<>>
  BY Zenon DEF TypeInv, TypeOK
<1>2. CASE Settle \/ AckLost
  BY <1>1, <1>2, Zenon DEF Settle, AckLost, server
<1>3. CASE CatchUpFails \/ Crash
  <2>1. stream' = stream /\ lastSeq' = lastSeq /\ inbox' = <<>>
    BY <1>3, Zenon DEF CatchUpFails, Crash, server
  <2> QED
    BY <2>1, Zenon
<1>4. CASE \/ \E n \in Names : AckWaitExpires(n)
           \/ Connect \/ ConnectFails \/ Apply \/ ApplyFails \/ DeleteFails
           \/ FinishCatchUp \/ Flush \/ UNCHANGED vars
  <2>1. stream' = stream /\ lastSeq' = lastSeq /\ inbox' = inbox
    BY <1>4, Zenon DEF AckWaitExpires, Connect, ConnectFails, Apply, ApplyFails, DeleteFails,
      FinishCatchUp, Flush, vars, server, client
  <2> QED
    BY <2>1, Zenon
<1> QED
  BY <1>2, <1>3, <1>4, Zenon DEF Next, EdgeStep

\* Every step keeps the order of events.
LEMMA OrderStep ==
  ASSUME TypeInv, OrderInv, [Next]_vars
  PROVE  OrderInv'
<1> USE QueueType
<1>0. inbox \in Seq(Events) /\ stream \in [Names -> RowType]
  BY Zenon DEF TypeInv, TypeOK
<1>1. ASSUME NEW n \in Names, NEW c \in Configs \cup {NoConfig}, PublishTarget(n, c)
      PROVE  OrderInv'
  <2>1. /\ stream'[n] = [seq |-> lastSeq + 1, cfg |-> c]
        /\ \A m \in Names : m # n => stream'[m] = stream[m]
        /\ lastSeq' = lastSeq + 1
        /\ inbox' = inbox
        /\ c # NoConfig => n \in claims[c]
    BY <1>0, <1>1, Zenon DEF PublishTarget, client
  <2>2. \A m \in Names : stream'[m].seq <= lastSeq'
    BY <2>1 DEF OrderInv
  <2>3. \A m, k \in Names : stream'[m].seq = stream'[k].seq /\ stream'[m].seq # 0 => m = k
    BY <2>1 DEF OrderInv
  <2>4. \A m \in Names : stream'[m].cfg # NoConfig => m \in claims[stream'[m].cfg]
    BY <2>1 DEF OrderInv
  <2>5. \A i \in DOMAIN inbox :
          /\ inbox[i].seq <= lastSeq
          /\ inbox[i].seq <= stream'[inbox[i].name].seq
    BY <2>1 DEF OrderInv
  <2>6. \A i \in DOMAIN inbox, m \in Names :
          inbox[i].seq = stream'[m].seq => inbox[i] = Event(m)'
    BY <2>1, <2>5 DEF OrderInv, Event
  <2> QED
    BY <2>1, <2>2, <2>3, <2>4, <2>5, <2>6 DEF OrderInv
<1>2. ASSUME NEW n \in Names, Deliver(n)
      PROVE  OrderInv'
  <2>1. stream' = stream /\ lastSeq' = lastSeq /\ inbox' = Append(inbox, Event(n))
    BY <1>2, Zenon DEF Deliver
  <2>2. stream[n].seq # 0
    BY <1>2, Zenon DEF Deliver, TypeInv, ConsumerInv
  <2>3. /\ \A i \in DOMAIN inbox : i \in DOMAIN inbox' /\ inbox'[i] = inbox[i]
        /\ \A i \in DOMAIN inbox' : i \in DOMAIN inbox \/ inbox'[i] = Event(n)
        /\ \A i, j \in DOMAIN inbox' : i <= j => j \notin DOMAIN inbox \/ i \in DOMAIN inbox
    BY <1>0, <2>1
  <2>4. \A i \in DOMAIN inbox' :
          /\ inbox'[i].seq <= stream[inbox'[i].name].seq
          /\ inbox'[i].cfg # NoConfig => inbox'[i].name \in claims[inbox'[i].cfg]
          /\ \A m \in Names : inbox'[i].seq = stream[m].seq => inbox'[i] = Event(m)
    BY <2>2, <2>3 DEF OrderInv, Event
  <2>5. \A i, j \in DOMAIN inbox' :
          i <= j /\ inbox'[i].name = inbox'[j].name => inbox'[i].seq <= inbox'[j].seq
    BY <2>3, <2>4 DEF OrderInv, Event
  <2> QED
    BY <2>1, <2>4, <2>5, SMTT(30) DEF OrderInv, Event
<1>3. ASSUME stream' = stream, lastSeq' = lastSeq,
             inbox' = inbox \/ inbox' = <<>> \/ (inbox # <<>> /\ inbox' = Tail(inbox))
      PROVE  OrderInv'
  <2>1. CASE inbox' = inbox
    BY <1>3, <2>1 DEF OrderInv, Event
  <2>2. CASE inbox' = <<>>
    BY <1>3, <2>2 DEF OrderInv, Event
  <2>3. CASE inbox # <<>> /\ inbox' = Tail(inbox)
    <3>1. \A i \in DOMAIN inbox' : i \in Nat /\ i + 1 \in DOMAIN inbox /\ inbox'[i] = inbox[i + 1]
      BY <1>0, <2>3
    <3>2. \A i, j \in DOMAIN inbox' : i <= j => i + 1 <= j + 1
      BY <3>1
    <3> QED
      BY <1>3, <3>1, <3>2, SMTT(30) DEF OrderInv, Event
  <2> QED
    BY <1>3, <2>1, <2>2, <2>3, Zenon
<1> QED
  <2>1. \/ \E n \in Names, c \in Configs \cup {NoConfig} : PublishTarget(n, c)
        \/ \E n \in Names : Deliver(n)
        \/ /\ stream' = stream /\ lastSeq' = lastSeq
           /\ inbox' = inbox \/ inbox' = <<>> \/ (inbox # <<>> /\ inbox' = Tail(inbox))
    BY QueueStep, Zenon
  <2> HIDE QueueType
  <2> QED
    BY <1>1, <1>2, <1>3, <2>1, Zenon

-----------------------------------------------------------------------------
(* RowInv *)

\* A target of one name is stored under the name of its event.
LEMMA OwnHostnames ==
  ASSUME TypeInv, OrderInv, OwnRows, inbox # <<>>
  PROVE  /\ Head(inbox) = inbox[1] /\ 1 \in DOMAIN inbox
         /\ Head(inbox).name \in Names
         /\ Hostnames(Head(inbox)) = {Head(inbox).name}
<1>1. inbox \in Seq(Events)
  BY Zenon DEF TypeInv, TypeOK
<1>2. Head(inbox) = inbox[1] /\ 1 \in DOMAIN inbox
  BY <1>1
<1>3. inbox[1].name \in Names /\ inbox[1].cfg \in Configs \cup {NoConfig}
  BY <1>2, QueueType, Zenon
<1>4. inbox[1].cfg # NoConfig => inbox[1].name \in claims[inbox[1].cfg]
  BY <1>2, Zenon DEF OrderInv
<1>5. inbox[1].cfg # NoConfig => claims[inbox[1].cfg] = {inbox[1].name}
  BY <1>3, <1>4 DEF OwnRows
<1> QED
  BY <1>2, <1>3, <1>5, Zenon DEF Hostnames

\* What applying the first event of the queue does to the rows.
LEMMA ApplyRows ==
  ASSUME TypeInv, OrderInv, OwnRows, Apply
  PROVE  LET ev == Head(inbox) IN
         /\ store'[ev.name] = [seq |-> ev.seq, cfg |-> ev.cfg]
         /\ \A n \in Names : n # ev.name => store'[n] = store[n]
         /\ unsynced' = unsynced \/ (env.losesWrites /\ unsynced' = unsynced \cup {store})
<1> DEFINE ev == Head(inbox)
<1>1. ev.name \in Names /\ Hostnames(ev) = {ev.name}
  BY OwnHostnames, Zenon DEF Apply
<1>2. write(Rows(ev, {ev.name}))
  BY <1>1, Zenon DEF Apply
<1>3. store' = [h \in Names |-> IF h \in {ev.name} THEN [seq |-> ev.seq, cfg |-> ev.cfg]
                                                 ELSE store[h]]
  BY <1>2, Zenon DEF write, Rows
<1>4. unsynced' = IF env.losesWrites /\ Rows(ev, {ev.name}) # store
                  THEN unsynced \cup {store} ELSE unsynced
  BY <1>2, Zenon DEF write
<1>5. /\ store'[ev.name] = [seq |-> ev.seq, cfg |-> ev.cfg]
      /\ \A n \in Names : n # ev.name => store'[n] = store[n]
  BY <1>1, <1>3, Zenon
<1>6. unsynced' = unsynced \/ (env.losesWrites /\ unsynced' = unsynced \cup {store})
  <2>1. CASE env.losesWrites /\ Rows(ev, {ev.name}) # store
    BY <1>4, <2>1, Zenon
  <2>2. CASE ~(env.losesWrites /\ Rows(ev, {ev.name}) # store)
    BY <1>4, <2>2, Zenon
  <2> QED
    BY <2>1, <2>2, Zenon
<1> QED
  BY <1>5, <1>6, Zenon

\* Without shared hostnames an update that fails has changed nothing, and so
\* only Apply and Crash change the rows.
LEMMA StoreStep ==
  ASSUME TypeInv, OrderInv, OwnRows, [Next]_vars
  PROVE  \/ Apply
         \/ Crash
         \/ store' = store /\ unsynced' \subseteq unsynced
<1>1. CASE ApplyFails
  <2>1. PICK hs \in (SUBSET Hostnames(Head(inbox))) \ {Hostnames(Head(inbox))} :
          write(Rows(Head(inbox), hs))
    BY <1>1, Zenon DEF ApplyFails
  <2>2. hs = {}
    <3>1. inbox # <<>>
      BY <1>1, Zenon DEF ApplyFails
    <3>2. Hostnames(Head(inbox)) = {Head(inbox).name}
      BY <3>1, OwnHostnames, Zenon
    <3>3. hs \subseteq {Head(inbox).name} /\ hs # {Head(inbox).name}
      BY <2>1, <3>2, Zenon
    <3> QED
      BY <3>3, Zenon
  <2>3. store \in [Names -> RowType]
    BY Zenon DEF TypeInv, TypeOK
  <2>4. Rows(Head(inbox), hs) = store
    BY <2>2, <2>3, Zenon DEF Rows
  <2> QED
    BY <2>1, <2>4, Zenon DEF write
<1>2. CASE ~ApplyFails /\ ~Apply /\ ~Crash
  BY <1>2, Zenon DEF Next, EdgeStep, PublishTarget, Deliver, AckWaitExpires, Connect,
    ConnectFails, CatchUpFails, DeleteFails, Settle, AckLost, FinishCatchUp, Flush, vars, pebble
<1> QED
  BY <1>1, <1>2, Zenon

\* Rows are numbers as well.
LEMMA RowNumbers ==
  ASSUME TypeInv
  PROVE  /\ \A n \in Names : store[n].seq \in Nat
         /\ \A rows \in unsynced, n \in Names : rows[n].seq \in Nat
<1>1. /\ store \in AllRows /\ unsynced \subseteq AllRows /\ env.maxEvents \in Nat
  BY Bounds, Zenon DEF TypeInv, TypeOK, BoundInv, AllRows
<1>2. \A rows \in AllRows, n \in Names : rows[n].seq \in Nat
  BY <1>1 DEF AllRows, RowType
<1> QED
  BY <1>1, <1>2, Zenon

\* Every step keeps rows behind the events that are to come.
LEMMA RowStep ==
  ASSUME TypeInv, OrderInv, RowInv, [Next]_vars
  PROVE  RowInv'
<1> SUFFICES ASSUME OwnRows PROVE RowInv'
  BY Zenon DEF RowInv, OwnRows
<1>0. /\ \A n \in Names : store[n].seq <= stream[n].seq
      /\ \A rows \in unsynced : \A n \in Names : rows[n].seq <= stream[n].seq
      /\ \A i \in DOMAIN inbox : store[inbox[i].name].seq <= inbox[i].seq
  BY Zenon DEF RowInv
<1>a. inbox \in Seq(Events) /\ stream \in [Names -> RowType]
  BY Zenon DEF TypeInv, TypeOK
<1>1. ASSUME NEW n \in Names, NEW c \in Configs \cup {NoConfig}, PublishTarget(n, c)
      PROVE  RowInv'
  <2>1. /\ stream'[n].seq = lastSeq + 1
        /\ \A m \in Names : m # n => stream'[m] = stream[m]
        /\ inbox' = inbox /\ store' = store /\ unsynced' = unsynced
    BY <1>a, <1>1, Zenon DEF PublishTarget, client, pebble
  <2>2. stream[n].seq <= stream'[n].seq
    BY <2>1, QueueType DEF OrderInv
  <2>3. \A m \in Names : stream[m].seq <= stream'[m].seq /\ stream'[m].seq \in Nat
    BY <2>1, <2>2, QueueType
  <2> QED
    BY <1>0, <2>1, <2>3, QueueType, RowNumbers DEF RowInv
<1>2. ASSUME NEW n \in Names, Deliver(n)
      PROVE  RowInv'
  <2>1. /\ stream' = stream /\ store' = store /\ unsynced' = unsynced
        /\ inbox' = Append(inbox, Event(n))
    BY <1>2, Zenon DEF Deliver, pebble
  <2>2. \A i \in DOMAIN inbox' : (i \in DOMAIN inbox /\ inbox'[i] = inbox[i]) \/ inbox'[i] = Event(n)
    BY <1>a, <2>1
  <2>3. \A i \in DOMAIN inbox' : store[inbox'[i].name].seq <= inbox'[i].seq
    BY <1>0, <2>2 DEF Event
  <2> QED
    BY <1>0, <2>1, <2>3, Zenon DEF RowInv
<1>3. CASE Apply
  <2> DEFINE ev == Head(inbox)
  <2>1. ev = inbox[1] /\ 1 \in DOMAIN inbox /\ ev.name \in Names
    BY <1>3, OwnHostnames, Zenon DEF Apply
  <2>2. /\ store'[ev.name].seq = ev.seq
        /\ \A n \in Names : n # ev.name => store'[n] = store[n]
        /\ unsynced' = unsynced \/ unsynced' = unsynced \cup {store}
    BY <1>3, ApplyRows
  <2>3. inbox' = inbox /\ stream' = stream
    BY <1>3, Zenon DEF Apply, server
  <2>4. \A n \in Names : store'[n].seq <= stream[n].seq
    BY <1>0, <2>1, <2>2 DEF OrderInv
  <2>5. \A i \in DOMAIN inbox : inbox[i].name = ev.name => ev.seq <= inbox[i].seq
    BY <1>a, <2>1 DEF OrderInv
  <2>6. \A i \in DOMAIN inbox : store'[inbox[i].name].seq <= inbox[i].seq
    BY <1>0, <2>2, <2>5, QueueType, Zenon
  <2> QED
    BY <1>0, <2>2, <2>3, <2>4, <2>6, Zenon DEF RowInv
<1>4. CASE Crash
  <2>1. /\ stream' = stream /\ inbox' = <<>> /\ unsynced' = {}
        /\ store' = store \/ store' \in unsynced
    BY <1>4, Zenon DEF Crash, server
  <2> QED
    BY <1>0, <2>1 DEF RowInv
<1>5. ASSUME store' = store, unsynced' \subseteq unsynced, stream' = stream,
             inbox' = inbox \/ inbox' = <<>> \/ (inbox # <<>> /\ inbox' = Tail(inbox))
      PROVE  RowInv'
  <2>1. \A i \in DOMAIN inbox' : \E j \in DOMAIN inbox : inbox'[i] = inbox[j]
    <3>1. CASE inbox # <<>> /\ inbox' = Tail(inbox)
      <4>1. \A i \in DOMAIN inbox' : i + 1 \in DOMAIN inbox /\ inbox'[i] = inbox[i + 1]
        BY <1>a, <3>1
      <4> QED
        BY <4>1, Zenon
    <3>2. CASE inbox' = inbox \/ inbox' = <<>>
      BY <3>2
    <3> QED
      BY <1>5, <3>1, <3>2, Zenon
  <2>2. \A i \in DOMAIN inbox' : store[inbox'[i].name].seq <= inbox'[i].seq
    BY <1>0, <2>1, Zenon
  <2> QED
    BY <1>0, <1>5, <2>2, Zenon DEF RowInv
<1> QED
  <2>1. CASE Apply \/ Crash
    BY <2>1, <1>3, <1>4, Zenon
  <2>2. CASE ~Apply /\ ~Crash
    <3>1. store' = store /\ unsynced' \subseteq unsynced
      BY <2>2, StoreStep, Zenon
    <3>2. \/ \E n \in Names, c \in Configs \cup {NoConfig} : PublishTarget(n, c)
          \/ \E n \in Names : Deliver(n)
          \/ /\ stream' = stream /\ lastSeq' = lastSeq
             /\ inbox' = inbox \/ inbox' = <<>> \/ (inbox # <<>> /\ inbox' = Tail(inbox))
      BY QueueStep, Zenon
    <3> QED
      BY <3>1, <3>2, <1>1, <1>2, <1>5, Zenon
  <2> QED
    BY <2>1, <2>2, Zenon

-----------------------------------------------------------------------------
(* AckInv *)

\* The event at the head of the queue, and what the order says of it.
LEMMA HeadFacts ==
  ASSUME TypeInv, OrderInv, inbox # <<>>
  PROVE  LET ev == Head(inbox) IN
         /\ ev.name \in Names
         /\ ev.seq <= stream[ev.name].seq
         /\ \A n \in Names : ev.seq = stream[n].seq =>
              /\ ev.name = n
              /\ stream[n] = [seq |-> ev.seq, cfg |-> ev.cfg]
<1>1. inbox \in Seq(Events)
  BY Zenon DEF TypeInv, TypeOK
<1>2. Head(inbox) = inbox[1] /\ 1 \in DOMAIN inbox
  BY <1>1
<1> QED
  BY <1>2, QueueType DEF OrderInv, Event

\* The row that Apply writes over a current one is the same row.
LEMMA ApplyKeepsCurrent ==
  ASSUME TypeInv, OrderInv, RowInv, OwnRows, Apply, NEW n \in Names, Current(n)
  PROVE  Current(n)'
<1> DEFINE ev == Head(inbox)
<1>1. inbox # <<>> /\ stream' = stream
  BY Zenon DEF Apply, server
<1>2. ev = inbox[1] /\ 1 \in DOMAIN inbox
  BY <1>1, OwnHostnames, Zenon
<1>3. CASE n = ev.name
  <2>1. store[n].seq <= ev.seq /\ ev.seq <= stream[n].seq
    BY <1>2, <1>3, Zenon DEF RowInv, OrderInv
  <2>2. ev.seq = stream[n].seq
    BY <1>2, <2>1, QueueType DEF Current
  <2>3. stream[n] = [seq |-> ev.seq, cfg |-> ev.cfg]
    BY <1>1, <2>2, HeadFacts, Zenon
  <2>4. store'[n] = [seq |-> ev.seq, cfg |-> ev.cfg]
    BY <1>3, ApplyRows, Zenon
  <2> QED
    BY <1>1, <2>3, <2>4, Zenon DEF Current
<1>4. CASE n # ev.name
  <2>1. store'[n] = store[n]
    BY <1>4, ApplyRows, Zenon
  <2> QED
    BY <1>1, <2>1, Zenon DEF Current
<1> QED
  BY <1>3, <1>4, Zenon

\* Nobody but Apply and Crash touches a reliable store, and Crash leaves it
\* alone: what is current stays so until the next event is published.
LEMMA StaysCurrent ==
  ASSUME TypeInv, OrderInv, RowInv, AckInv, OwnRows, StoreReliable, [Next]_vars
  PROVE  /\ unsynced' = {}
         /\ Apply \/ store' = store
         /\ \A n \in Names : Current(n) /\ stream'[n] = stream[n] => Current(n)'
<1>1. unsynced = {}
  BY Zenon DEF AckInv
<1>2. CASE Apply
  <2>1. unsynced' = {}
    BY <1>1, <1>2, ApplyRows, Zenon DEF StoreReliable
  <2> QED
    BY <1>2, <2>1, ApplyKeepsCurrent, Zenon
<1>3. CASE Crash
  BY <1>1, <1>3, Zenon DEF Crash, Current
<1>4. CASE store' = store /\ unsynced' \subseteq unsynced
  BY <1>1, <1>4, Zenon DEF Current
<1> QED
  BY <1>2, <1>3, <1>4, StoreStep, Zenon

\* Every step keeps acknowledgements behind the writes.
LEMMA AckStep ==
  ASSUME TypeInv, OrderInv, RowInv, AckInv, [Next]_vars
  PROVE  AckInv'
<1> SUFFICES ASSUME OwnRows, StoreReliable PROVE AckInv'
  BY SameEnvironment, Zenon DEF AckInv, OwnRows, StoreReliable
<1> DEFINE HeadStored == store[Head(inbox).name] = [seq |-> Head(inbox).seq, cfg |-> Head(inbox).cfg]
<1>0. /\ settling = "ack" => HeadStored
      /\ \A n \in Names : sent[n] = "settled" => Current(n)
  BY Zenon DEF AckInv
<1>a. /\ unsynced' = {}
      /\ Apply \/ store' = store
      /\ \A n \in Names : Current(n) /\ stream'[n] = stream[n] => Current(n)'
  BY StaysCurrent, Zenon
<1>b. /\ inbox \in Seq(Events) /\ stream \in [Names -> RowType] /\ sent \in [Names -> Sent]
      /\ settling # "none" => inbox # <<>>
  BY Zenon DEF TypeInv, TypeOK
<1>c. SUFFICES /\ settling' = "ack" => HeadStored'
               /\ \A n \in Names : sent'[n] = "settled" => Current(n)'
  BY <1>a, Zenon DEF AckInv
<1>1. ASSUME NEW n \in Names, NEW c \in Configs \cup {NoConfig}, PublishTarget(n, c)
      PROVE  /\ settling' = "ack" => HeadStored'
             /\ \A m \in Names : sent'[m] = "settled" => Current(m)'
  <2>1. settling' = settling /\ inbox' = inbox /\ store' = store
    BY <1>1, Zenon DEF PublishTarget, client, pebble
  <2>2. sent'[n] = "new" /\ \A m \in Names : m # n => sent'[m] = sent[m] /\ stream'[m] = stream[m]
    BY <1>1, <1>b, Zenon DEF PublishTarget
  <2> QED
    BY <1>0, <1>a, <2>1, <2>2, Zenon
<1>2. ASSUME NEW n \in Names, Deliver(n)
      PROVE  /\ settling' = "ack" => HeadStored'
             /\ \A m \in Names : sent'[m] = "settled" => Current(m)'
  <2>1. settling' = settling /\ stream' = stream /\ store' = store
    BY <1>2, Zenon DEF Deliver, pebble
  <2>2. sent'[n] = "pending" /\ \A m \in Names : m # n => sent'[m] = sent[m]
    BY <1>2, <1>b, Zenon DEF Deliver
  <2>3. inbox # <<>> => Head(inbox') = Head(inbox)
    BY <1>2, <1>b DEF Deliver
  <2> QED
    BY <1>0, <1>a, <1>b, <2>1, <2>2, <2>3, Zenon
<1>3. ASSUME NEW n \in Names, AckWaitExpires(n)
      PROVE  /\ settling' = "ack" => HeadStored'
             /\ \A m \in Names : sent'[m] = "settled" => Current(m)'
  <2>1. settling' = settling /\ inbox' = inbox /\ stream' = stream /\ store' = store
    BY <1>3, Zenon DEF AckWaitExpires, client, pebble
  <2>2. sent'[n] # "settled" /\ \A m \in Names : m # n => sent'[m] = sent[m]
    BY <1>3, <1>b, Zenon DEF AckWaitExpires, Redeliver
  <2> QED
    BY <1>0, <1>a, <2>1, <2>2, Zenon
<1>4. CASE Apply
  <2>1. settling' = "ack" /\ inbox' = inbox /\ stream' = stream /\ sent' = sent /\ inbox # <<>>
    BY <1>4, Zenon DEF Apply, server, consumer
  <2>2. HeadStored'
    BY <1>4, <2>1, ApplyRows, Zenon
  <2> QED
    BY <1>0, <1>a, <2>1, <2>2, Zenon
<1>5. CASE Settle
  <2> DEFINE ev == Head(inbox)
  <2>1. settling' = "none" /\ stream' = stream /\ store' = store /\ inbox # <<>>
    BY <1>5, <1>b, Zenon DEF Settle, pebble
  <2>2. \A n \in Names : sent'[n] = "settled" =>
          \/ sent[n] = "settled"
          \/ n = ev.name /\ ev.seq = stream[n].seq /\ settling = "ack"
    BY <1>5, <1>b, Zenon DEF Settle, Redeliver
  <2>3. ASSUME NEW n \in Names, n = ev.name, ev.seq = stream[n].seq, settling = "ack"
        PROVE  Current(n)
    BY <1>0, <2>1, <2>3, HeadFacts, Zenon DEF Current
  <2> QED
    BY <1>0, <1>a, <2>1, <2>2, <2>3, Zenon
<1>6. CASE ApplyFails \/ CatchUpFails \/ AckLost \/ Crash
  <2>1. settling' # "ack" /\ stream' = stream /\ sent' = sent
    BY <1>6, Zenon DEF ApplyFails, CatchUpFails, AckLost, Crash, server, consumer
  <2> QED
    BY <1>0, <1>a, <2>1, Zenon
<1>7. CASE Connect \/ ConnectFails \/ FinishCatchUp \/ Flush \/ UNCHANGED vars
  <2>1. /\ settling' = settling /\ inbox' = inbox /\ stream' = stream /\ sent' = sent
        /\ store' = store
    BY <1>7, Zenon DEF Connect, ConnectFails, FinishCatchUp, Flush, vars, server, consumer,
      client, pebble
  <2> QED
    BY <1>0, <1>a, <2>1, Zenon
<1>8. ~DeleteFails
  BY Zenon DEF DeleteFails, StoreReliable
<1> QED
  BY <1>1, <1>2, <1>3, <1>4, <1>5, <1>6, <1>7, <1>8, Zenon DEF Next, EdgeStep

-----------------------------------------------------------------------------
(* FaultInv and ReadyInv *)

\* Nothing leaves the queue but its first event, unless the process ends.
LEMMA StaysQueued ==
  ASSUME TypeInv, [Next]_vars, env.maxCrashes = 0, NEW n \in Names,
         stream'[n] = stream[n], Queued(n)
  PROVE  \/ Queued(n)'
         \/ inbox # <<>> /\ Head(inbox).seq = stream[n].seq /\ inbox' = Tail(inbox)
<1>0. inbox \in Seq(Events)
  BY Zenon DEF TypeInv, TypeOK
<1>1. PICK i \in DOMAIN inbox : inbox[i].seq = stream[n].seq
  BY Zenon DEF Queued
<1>2. CASE inbox' = inbox
  BY <1>1, <1>2, Zenon DEF Queued
<1>3. CASE inbox # <<>> /\ inbox' = Tail(inbox)
  <2>1. CASE i = 1
    BY <1>0, <1>1, <1>3, <2>1
  <2>2. CASE i # 1
    <3>1. i - 1 \in DOMAIN inbox' /\ inbox'[i - 1] = inbox[i]
      BY <1>0, <1>3, <2>2
    <3> QED
      BY <1>1, <3>1, Zenon DEF Queued
  <2> QED
    BY <2>1, <2>2, Zenon
<1>4. ASSUME NEW m \in Names, Deliver(m)
      PROVE  Queued(n)'
  <2>1. i \in DOMAIN inbox' /\ inbox'[i] = inbox[i]
    BY <1>0, <1>4 DEF Deliver
  <2> QED
    BY <1>1, <2>1, Zenon DEF Queued
<1>5. ~CatchUpFails /\ ~Crash
  <2>1. crashes \in 0..env.maxCrashes
    BY Zenon DEF TypeInv, BoundInv
  <2> QED
    BY <2>1 DEF CatchUpFails, Crash
<1>6. settling # "none" => inbox # <<>>
  BY Zenon DEF TypeInv, TypeOK
<1>7. CASE \/ \E m \in Names, c \in Configs \cup {NoConfig} : PublishTarget(m, c)
           \/ \E m \in Names : AckWaitExpires(m)
           \/ Connect \/ ConnectFails \/ Apply \/ ApplyFails \/ DeleteFails
           \/ FinishCatchUp \/ Flush \/ UNCHANGED vars
  <2>1. inbox' = inbox
    BY <1>7, Zenon DEF PublishTarget, AckWaitExpires, Connect, ConnectFails, Apply, ApplyFails,
      DeleteFails, FinishCatchUp, Flush, vars, client
  <2> QED
    BY <1>2, <2>1, Zenon
<1>8. CASE Settle \/ AckLost
  <2>1. inbox # <<>> /\ inbox' = Tail(inbox)
    BY <1>6, <1>8, Zenon DEF Settle, AckLost
  <2> QED
    BY <1>3, <2>1, Zenon
<1> QED
  BY <1>4, <1>5, <1>7, <1>8, Zenon DEF Next, EdgeStep

\* Every step keeps the account of deliveries.
LEMMA FaultStep ==
  ASSUME TypeInv, OrderInv, FaultInv, [Next]_vars
  PROVE  FaultInv'
<1> SUFFICES ASSUME env.maxCrashes = 0, NEW n \in Names
             PROVE  Charged(n)'
  BY SameEnvironment, Zenon DEF FaultInv
<1>0. Charged(n)
  BY Zenon DEF FaultInv
<1>a. /\ inbox \in Seq(Events) /\ stream \in [Names -> RowType] /\ sent \in [Names -> Sent]
      /\ settling # "none" => inbox # <<>>
      /\ tries \in [Names -> 0..MaxDeliver]
  BY Zenon DEF TypeInv, TypeOK
<1>b. errors \in Nat /\ expiries \in Nat /\ tries[n] \in Nat /\ Paid \in Nat
  <2>1. /\ errors \in 0..env.maxErrors /\ env.maxErrors \in Nat
        /\ expiries \in 0..env.maxExpiries /\ env.maxExpiries \in Nat
    BY Bounds, Zenon DEF TypeInv, BoundInv
  <2>2. MaxDeliver \in Nat /\ tries[n] \in 0..MaxDeliver
    BY <1>a, ConfigSyncAssumption, Zenon
  <2> QED
    BY <2>1, <2>2 DEF Paid
<1>f. ASSUME Paid' = Paid, tries'[n] = tries[n]
      PROVE  /\ tries[n] < Paid => tries'[n] < Paid'
             /\ tries[n] <= Paid => tries'[n] <= Paid'
             /\ tries[n] <= Paid + 1 => tries'[n] <= Paid' + 1
  BY <1>f, Zenon
<1>g. ASSUME Paid' = Paid + 1, tries'[n] = tries[n]
      PROVE  /\ tries[n] < Paid => tries[n] <= Paid
             /\ tries[n] <= Paid => tries[n] <= Paid + 1 /\ tries'[n] < Paid'
             /\ tries[n] <= Paid + 1 => tries'[n] <= Paid' /\ tries'[n] <= Paid' + 1
  BY <1>b, <1>g
<1>c. ASSUME stream'[n] = stream[n], Queued(n), ~Queued(n)'
      PROVE  inbox # <<>> /\ Head(inbox).seq = stream[n].seq /\ inbox' = Tail(inbox)
  BY <1>c, StaysQueued, Zenon
<1>d. Refused(n) => Queued(n)
  <2>1. inbox # <<>> => 1 \in DOMAIN inbox /\ Head(inbox) = inbox[1]
    BY <1>a
  <2> QED
    BY <1>a, <2>1, Zenon DEF Refused, Queued
<1>1. ASSUME NEW m \in Names, NEW c \in Configs \cup {NoConfig}, PublishTarget(m, c)
      PROVE  Charged(n)'
  <2>1. /\ settling' = settling /\ inbox' = inbox /\ Paid' = Paid
        /\ n # m => sent'[n] = sent[n] /\ tries'[n] = tries[n] /\ stream'[n] = stream[n]
        /\ n = m => sent'[n] = "new" /\ stream'[n].seq = lastSeq + 1
    BY <1>1, <1>a, Zenon DEF PublishTarget, client, bounds, Paid
  <2>2. CASE n = m
    <3>1. \A i \in DOMAIN inbox : inbox[i].seq <= lastSeq
      BY QueueType DEF OrderInv
    <3>2. ~Queued(n)'
      BY <2>1, <2>2, <3>1, QueueType DEF Queued
    <3> QED
      BY <2>1, <2>2, <3>2, Zenon DEF Charged
  <2>3. CASE n # m
    <3>1. Refused(n)' = Refused(n) /\ Queued(n)' = Queued(n)
      BY <2>1, <2>3, Zenon DEF Refused, Queued
    <3> QED
      BY <1>0, <1>f, <2>1, <2>3, <3>1, Zenon DEF Charged, Paid
  <2> QED
    BY <2>2, <2>3, Zenon
<1>2. ASSUME NEW m \in Names, Deliver(m)
      PROVE  Charged(n)'
  <2>1. /\ settling' = settling /\ Paid' = Paid /\ stream' = stream
        /\ n # m => sent'[n] = sent[n] /\ tries'[n] = tries[n]
        /\ n = m => sent[n] \in {"new", "again"} /\ sent'[n] = "pending" /\ tries'[n] = tries[n] + 1
    BY <1>2, <1>a, Zenon DEF Deliver, bounds, Paid
  <2>2. inbox # <<>> => Head(inbox') = Head(inbox) /\ inbox' # Tail(inbox)
    BY <1>2, <1>a DEF Deliver
  <2>3. Refused(n)' = Refused(n)
    BY <1>a, <2>1, <2>2, Zenon DEF Refused
  <2>4. CASE n # m
    <3>1. Queued(n) => Queued(n)'
      BY <1>c, <2>1, <2>2, Zenon
    <3>2. \A i \in DOMAIN inbox' : (i \in DOMAIN inbox /\ inbox'[i] = inbox[i]) \/ inbox'[i] = Event(m)
      BY <1>2, <1>a DEF Deliver
    <3>3. stream[m].seq # 0
      BY <1>2, Zenon DEF Deliver, TypeInv, ConsumerInv
    <3>4. stream[m].seq # stream[n].seq
      BY <1>2, <2>4, <3>3, Zenon DEF OrderInv
    <3>5. Queued(n)' => Queued(n)
      BY <2>1, <3>2, <3>4 DEF Queued, Event
    <3> QED
      BY <1>0, <1>f, <2>1, <2>3, <2>4, <3>1, <3>5, Zenon DEF Charged
  <2>5. CASE n = m
    <3>1. Queued(n)'
      <4>1. Len(inbox) + 1 \in DOMAIN inbox' /\ inbox'[Len(inbox) + 1].seq = stream[n].seq
        BY <1>2, <1>a, <2>5 DEF Deliver, Event
      <4> QED
        BY <2>1, <4>1, Zenon DEF Queued
    <3>2. sent[n] = "new" => tries[n] = 0 /\ ~Refused(n)
      BY <1>0, <1>d, Zenon DEF Charged, TypeInv, ConsumerInv
    <3>3. /\ tries[n] = 0 => tries'[n] <= Paid' + 1
          /\ tries[n] <= Paid => tries'[n] <= Paid' + 1
          /\ tries[n] < Paid => tries'[n] <= Paid'
      BY <1>b, <2>1, <2>5
    <3> QED
      BY <1>0, <2>1, <2>3, <2>5, <3>1, <3>2, <3>3, Zenon DEF Charged
  <2> QED
    BY <2>4, <2>5, Zenon
<1>3. ASSUME NEW m \in Names, AckWaitExpires(m)
      PROVE  Charged(n)'
  <2>1. /\ settling' = settling /\ inbox' = inbox /\ errors' = errors /\ stream' = stream
        /\ tries' = tries
        /\ n # m => sent'[n] = sent[n]
        /\ n = m => sent[n] = "pending" /\ sent'[n] \in {"again", "given up"}
    BY <1>3, <1>a, Zenon DEF AckWaitExpires, Redeliver, client
  <2>5. \/ expiries' = expiries + 1 /\ Paid' = Paid + 1
        \/ expiries' = expiries /\ Paid' = Paid /\ ~Queued(m)
    <3>1. expiries' = expiries + 1 \/ (expiries' = expiries /\ ~Queued(m))
      BY <1>3, Zenon DEF AckWaitExpires, Queued
    <3>2. errors' = errors /\ errors \in Nat /\ expiries \in Nat
      BY <1>b, <2>1, Zenon
    <3>3. /\ expiries' = expiries + 1 => Paid' = Paid + 1
          /\ expiries' = expiries => Paid' = Paid
      BY <3>2 DEF Paid
    <3> QED
      BY <3>1, <3>3, Zenon
  <2>2. Refused(n)' = Refused(n) /\ Queued(n)' = Queued(n)
    BY <2>1, Zenon DEF Refused, Queued
  <2>3. CASE n # m
    BY <1>0, <1>f, <1>g, <2>1, <2>2, <2>3, <2>5, Zenon DEF Charged
  <2>4. CASE n = m
    BY <1>0, <1>d, <1>f, <1>g, <2>1, <2>2, <2>4, <2>5, Zenon DEF Charged
  <2> QED
    BY <2>3, <2>4, Zenon
<1>4. CASE ApplyFails
  <2>1. /\ settling' = "nak" /\ settling = "none" /\ inbox' = inbox /\ stream' = stream
        /\ sent' = sent /\ tries' = tries /\ Paid' = Paid + 1
    BY <1>4, <1>b DEF ApplyFails, server, consumer, Paid
  <2>2. Queued(n)' = Queued(n) /\ ~Refused(n)
    BY <2>1, Zenon DEF Refused, Queued
  <2> QED
    BY <1>0, <1>g, <2>1, <2>2, Zenon DEF Charged
<1>5. CASE Settle
  <2> DEFINE ev == Head(inbox)
  <2>1. /\ settling' = "none" /\ settling # "none" /\ stream' = stream /\ tries' = tries
        /\ Paid' = Paid
        /\ inbox # <<>> /\ inbox' = Tail(inbox)
    BY <1>5, <1>a, Zenon DEF Settle, bounds, Paid
  <2>2. ~Refused(n)'
    BY <2>1, Zenon DEF Refused
  <2>3. Queued(n)' => Queued(n)
    <3>1. \A i \in DOMAIN inbox' : i + 1 \in DOMAIN inbox /\ inbox'[i] = inbox[i + 1]
      BY <1>a, <2>1
    <3> QED
      BY <2>1, <3>1 DEF Queued
  <2>4. CASE ev.seq # stream[n].seq
    <3>1. Queued(n)' = Queued(n)
      BY <1>c, <2>1, <2>3, <2>4, Zenon DEF Queued
    <3>2. sent'[n] = sent[n]
      BY <1>5, <1>a, <2>4, Zenon DEF Settle, Redeliver
    <3> QED
      BY <1>0, <1>f, <2>1, <2>2, <3>1, <3>2, Zenon DEF Charged
  <2>5. CASE ev.seq = stream[n].seq
    <3>1. ev.name = n
      BY <2>1, <2>5, HeadFacts, Zenon
    <3>2. \/ settling = "ack" /\ sent'[n] = "settled"
          \/ settling = "nak" /\ sent[n] = "pending" /\ sent'[n] \in {"again", "given up"}
          \/ sent[n] # "pending" /\ sent'[n] = sent[n]
      BY <1>5, <1>a, <2>5, <3>1, Zenon DEF Settle, Redeliver, TypeInv, TypeOK
    <3>3. settling = "nak" => Refused(n)
      BY <2>5, Zenon DEF Refused
    <3> QED
      BY <1>0, <1>f, <2>1, <2>2, <2>3, <3>2, <3>3, Zenon DEF Charged
  <2> QED
    BY <2>4, <2>5, Zenon
<1>6. CASE AckLost
  <2>1. /\ settling' = "none" /\ settling = "ack" /\ stream' = stream /\ tries' = tries
        /\ sent' = sent /\ Paid' = Paid + 1
        /\ inbox # <<>> /\ inbox' = Tail(inbox)
    BY <1>6, <1>a, <1>b DEF AckLost, server, consumer, Paid
  <2>2. ~Refused(n)' /\ ~Refused(n)
    BY <2>1, Zenon DEF Refused
  <2>3. Queued(n)' => Queued(n)
    <3>1. \A i \in DOMAIN inbox' : i + 1 \in DOMAIN inbox /\ inbox'[i] = inbox[i + 1]
      BY <1>a, <2>1
    <3> QED
      BY <2>1, <3>1 DEF Queued
  <2> QED
    BY <1>0, <1>g, <2>1, <2>2, <2>3, Zenon DEF Charged
<1>7. CASE Connect \/ ConnectFails \/ Apply \/ DeleteFails \/ FinishCatchUp \/ Flush \/ UNCHANGED vars
  <2>1. /\ settling' = settling \/ settling' = "ack"
        /\ inbox' = inbox /\ stream' = stream /\ tries' = tries
        /\ sent' = sent /\ Paid' = Paid
    BY <1>7, Zenon DEF Connect, ConnectFails, Apply, DeleteFails, FinishCatchUp, Flush, vars,
      server, consumer, client, bounds, Paid
  <2>2. Queued(n)' = Queued(n) /\ (Refused(n)' => Refused(n))
    BY <2>1, Zenon DEF Refused, Queued
  <2> QED
    BY <1>0, <1>f, <2>1, <2>2, Zenon DEF Charged
<1>8. ~CatchUpFails /\ ~Crash
  <2>1. crashes \in 0..env.maxCrashes
    BY Zenon DEF TypeInv, BoundInv
  <2> QED
    BY <2>1 DEF CatchUpFails, Crash
<1> QED
  BY <1>1, <1>2, <1>3, <1>4, <1>5, <1>6, <1>7, <1>8, Zenon DEF Next, EdgeStep

\* Every step keeps unsettled events in the store or in the queue.
LEMMA ReadyStep ==
  ASSUME TypeInv, OrderInv, RowInv, AckInv, ReadyInv, [Next]_vars
  PROVE  ReadyInv'
<1> SUFFICES ASSUME OwnRows, StoreReliable, env.maxCrashes = 0, NEW n \in Names,
                    sent'[n] = "pending"
             PROVE  (Current(n) \/ Queued(n))'
  BY SameEnvironment, Zenon DEF ReadyInv, OwnRows, StoreReliable
<1>0. /\ sent[n] = "pending" => Current(n) \/ Queued(n)
      /\ settling = "ack" => store[Head(inbox).name] = [seq |-> Head(inbox).seq, cfg |-> Head(inbox).cfg]
  BY Zenon DEF ReadyInv, AckInv
<1>a. /\ inbox \in Seq(Events) /\ stream \in [Names -> RowType] /\ sent \in [Names -> Sent]
      /\ settling # "none" => inbox # <<>>
      /\ settling \in {"none", "ack", "nak"}
  BY Zenon DEF TypeInv, TypeOK
<1>b. Current(n) /\ stream'[n] = stream[n] => Current(n)'
  BY StaysCurrent, Zenon
<1>c. Queued(n) /\ stream'[n] = stream[n] =>
        \/ Queued(n)'
        \/ inbox # <<>> /\ Head(inbox).seq = stream[n].seq /\ inbox' = Tail(inbox)
  BY StaysQueued, Zenon
<1>1. ASSUME NEW m \in Names, NEW c \in Configs \cup {NoConfig}, PublishTarget(m, c)
      PROVE  (Current(n) \/ Queued(n))'
  <2>1. n # m /\ sent[n] = "pending" /\ stream'[n] = stream[n] /\ inbox' = inbox
    BY <1>1, <1>a, Zenon DEF PublishTarget, client
  <2> QED
    BY <1>0, <1>b, <2>1, Zenon DEF Queued
<1>2. ASSUME NEW m \in Names, Deliver(m)
      PROVE  (Current(n) \/ Queued(n))'
  <2>1. /\ stream' = stream /\ (n # m => sent[n] = "pending")
        /\ inbox # <<>> => inbox' # Tail(inbox)
    BY <1>2, <1>a DEF Deliver
  <2>2. CASE n = m
    <3>1. Len(inbox) + 1 \in DOMAIN inbox' /\ inbox'[Len(inbox) + 1].seq = stream[n].seq
      BY <1>2, <1>a, <2>2 DEF Deliver, Event
    <3> QED
      BY <2>1, <3>1, Zenon DEF Queued
  <2>3. CASE n # m
    BY <1>0, <1>b, <1>c, <2>1, <2>3, Zenon
  <2> QED
    BY <2>2, <2>3, Zenon
<1>3. ASSUME NEW m \in Names, AckWaitExpires(m)
      PROVE  (Current(n) \/ Queued(n))'
  <2>1. sent[n] = "pending" /\ stream' = stream /\ inbox' = inbox
    BY <1>3, <1>a, Zenon DEF AckWaitExpires, Redeliver, client
  <2> QED
    BY <1>0, <1>b, <2>1, Zenon DEF Queued
<1>4. CASE Settle
  <2>1. sent[n] = "pending" /\ stream' = stream /\ inbox # <<>>
    BY <1>4, <1>a, Zenon DEF Settle, Redeliver
  <2>2. Head(inbox).seq # stream[n].seq
    <3> SUFFICES ASSUME Head(inbox).seq = stream[n].seq
                 PROVE  FALSE
      BY Zenon
    <3>1. Head(inbox).name = n
      BY <2>1, HeadFacts, Zenon
    <3> QED
      BY <1>4, <1>a, <2>1, <3>1, Zenon DEF Settle, Redeliver
  <2> QED
    BY <1>0, <1>b, <1>c, <2>1, <2>2, Zenon
<1>5. CASE AckLost
  <2>1. sent[n] = "pending" /\ stream' = stream /\ inbox # <<>> /\ settling = "ack"
    BY <1>5, <1>a, Zenon DEF AckLost, server, consumer
  <2>2. CASE Head(inbox).seq = stream[n].seq
    <3>1. Head(inbox).name = n /\ stream[n] = [seq |-> Head(inbox).seq, cfg |-> Head(inbox).cfg]
      BY <2>1, <2>2, HeadFacts, Zenon
    <3>2. Current(n)
      BY <1>0, <2>1, <3>1, Zenon DEF Current
    <3> QED
      BY <1>b, <2>1, <3>2, Zenon
  <2>3. CASE Head(inbox).seq # stream[n].seq
    BY <1>0, <1>b, <1>c, <2>1, <2>3, Zenon
  <2> QED
    BY <2>2, <2>3, Zenon
<1>6. CASE \/ Connect \/ ConnectFails \/ Apply \/ ApplyFails \/ DeleteFails
           \/ FinishCatchUp \/ Flush \/ UNCHANGED vars
  <2>1. inbox' = inbox /\ stream' = stream /\ sent' = sent
    BY <1>6, Zenon DEF Connect, ConnectFails, Apply, ApplyFails, DeleteFails, FinishCatchUp,
      Flush, vars, server, consumer, client
  <2> QED
    BY <1>0, <1>b, <2>1, Zenon DEF Queued
<1>7. ~CatchUpFails /\ ~Crash
  <2>1. crashes \in 0..env.maxCrashes
    BY Zenon DEF TypeInv, BoundInv
  <2> QED
    BY <2>1 DEF CatchUpFails, Crash
<1> QED
  BY <1>1, <1>2, <1>3, <1>4, <1>5, <1>6, <1>7, Zenon DEF Next, EdgeStep

-----------------------------------------------------------------------------
(* The theorems *)

\* The inductive invariant.
SyncInv == TypeInv /\ OrderInv /\ RowInv /\ AckInv /\ FaultInv /\ ReadyInv

\* Initially nothing is published, and every step keeps it.
LEMMA SyncInvariant == Spec => []SyncInv
<1>1. Init => SyncInv
  <2> SUFFICES ASSUME Init PROVE SyncInv
    BY Zenon
  <2>1. /\ env.maxEvents \in Nat /\ env.maxCrashes \in Nat
        /\ env.maxErrors \in Nat /\ env.maxExpiries \in Nat
    BY Bounds, Zenon DEF Init
  <2>2. [seq |-> 0, cfg |-> NoConfig] \in RowType
    BY <2>1 DEF RowType
  <2>3. TypeOK
    BY <2>1, <2>2, ConfigSyncAssumption DEF Init, TypeOK, Sent, Edge
  <2>4. BoundInv
    BY <2>1 DEF Init, BoundInv
  <2>5. ConsumerInv
    BY Zenon DEF Init, ConsumerInv
  <2>6. OrderInv
    BY DEF Init, OrderInv
  <2>7. RowInv /\ AckInv
    BY DEF Init, RowInv, AckInv, Current
  <2>8. FaultInv /\ ReadyInv
    BY Zenon DEF Init, FaultInv, Charged, ReadyInv
  <2> QED
    BY <2>3, <2>4, <2>5, <2>6, <2>7, <2>8, Zenon DEF SyncInv, TypeInv
<1>2. SyncInv /\ [Next]_vars => SyncInv'
  <2> SUFFICES ASSUME SyncInv, [Next]_vars PROVE SyncInv'
    BY Zenon
  <2>1. TypeInv'
    BY TypeStep, BoundStep, ConsumerStep, Zenon DEF SyncInv, TypeInv
  <2>2. OrderInv' /\ RowInv'
    BY OrderStep, RowStep, Zenon DEF SyncInv
  <2>3. AckInv' /\ FaultInv' /\ ReadyInv'
    BY AckStep, FaultStep, ReadyStep, Zenon DEF SyncInv
  <2> QED
    BY <2>1, <2>2, <2>3, Zenon DEF SyncInv
<1> QED
  BY <1>1, <1>2, PTL DEF Spec

\* The variables keep their types; among them, no event is delivered more than
\* MaxDeliver times, and an edge that is down or adrift holds no events.
THEOREM SyncTypes == Spec => []TypeOK
<1>1. SyncInv => TypeOK
  BY Zenon DEF SyncInv, TypeInv
<1> QED
  BY <1>1, SyncInvariant, PTL

\* What the server takes as settled is in the store, in any number of names,
\* deliveries, errors, lost acknowledgements and crashes: applyMessage returns
\* before the event is acknowledged, and a later event of the name unsettles it.
THEOREM AcknowledgedEventsAreApplied == Spec => []AckedIsApplied
<1>1. SyncInv => AckedIsApplied
  BY Zenon DEF SyncInv, AckInv, AckedIsApplied, SettledIsApplied, Applied, Current
<1> QED
  BY <1>1, SyncInvariant, PTL

\* No delivery, first or repeated, replaces a row by that of an older event.
THEOREM RowsMoveForward == Spec => NewestWins
<1>1. ASSUME SyncInv, [Next]_vars
      PROVE  [OwnRows /\ edge' # "down" =>
                \A n \in Names : store'[n].seq >= store[n].seq]_vars
  <2> SUFFICES ASSUME OwnRows, edge' # "down", NEW n \in Names
               PROVE  store'[n].seq >= store[n].seq
    BY Zenon
  <2>1. TypeInv /\ OrderInv /\ RowInv /\ store[n].seq \in Nat
    BY <1>1, RowNumbers, Zenon DEF SyncInv
  <2>2. CASE Apply
    <3>1. inbox # <<>>
      BY <2>2, Zenon DEF Apply
    <3>2. Head(inbox) = inbox[1] /\ 1 \in DOMAIN inbox
      BY <2>1, <3>1, OwnHostnames, Zenon
    <3>3. store[inbox[1].name].seq <= inbox[1].seq /\ inbox[1].seq \in Nat
      BY <2>1, <3>2, QueueType, Zenon DEF RowInv
    <3>4. /\ store'[inbox[1].name].seq = inbox[1].seq
          /\ n # inbox[1].name => store'[n] = store[n]
      BY <2>1, <2>2, <3>2, ApplyRows
    <3> QED
      BY <2>1, <3>3, <3>4
  <2>3. ~Crash
    BY Zenon DEF Crash
  <2>4. CASE store' = store
    BY <2>1, <2>4
  <2> QED
    BY <1>1, <2>1, <2>2, <2>3, <2>4, StoreStep, Zenon
<1> QED
  BY <1>1, SyncInvariant, PTL DEF Spec, NewestWins

\* The arithmetic of FewFaults.
LEMMA FaultBudget ==
  /\ \A k \in Nat : \A x \in 0..k : x \in Nat /\ x <= k
  /\ \A e, x, maxE, maxX, m \in Nat :
       e <= maxE /\ x <= maxX /\ 0 + maxE + maxX < m => ~(m <= e + x)
OBVIOUS

\* When catch-up ends the store holds every retained event: the queue is empty
\* then, no event is waiting, and with fewer faults than deliveries none has been
\* given up.
THEOREM CatchUpIsComplete == Spec => ReadyMeansApplied
<1>1. ASSUME SyncInv, [Next]_vars
      PROVE  [OwnRows /\ StoreReliable /\ FewFaults /\ env.maxCrashes = 0
                /\ edge = "catchup" /\ edge' = "live" => \A n \in Names : Applied(n)]_vars
  <2> SUFFICES ASSUME OwnRows, StoreReliable, FewFaults, env.maxCrashes = 0,
                      edge = "catchup", edge' = "live", NEW n \in Names
               PROVE  Applied(n)
    BY Zenon
  <2>1. FinishCatchUp
    BY <1>1, Zenon DEF Next, EdgeStep, PublishTarget, Deliver, AckWaitExpires, Connect,
      ConnectFails, CatchUpFails, Apply, ApplyFails, DeleteFails, Settle, AckLost, Flush, Crash,
      vars
  <2>2. inbox = <<>> /\ sent[n] \notin {"new", "again"}
    BY <2>1, Zenon DEF FinishCatchUp
  <2>3. sent[n] \in Sent
    BY <1>1, Zenon DEF SyncInv, TypeInv, TypeOK
  <2>4. sent[n] # "given up"
    <3> SUFFICES ASSUME sent[n] = "given up" PROVE FALSE
      BY Zenon
    <3>1. tries[n] = MaxDeliver /\ tries[n] <= errors + expiries
      BY <1>1, Zenon DEF SyncInv, TypeInv, ConsumerInv, FaultInv, Charged, Paid
    <3>2. /\ errors \in Nat /\ errors <= env.maxErrors /\ env.maxErrors \in Nat
          /\ expiries \in Nat /\ expiries <= env.maxExpiries /\ env.maxExpiries \in Nat
      <4>1. /\ errors \in 0..env.maxErrors /\ env.maxErrors \in Nat
            /\ expiries \in 0..env.maxExpiries /\ env.maxExpiries \in Nat
        BY <1>1, Bounds, Zenon DEF SyncInv, TypeInv, BoundInv
      <4> QED
        BY <4>1, FaultBudget, Zenon
    <3>3. 0 + env.maxErrors + env.maxExpiries < MaxDeliver
      BY Zenon DEF FewFaults
    <3>4. MaxDeliver \in Nat
      BY ConfigSyncAssumption, Zenon
    <3>5. MaxDeliver <= errors + expiries
      BY <3>1, Zenon
    <3> QED
      BY <3>2, <3>3, <3>4, <3>5, FaultBudget, Zenon
  <2>5. CASE sent[n] = "settled"
    BY <1>1, <2>5, Zenon DEF SyncInv, AckInv, Current, Applied
  <2>6. CASE sent[n] = "pending"
    <3>1. ~Queued(n)
      BY <2>2 DEF Queued
    <3> QED
      BY <1>1, <2>6, <3>1, Zenon DEF SyncInv, ReadyInv, Current, Applied
  <2> QED
    BY <2>2, <2>3, <2>4, <2>5, <2>6, Zenon DEF Sent
<1> QED
  BY <1>1, SyncInvariant, PTL DEF Spec, ReadyMeansApplied

=============================================================================
