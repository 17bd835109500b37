----------------------------- MODULE Lifecycle ------------------------------
(***************************************************************************)
(* The life of a proxy process: Run with start, the goroutine that shuts   *)
(* down when the context is cancelled, the goroutine that reloads on       *)
(* SIGHUP, the serve loops of the listeners, the health checkers of the    *)
(* targets and the log files of the jsonlog plugin, with requests under    *)
(* way.  Shutdown and reload share no lock.                                *)
(***************************************************************************)
EXTENDS Naturals, Sequences, FiniteSets

CONSTANTS
  Targets,       \* targets with active health checks
  Requests,
  Environments   \* see IsEnvironment

\* One environment is chosen for a behavior: the sockets in the order they are
\* bound, TCP before QUIC; whether the process is a cluster edge with a target
\* store and a config stream; whether startup, a serve loop or a reload can fail;
\* whether the context is cancelled, and not before the listeners are served;
\* whether a drain can time out; the number of SIGHUPs.
IsEnvironment(e) ==
  /\ e.sockets \in Seq([kind : {"tcp", "quic"}, addr : Nat])
  /\ {e.cluster, e.startFails, e.serveFails, e.reloadFails, e.cancels,
      e.cancelsLate, e.timeouts} \subseteq BOOLEAN
  /\ e.maxHups \in Nat

ASSUME LifecycleAssumption == \A e \in Environments : IsEnvironment(e)

VARIABLES
  main,        \* where Run and start are
  ready,       \* configReady is closed
  bound,       \* the sockets bound so far: the servers in srvs and h3Srvs
  open,        \* the sockets that are open
  loop,        \* per socket: its serve loop
  shut,        \* the sockets whose server was told to shut down
  cancelled,   \* the context of Run
  caught,      \* SIGHUP is delivered to sigChan and not to the default action
  hups, signals, \* SIGHUPs so far, and those waiting in sigChan
  reload,      \* where the reload goroutine is
  config,      \* ps.targets
  checkers,    \* ps.healthCheckers: the router build they belong to, the targets
  running,     \* the checkers' goroutines, <<target, build>>
  stopped,     \* the checkers whose stopCh is closed
  builds,      \* router builds so far
  routed,      \* the build whose handlers serve requests
  down,        \* per caller of shutdown: where it is
  todo,        \* per caller: the sockets it has still to shut down, in the order
               \* they were bound
  at,          \* per request: the socket it came from, or 0
  log,         \* the jsonlog plugin's files
  store,       \* the target store
  lost,        \* history: an access line had no file to go to
  kept,        \* history: targets that were there before and after a reload
  calls,       \* history: calls of shutdown
  overlap,     \* history: a reload had not ended when a shutdown began
  env

startup == <<main, ready, bound>>
sockets == <<open, loop, shut>>
sighup == <<caught, hups, signals>>
health == <<config, checkers, running, stopped, builds, routed, kept>>
closing == <<down, todo, calls, overlap>>
vars == <<startup, sockets, cancelled, sighup, reload, health, closing, at, log,
          store, lost, env>>

Callers == {"ctx", "main"}
Sockets == 1..Len(env.sockets)

\* The process has ended: Run returned, a second close of a stopCh panicked, or
\* SIGHUP had its default action.
Ended == main \in {"returned", "panic", "killed"}

Init ==
  /\ env \in Environments
  /\ main = "load" /\ ready = FALSE /\ bound = {}
  /\ open = {} /\ loop = [s \in Sockets |-> "none"] /\ shut = {}
  /\ cancelled = FALSE
  /\ caught = FALSE /\ hups = 0 /\ signals = 0
  /\ reload = "idle"
  /\ config = {}
  /\ checkers = [build |-> 0, targets |-> {}]
  /\ running = {} /\ stopped = {} /\ builds = 0 /\ routed = 0 /\ kept = {}
  /\ down = [c \in Callers |-> "no"]
  /\ todo = [c \in Callers |-> {}]
  /\ calls = 0 /\ overlap = FALSE
  /\ at = [q \in Requests |-> 0]
  /\ log = "closed" /\ store = "closed" /\ lost = FALSE

-----------------------------------------------------------------------------
(* Run and start *)

\* Start and Stop of the jsonlog plugin.
OpenLogs == log' = "open"
CloseLogs == log' = "closed"

\* The configuration is loaded, plugins are started, newProxyServer opens the
\* target store of a cluster edge and starts its consumer.
Load ==
  /\ main = "load"
  /\ config' \in SUBSET Targets
  /\ OpenLogs
  /\ store' = IF env.cluster THEN "open" ELSE "closed"
  /\ main' = "replay"
  /\ UNCHANGED <<ready, bound, sockets, cancelled, sighup, reload, checkers,
                 running, stopped, builds, routed, kept, closing, at, lost, env>>

\* A file is missing or wrong, or a plugin does not start: Run returns before
\* there is anything to shut down.
LoadFails ==
  /\ main = "load" /\ env.startFails
  /\ main' = "returned"
  /\ UNCHANGED <<ready, bound, sockets, cancelled, sighup, reload, health, closing,
                 at, log, store, lost, env>>

\* The consumer has applied the retained events.
Replayed ==
  /\ main = "replay" /\ env.cluster /\ ~ready
  /\ ready' = TRUE
  /\ UNCHANGED <<main, bound, sockets, cancelled, sighup, reload, health, closing,
                 at, log, store, lost, env>>

\* start returns an error: Run closes runEnd and waits for the other goroutine.
StartFails ==
  /\ main' = "return"
  /\ UNCHANGED <<ready, bound, cancelled, sighup, reload, health, closing, at, log,
                 store, lost, env>>

\* waitForConfigReplay: the consumer failed, or the timer fires first.
ReplayFails ==
  /\ main = "replay" /\ env.cluster /\ ~ready
  /\ StartFails
  /\ UNCHANGED sockets

\* buildHostRouter: the checkers of targets that are new are started, those of
\* targets that are gone stopped, and all are replaced in ps.healthCheckers.
\* A lazy router has none.
Lazy == store = "open"

\* Mutant: with no target to check, the old map is left in place.
StartSomeCheckers(T) ==
  /\ running' = running \cup {<<t, builds + 1>> : t \in T \ checkers.targets}
  /\ checkers' = IF T = {} THEN checkers ELSE [build |-> builds + 1, targets |-> T]
  /\ builds' = builds + 1

StartCheckers(T) ==
  /\ running' = running \cup {<<t, builds + 1>> : t \in T \ checkers.targets}
  /\ checkers' = [build |-> builds + 1, targets |-> T]
  /\ builds' = builds + 1

\* The first router; the listeners must parse and the TLS ones have certificates.
Build ==
  /\ main = "replay"
  /\ env.cluster => ready
  /\ IF Lazy THEN UNCHANGED <<running, checkers, builds, routed>>
             ELSE StartCheckers(config) /\ routed' = builds + 1
  /\ main' = "bind"
  /\ UNCHANGED <<ready, bound, sockets, cancelled, sighup, reload, config,
                 stopped, kept, closing, at, log, store, lost, env>>

ListenersFail ==
  /\ main = "bind" /\ bound = {} /\ env.startFails
  /\ StartFails
  /\ UNCHANGED sockets

Following == Cardinality(bound) + 1

\* net.Listen or net.ListenPacket of the next socket.
Bind ==
  /\ main = "bind" /\ Following \in Sockets
  /\ bound' = bound \cup {Following}
  /\ open' = open \cup {Following}
  /\ UNCHANGED <<main, ready, loop, shut, cancelled, sighup, reload, health, closing, at,
                 log, store, lost, env>>

\* Mutant: only the TCP sockets are closed.
closeTCPListeners ==
  open' = {s \in open : env.sockets[s].kind = "quic"}

\* closeListeners
closeListeners == open' = open \ bound

BindFails ==
  /\ main = "bind" /\ Following \in Sockets /\ env.startFails
  /\ closeListeners
  /\ StartFails
  /\ UNCHANGED <<loop, shut>>

\* SIGHUP is caught from here on, and a goroutine per socket runs its serve loop.
Serve ==
  /\ main = "bind" /\ bound = Sockets
  /\ main' = "serving"
  /\ caught' = TRUE
  /\ loop' = [s \in Sockets |-> "starting"]
  /\ UNCHANGED <<ready, bound, open, shut, cancelled, hups, signals, reload, health,
                 closing, at, log, store, lost, env>>

\* A server that was told to shut down closes its socket instead of serving it.
LoopStarts(s) ==
  /\ ~Ended /\ loop[s] = "starting"
  /\ loop' = [loop EXCEPT ![s] = IF s \in shut THEN "closed" ELSE "serving"]
  /\ open' = IF s \in shut THEN open \ {s} ELSE open
  /\ UNCHANGED <<startup, shut, cancelled, sighup, reload, health, closing, at, log,
                 store, lost, env>>

\* Accepting fails.  A packet socket is left to shutdown.
LoopFails(s) ==
  /\ ~Ended /\ loop[s] = "serving" /\ env.serveFails
  /\ loop' = [loop EXCEPT ![s] = "failed"]
  /\ open' = IF env.sockets[s].kind = "tcp" THEN open \ {s} ELSE open
  /\ UNCHANGED <<startup, shut, cancelled, sighup, reload, health, closing, at, log,
                 store, lost, env>>

\* start collects the loops' errors: the first real one makes it shut down the
\* rest and wait for all loops; without one it waits for all loops.
Collect ==
  /\ \/ /\ main = "serving"
        /\ \/ \E s \in Sockets : loop[s] = "failed" /\ main' = "cleanup"
           \/ (\A s \in Sockets : loop[s] = "closed") /\ main' = "return"
     \/ /\ main = "cleanup" /\ down["main"] = "done"
        /\ \A s \in Sockets : loop[s] \in {"closed", "failed"}
        /\ main' = "return"
  /\ UNCHANGED <<ready, bound, sockets, cancelled, sighup, reload, health, closing,
                 at, log, store, lost, env>>

\* Mutant: Run does not wait for shutdownDone.
ReturnAtOnce ==
  /\ main = "return"
  /\ main' = "returned"
  /\ CloseLogs
  /\ UNCHANGED <<ready, bound, sockets, cancelled, sighup, reload, health, closing,
                 at, store, lost, env>>

\* The other goroutine has seen runEnd, or has finished its shutdown; then the
\* deferred calls stop the plugins and close the cache.
Return ==
  /\ main = "return" /\ down["ctx"] \in {"no", "done"}
  /\ main' = "returned"
  /\ CloseLogs
  /\ UNCHANGED <<ready, bound, sockets, cancelled, sighup, reload, health, closing,
                 at, store, lost, env>>

-----------------------------------------------------------------------------
(* shutdown, called by the goroutine that watches the context and by start *)

\* The config stream and the target store are closed first.
BeginShutdown(c) ==
  /\ ~Ended /\ down[c] = "no"
  /\ IF c = "ctx" THEN cancelled /\ main # "load" ELSE main = "cleanup"
  /\ down' = [down EXCEPT ![c] = "signal"]
  /\ calls' = calls + 1
  /\ overlap' = (overlap \/ reload # "idle")
  /\ store' = "closed"
  /\ UNCHANGED <<startup, sockets, cancelled, sighup, reload, health, todo, at, log,
                 lost, env>>

\* signal.Reset: from here SIGHUP has its default action again.
ResetSignal(c) ==
  /\ ~Ended /\ down[c] = "signal"
  /\ down' = [down EXCEPT ![c] = "checkers"]
  /\ caught' = FALSE
  /\ UNCHANGED <<startup, sockets, cancelled, hups, signals, reload, health, todo,
                 calls, overlap, at, log, store, lost, env>>

\* HealthChecker.Stop of the current checkers of T: a second close of the same
\* stopCh panics; a checker that was never started just closes it.
Stop(T) ==
  LET C == {<<t, checkers.build>> : t \in T} IN
  /\ stopped' = stopped \cup C
  /\ running' = running \ C
  /\ main' = IF C \cap stopped = {} THEN main ELSE "panic"

\* Mutant: the first server only.
FirstBound(kind) ==
  {s \in bound : /\ env.sockets[s].kind = kind
                 /\ \A t \in bound : env.sockets[t].kind = kind => s <= t}

\* quicServers and tcpServers: the servers registered so far.
Bound(kind) == {s \in bound : env.sockets[s].kind = kind}

StopCheckers(c) ==
  /\ ~Ended /\ down[c] = "checkers"
  /\ Stop(checkers.targets)
  /\ down' = [down EXCEPT ![c] = "quic"]
  /\ todo' = [todo EXCEPT ![c] = Bound("quic")]
  /\ UNCHANGED <<ready, bound, sockets, cancelled, sighup, reload, config, checkers,
                 builds, routed, kept, calls, overlap, at, log, store, lost, env>>

Waiting == [quic |-> "quicDrain", tcp |-> "tcpDrain"]

\* The server whose turn it is.
IsFirst(s, c) == s \in todo[c] /\ \A t \in todo[c] : s <= t

\* Shutdown of one server: its loop ends, no request comes in any more.
ShutServer(c) ==
  /\ ~Ended /\ down[c] \in {"quic", "tcp"}
  /\ \E s \in todo[c] :
       /\ IsFirst(s, c)
       /\ shut' = shut \cup {s}
       /\ loop' = [loop EXCEPT ![s] = IF @ = "serving" THEN "closed" ELSE @]
       /\ open' = IF loop[s] = "serving" /\ down[c] = "tcp" THEN open \ {s} ELSE open
  /\ down' = [down EXCEPT ![c] = Waiting[@]]
  /\ UNCHANGED <<startup, cancelled, sighup, reload, health, todo, calls, overlap, at,
                 log, store, lost, env>>

\* Its requests are done, or the context of shutdown has expired.
Drained(c) ==
  /\ ~Ended /\ down[c] \in {"quicDrain", "tcpDrain"}
  /\ \E s \in todo[c] :
       /\ IsFirst(s, c)
       /\ env.timeouts \/ \A q \in Requests : at[q] # s
       /\ todo' = [todo EXCEPT ![c] = @ \ {s}]
  /\ down' = [down EXCEPT ![c] = IF @ = "quicDrain" THEN "quic" ELSE "tcp"]
  /\ UNCHANGED <<startup, sockets, cancelled, sighup, reload, health, calls, overlap,
                 at, log, store, lost, env>>

\* After the last QUIC server the packet sockets are closed, and the TCP servers'
\* turn comes; after the last TCP server shutdown returns.
NextKind(c) ==
  /\ ~Ended /\ down[c] \in {"quic", "tcp"} /\ todo[c] = {}
  /\ \/ /\ down[c] = "quic"
        /\ open' = {s \in open : env.sockets[s].kind = "tcp"}
        /\ todo' = [todo EXCEPT ![c] = Bound("tcp")]
        /\ down' = [down EXCEPT ![c] = "tcp"]
     \/ /\ down[c] = "tcp"
        /\ down' = [down EXCEPT ![c] = "done"]
        /\ UNCHANGED <<open, todo>>
  /\ UNCHANGED <<startup, loop, shut, cancelled, sighup, reload, health, calls,
                 overlap, at, log, store, lost, env>>

Shutdown(c) ==
  \/ BeginShutdown(c) \/ ResetSignal(c) \/ StopCheckers(c)
  \/ ShutServer(c) \/ Drained(c) \/ NextKind(c)

-----------------------------------------------------------------------------
(* reload, in the goroutine that reads sigChan *)

\* LoadProxy and LoadTargets: an error leaves everything as it was.
ReloadConfig ==
  /\ ~Ended /\ reload = "idle" /\ signals = 1
  /\ signals' = 0
  /\ \/ /\ env.reloadFails
        /\ UNCHANGED <<reload, config, overlap>>
     \/ /\ config' \in SUBSET Targets
        /\ reload' = IF Lazy THEN "swap" ELSE "stop"
        /\ overlap' = (overlap \/ calls > 0)
  /\ UNCHANGED <<startup, sockets, cancelled, caught, hups, checkers, running, stopped,
                 builds, routed, kept, down, todo, calls, at, log, store, lost, env>>

\* Mutant: the checkers of targets that are gone go on.
ReloadStopNone ==
  /\ ~Ended /\ reload = "stop"
  /\ reload' = "start"
  /\ UNCHANGED <<startup, sockets, cancelled, sighup, health, closing, at, log, store,
                 lost, env>>

\* The checkers of targets that are gone are stopped.
ReloadStop ==
  /\ ~Ended /\ reload = "stop"
  /\ Stop(checkers.targets \ config)
  /\ reload' = "start"
  /\ UNCHANGED <<ready, bound, sockets, cancelled, sighup, config, checkers, builds,
                 routed, kept, closing, at, log, store, lost, env>>

ReloadStart ==
  /\ ~Ended /\ reload = "start"
  /\ StartCheckers(config)
  /\ kept' = kept \cup (config \cap checkers.targets)
  /\ reload' = "swap"
  /\ UNCHANGED <<startup, sockets, cancelled, sighup, config, stopped, routed, closing,
                 at, log, store, lost, env>>

\* router.Reload: requests are served by the handlers of the last build.
ReloadSwap ==
  /\ ~Ended /\ reload = "swap"
  /\ routed' = builds
  /\ reload' = "reopen"
  /\ UNCHANGED <<startup, sockets, cancelled, sighup, config, checkers, running,
                 stopped, builds, kept, closing, at, log, store, lost, env>>

\* Reopen replaces a file once the new one is open, and keeps it otherwise.
Reopen == log' = IF env.reloadFails THEN log ELSE "open"

ReloadLogs ==
  /\ ~Ended /\ reload = "reopen"
  /\ Reopen
  /\ reload' = "idle"
  /\ UNCHANGED <<startup, sockets, cancelled, sighup, health, closing, at, store, lost,
                 env>>

Reload == ReloadConfig \/ ReloadStop \/ ReloadStart \/ ReloadSwap \/ ReloadLogs

-----------------------------------------------------------------------------
(* The surroundings: requests, signals and the context *)

StartRequest(q, s) ==
  /\ ~Ended /\ at[q] = 0 /\ loop[s] = "serving"
  /\ at' = [at EXCEPT ![q] = s]
  /\ UNCHANGED <<startup, sockets, cancelled, sighup, reload, health, closing, log,
                 store, lost, env>>

\* emit: without a file the line is dropped.
emit == lost' = (lost \/ log = "closed")

\* FinishRequest writes the access line.  A request that outlived Run comes here too.
FinishRequest(q) ==
  /\ main \notin {"panic", "killed"} /\ at[q] # 0
  /\ at' = [at EXCEPT ![q] = 0]
  /\ emit
  /\ UNCHANGED <<startup, sockets, cancelled, sighup, reload, health, closing, log,
                 store, env>>

\* SIGHUP: one signal waits in sigChan, more are dropped; uncaught it kills.
Sighup ==
  /\ ~Ended /\ hups < env.maxHups
  /\ hups' = hups + 1
  /\ IF caught THEN signals' = 1 /\ UNCHANGED main
               ELSE main' = "killed" /\ UNCHANGED signals
  /\ UNCHANGED <<ready, bound, sockets, cancelled, caught, reload, health, closing, at,
                 log, store, lost, env>>

Cancel ==
  /\ ~Ended /\ ~cancelled /\ env.cancels
  /\ env.cancelsLate => main = "serving"
  /\ cancelled' = TRUE
  /\ UNCHANGED <<startup, sockets, sighup, reload, health, closing, at, log, store,
                 lost, env>>

Main ==
  \/ Load \/ LoadFails \/ ReplayFails \/ Build \/ ListenersFail
  \/ Bind \/ BindFails \/ Serve \/ Collect \/ Return

Next ==
  \/ Main \/ Replayed \/ Reload \/ Sighup \/ Cancel
  \/ \E c \in Callers : Shutdown(c)
  \/ \E s \in Sockets : LoopStarts(s) \/ LoopFails(s)
  \/ \E q \in Requests :
       FinishRequest(q) \/ \E s \in Sockets : StartRequest(q, s)

Spec == Init /\ [][Next]_vars

\* Goroutines run, and a request ends when its upstream answers or times out.
FairSpec ==
  /\ Spec
  /\ WF_vars(Main) /\ WF_vars(Reload)
  /\ \A c \in Callers : WF_vars(Shutdown(c))
  /\ WF_vars(\E s \in Sockets : LoopStarts(s))
  /\ \A q \in Requests : WF_vars(FinishRequest(q))

-----------------------------------------------------------------------------
(* Properties *)

\* When Run has returned, for whatever reason, the process holds no socket and
\* serves none: closeListeners after a failed bind, shutdown otherwise.
NothingLeftBound ==
  main = "returned" =>
    /\ open = {}
    /\ \A s \in Sockets : loop[s] # "serving"

\* No access line is lost: the plugins stop only after the shutdown has drained
\* the requests (unless its context expires), and a reload that cannot open the
\* new log keeps the old one.
NoLineLost == lost => env.timeouts

\* Once serving, with no reload or shutdown under way, a target that has not been
\* carried over a reload has exactly one checker if it is configured, on the load
\* balancer that serves its requests, and none if it is not.
CheckersFollowConfig ==
  main = "serving" /\ reload = "idle" /\ calls = 0 /\ ~Lazy =>
    \A t \in Targets \ kept :
      {r \in running : r[1] = t} = IF t \in config THEN {<<t, routed>>} ELSE {}

\* A single shutdown that no reload overlaps stops each checker once: Stop closes
\* a channel, and closing it again panics.
PanicNeedsOverlap == main = "panic" => overlap \/ calls = 2

\* A context cancelled once the listeners are served makes Run return.
CancelEnds == [](cancelled /\ env.cancelsLate => <>Ended)
=============================================================================
