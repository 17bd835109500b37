-------------------------- MODULE LifecycleProofs ---------------------------
(***************************************************************************)
(* The safety properties of Lifecycle, for any number of listeners,        *)
(* targets and requests, any number of SIGHUPs and whatever fails.         *)
(*                                                                         *)
(* TypeInv and PhaseInv are inductive together.  On top of them SocketInv  *)
(* follows the sockets, DrainInv the requests, CheckerInv the health       *)
(* checkers, and StopInv their stop channels.                              *)
(***************************************************************************)
EXTENDS Lifecycle, TLAPS

Quic == {s \in Sockets : env.sockets[s].kind = "quic"}
Tcp == {s \in Sockets : env.sockets[s].kind = "tcp"}

Early == {"load", "replay", "bind"}
Late == {"serving", "cleanup", "return", "returned", "panic", "killed"}
Loops == {"none", "starting", "serving", "failed", "closed"}
QuicPhase == {"quic", "quicDrain"}
TcpPhase == {"tcp", "tcpDrain"}
Phases == {"no", "signal", "checkers", "done"} \cup QuicPhase \cup TcpPhase

TypeInv ==
  /\ env \in Environments
  /\ main \in Early \cup Late
  /\ bound \subseteq Sockets /\ open \subseteq bound /\ shut \subseteq Sockets
  /\ loop \in [Sockets -> Loops]
  /\ down \in [Callers -> Phases]
  /\ todo \in [Callers -> SUBSET Sockets]
  /\ at \in [Requests -> Sockets \cup {0}]

\* What the startup has done when it is somewhere, and whose turn it is in a
\* shutdown.
PhaseInv ==
  /\ main \in {"load", "replay"} => bound = {}
  /\ main \in Early => \A s \in Sockets : loop[s] = "none"
  /\ main \in {"serving", "cleanup"} => bound = Sockets
  /\ down["main"] # "no" => main \in Late
  /\ main = "return" => down["main"] \in {"no", "done"}
  /\ main = "serving" => down["main"] = "no"
  /\ \A c \in Callers :
       /\ down[c] \in QuicPhase => todo[c] \subseteq Quic
       /\ down[c] \in TcpPhase => todo[c] \subseteq Tcp

\* A socket is open as long as its loop runs, a packet socket until a shutdown
\* has finished with all of them.
SocketInv ==
  /\ \A s \in Tcp : loop[s] \in {"closed", "failed"} => s \notin open
  /\ \A s \in Quic : loop[s] = "closed" /\ s \in open =>
       \E c \in Callers : down[c] \in QuicPhase
  /\ down["main"] \in TcpPhase \cup {"done"} => open \subseteq Tcp
  /\ main \in {"return", "returned"} =>
       \A s \in Sockets : loop[s] \in {"none", "closed", "failed"}
  /\ main = "return" =>
       /\ open \subseteq Quic
       /\ open # {} => down["ctx"] \in QuicPhase
  /\ main = "returned" => open = {}

\* c waits for the requests of s.
Draining(c, s) == down[c] \in {"quicDrain", "tcpDrain"} /\ IsFirst(s, c)

\* c is done with s.
Passed(c, s) ==
  \/ s \in Quic /\ down[c] \in QuicPhase /\ s \notin todo[c]
  \/ down[c] \in TcpPhase /\ (s \in Tcp => s \notin todo[c])
  \/ down[c] = "done"

\* A server that was told to shut down takes no request.
ShutInv ==
  /\ \A s \in shut : loop[s] # "serving"
  /\ \A c \in Callers, s \in Sockets : Draining(c, s) => s \in shut
  /\ \A s \in Sockets : Passed("main", s) => s \in shut
  /\ \A q \in Requests : at[q] # 0 => loop[at[q]] \in {"serving", "failed", "closed"}
  /\ log = "closed" => main \in {"load", "returned", "panic", "killed"}

\* Unless drains time out, a request whose server's loop has ended is waited for.
DrainInv ==
  ~env.timeouts =>
    /\ \A q \in Requests : at[q] # 0 =>
         /\ loop[at[q]] = "closed" => \E c \in Callers : Draining(c, at[q])
         /\ ~Passed("main", at[q])
         /\ main = "return" => Draining("ctx", at[q])
         /\ main # "returned"
    /\ ~lost

Begun == {c \in Callers : down[c] # "no"}

\* There is no reload before the listeners are served, and two shutdowns at most.
CountInv ==
  /\ builds \in Nat /\ checkers.build = builds
  /\ checkers.targets \subseteq Targets /\ config \subseteq Targets
  /\ reload \in {"idle", "stop", "start", "swap", "reopen"}
  /\ main \in Early => reload = "idle" /\ signals = 0 /\ caught = FALSE
  /\ main \in {"load", "replay"} => running = {} /\ checkers.targets = {}
  /\ calls \in {0, 1, 2}
  /\ calls = 0 => Begun = {}
  /\ calls = 1 => \E c \in Callers : Begun = {c}
  /\ calls = 2 => Begun = Callers

\* The goroutines that check t.
Checking(t) == {r \in running : r[1] = t}

\* The checkers of a target that was not carried over a reload are those of the
\* current build: ReloadStop has ended the others, and ReloadStart begun new ones.
CheckerInv ==
  main \in {"bind", "serving"} /\ calls = 0 /\ ~Lazy =>
    /\ reload \in {"swap", "reopen", "idle"} => checkers.targets = config
    /\ reload \in {"reopen", "idle"} => routed = builds
    /\ \A t \in Targets \ kept :
         Checking(t) =
           IF t \in checkers.targets /\ (reload = "start" => t \in config)
           THEN {<<t, builds>>} ELSE {}

\* The stop channels that are closed belong to earlier builds, until a shutdown
\* closes those of the last one; between ReloadStop and ReloadStart some of the
\* current build's are closed.
StopInv ==
  ~overlap /\ calls < 2 =>
    /\ main # "panic"
    /\ calls = 1 => reload = "idle"
    /\ (\A c \in Callers : down[c] \in {"no", "signal", "checkers"}) =>
         \A t \in Targets, b \in Nat : <<t, b>> \in stopped =>
           b <= builds /\ (reload # "start" => b < builds)

-----------------------------------------------------------------------------
(* Types, and where the startup and the shutdowns are *)

\* The environment of a run does not change, and with it the sockets; each is of
\* one of the two kinds, and they are numbered.
LEMMA SocketKinds ==
  ASSUME TypeInv
  PROVE /\ Sockets \subseteq Nat
        /\ Sockets = Quic \cup Tcp /\ Quic \cap Tcp = {}
  <1>1. IsEnvironment(env)
    BY LifecycleAssumption, Zenon DEF TypeInv
  <1>2. env.sockets \in Seq([kind : {"tcp", "quic"}, addr : Nat])
    BY <1>1, Zenon DEF IsEnvironment
  <1>3. Sockets = 1..Len(env.sockets) /\ Len(env.sockets) \in Nat
    BY <1>2 DEF Sockets
  <1>4. Sockets \subseteq Nat
    BY <1>3
  <1>5. ASSUME NEW s \in Sockets
        PROVE env.sockets[s] \in [kind : {"tcp", "quic"}, addr : Nat]
    <2>1. \A S, r : r \in Seq(S) => \A i \in 1..Len(r) : r[i] \in S
      OBVIOUS
    <2> QED BY <1>2, <1>3, <2>1, Zenon
  <1>6. \A s \in Sockets : env.sockets[s].kind \in {"tcp", "quic"}
    BY <1>5, Zenon
  <1> QED BY <1>4, <1>6, Zenon DEF Quic, Tcp

LEMMA EnvironmentStays ==
  ASSUME [Next]_vars
  PROVE env' = env /\ Sockets' = Sockets /\ Quic' = Quic /\ Tcp' = Tcp
  <1>1. env' = env
    BY Zenon DEF Next, Main, Reload, Shutdown, vars, Load, LoadFails, ReplayFails, StartFails,
      Build, ListenersFail, Bind, BindFails, Serve, Collect, Return, Replayed, ReloadConfig,
      ReloadStop, ReloadStart, ReloadSwap, ReloadLogs, Sighup, Cancel, BeginShutdown, ResetSignal,
      StopCheckers, ShutServer, Drained, NextKind, LoopStarts, LoopFails, FinishRequest,
      StartRequest
  <1> QED BY <1>1, Zenon DEF Sockets, Quic, Tcp

LEMMA TypeStep ==
  ASSUME TypeInv, [Next]_vars
  PROVE TypeInv'
  <1>0. env' = env /\ Sockets' = Sockets
    BY EnvironmentStays, Zenon
  <1>1. ASSUME Load \/ LoadFails \/ ReplayFails \/ Build \/ ListenersFail \/ Collect
               \/ Return \/ Replayed \/ Sighup
        PROVE TypeInv'
    BY <1>0, <1>1, Zenon DEF Load, LoadFails, ReplayFails, StartFails, Build, ListenersFail,
      Collect, Return, Replayed, Sighup, sockets, closing, Early, Late, TypeInv
  <1>2. CASE Bind
    BY <1>0, <1>2, Zenon DEF Bind, closing, TypeInv
  <1>3. CASE BindFails
    BY <1>0, <1>3, Zenon DEF BindFails, StartFails, closeListeners, closing, Late, TypeInv
  <1>4. CASE Serve
    BY <1>0, <1>4, Zenon DEF Serve, closing, Loops, Late, TypeInv
  <1>5. ASSUME NEW s \in Sockets, LoopStarts(s) \/ LoopFails(s)
        PROVE TypeInv'
    BY <1>0, <1>5 DEF LoopStarts, LoopFails, startup, closing, Loops, TypeInv
  <1>6. CASE Cancel \/ UNCHANGED vars
    BY <1>0, <1>6, Zenon DEF Cancel, vars, startup, sockets, closing, TypeInv
  <1>7. CASE ReloadConfig \/ ReloadStart \/ ReloadSwap \/ ReloadLogs
    BY <1>0, <1>7, Zenon DEF ReloadConfig, ReloadStart, ReloadSwap, ReloadLogs, startup,
      sockets, closing, TypeInv
  <1>8. CASE ReloadStop
    BY <1>0, <1>8, Zenon DEF ReloadStop, Stop, sockets, closing, Late, TypeInv
  <1>9. ASSUME NEW q \in Requests, FinishRequest(q)
        PROVE TypeInv'
    BY <1>0, <1>9, Zenon DEF FinishRequest, startup, sockets, closing, TypeInv
  <1>10. ASSUME NEW q \in Requests, NEW s \in Sockets, StartRequest(q, s)
         PROVE TypeInv'
    BY <1>0, <1>10, Zenon DEF StartRequest, startup, sockets, closing, TypeInv
  <1>11. ASSUME NEW c \in Callers, Shutdown(c)
         PROVE TypeInv'
    <2>1. CASE BeginShutdown(c) \/ ResetSignal(c)
      BY <1>0, <2>1, Zenon DEF BeginShutdown, ResetSignal, startup, sockets, Phases, TypeInv
    <2>2. CASE StopCheckers(c)
      BY <1>0, <2>2, Zenon DEF StopCheckers, Stop, Bound, sockets, Phases, QuicPhase, Late,
        TypeInv
    <2>3. CASE ShutServer(c)
      <3>1. down' \in [Callers -> Phases]
        BY <2>3 DEF ShutServer, Waiting, Phases, QuicPhase, TcpPhase, TypeInv
      <3>2. PICK s \in todo[c] :
              /\ shut' = shut \cup {s}
              /\ loop' = [loop EXCEPT ![s] = IF @ = "serving" THEN "closed" ELSE @]
              /\ open' = IF loop[s] = "serving" /\ down[c] = "tcp" THEN open \ {s}
                                                                   ELSE open
        BY <2>3, Zenon DEF ShutServer
      <3>3. s \in Sockets /\ loop' \in [Sockets -> Loops]
        BY <1>11, <3>2, Zenon DEF Loops, TypeInv
      <3> QED BY <1>0, <2>3, <3>1, <3>2, <3>3 DEF ShutServer, startup, TypeInv
    <2>4. CASE Drained(c)
      BY <1>0, <2>4 DEF Drained, startup, sockets, Phases, QuicPhase, TcpPhase, TypeInv
    <2>5. CASE NextKind(c)
      BY <1>0, <2>5 DEF NextKind, Bound, startup, Phases, TcpPhase, TypeInv
    <2> QED BY <1>11, <2>1, <2>2, <2>3, <2>4, <2>5, Zenon DEF Shutdown
  <1> QED
    BY <1>1, <1>2, <1>3, <1>4, <1>5, <1>6, <1>7, <1>8, <1>9, <1>10, <1>11, Zenon DEF Next, Main,
      Reload

LEMMA PhaseStep ==
  ASSUME TypeInv, PhaseInv, [Next]_vars
  PROVE PhaseInv'
  <1>0. env' = env /\ Sockets' = Sockets /\ Quic' = Quic /\ Tcp' = Tcp
    BY EnvironmentStays, Zenon
  <1>1. CASE Load \/ LoadFails \/ ReplayFails \/ Build \/ ListenersFail \/ Replayed \/ Sighup
    BY <1>0, <1>1, Zenon DEF Load, LoadFails, ReplayFails, StartFails, Build, ListenersFail,
      Replayed, Sighup, sockets, closing, Early, Late, PhaseInv
  <1>2. CASE Bind
    BY <1>0, <1>2, Zenon DEF Bind, closing, Late, PhaseInv
  <1>3. CASE BindFails
    BY <1>0, <1>3, Zenon DEF BindFails, StartFails, closing, Early, Late, PhaseInv
  <1>4. CASE Serve
    BY <1>0, <1>4, Zenon DEF Serve, closing, Early, Late, PhaseInv
  <1>5. ASSUME NEW s \in Sockets, LoopStarts(s) \/ LoopFails(s)
        PROVE PhaseInv'
    BY <1>0, <1>5, Zenon DEF LoopStarts, LoopFails, startup, closing, PhaseInv
  <1>6. CASE Collect \/ Return
    BY <1>0, <1>6, Zenon DEF Collect, Return, sockets, closing, Early, Late, PhaseInv
  <1>7. CASE Cancel \/ ReloadConfig \/ ReloadStart \/ ReloadSwap \/ ReloadLogs \/ UNCHANGED vars
    BY <1>0, <1>7, Zenon DEF Cancel, vars, ReloadConfig, ReloadStart, ReloadSwap, ReloadLogs,
      startup, sockets, closing, PhaseInv
  <1>8. CASE ReloadStop
    BY <1>0, <1>8 DEF ReloadStop, Stop, sockets, closing, Early, Late, PhaseInv
  <1>9. ASSUME NEW q \in Requests, FinishRequest(q) \/ \E s \in Sockets : StartRequest(q, s)
        PROVE PhaseInv'
    BY <1>0, <1>9, Zenon DEF FinishRequest, StartRequest, startup, sockets, closing, PhaseInv
  <1>10. ASSUME NEW c \in Callers, Shutdown(c)
         PROVE PhaseInv'
    <2>1. CASE BeginShutdown(c)
      BY <1>0, <2>1 DEF BeginShutdown, startup, sockets, Ended, Callers, QuicPhase, TcpPhase,
        Late, PhaseInv
    <2>2. CASE ResetSignal(c)
      BY <1>0, <2>2 DEF ResetSignal, startup, sockets, Ended, Callers, QuicPhase, TcpPhase,
        Late, PhaseInv
    <2>3. CASE StopCheckers(c)
      BY <1>0, <2>3 DEF StopCheckers, Stop, Bound, Quic, sockets, QuicPhase, TcpPhase, Early,
        Late, TypeInv, PhaseInv
    <2>4. CASE ShutServer(c)
      <3>1. \A s \in Sockets : loop[s] = "none" => loop'[s] = "none"
        BY <2>4, <1>10 DEF ShutServer
      <3> QED BY <1>0, <2>4, <3>1 DEF ShutServer, Waiting, startup, QuicPhase, TcpPhase,
        PhaseInv
    <2>5. CASE Drained(c)
      BY <1>0, <2>5 DEF Drained, startup, sockets, QuicPhase, TcpPhase, PhaseInv
    <2>6. CASE NextKind(c)
      <3>1. CASE down[c] = "quic"
        <4>1. todo' = [todo EXCEPT ![c] = Tcp \cap bound] /\ down' = [down EXCEPT ![c] = "tcp"]
          BY <2>6, <3>1, Zenon DEF NextKind, Bound, Tcp, TypeInv
        <4> QED BY <1>0, <2>6, <3>1, <4>1 DEF NextKind, startup, Callers, QuicPhase, TcpPhase,
          TypeInv, PhaseInv
      <3>2. CASE down[c] = "tcp"
        BY <1>0, <2>6, <3>2 DEF NextKind, startup, Callers, QuicPhase, TcpPhase, TypeInv,
          PhaseInv
      <3> QED BY <2>6, <3>1, <3>2, Zenon DEF NextKind
    <2> QED BY <1>10, <2>1, <2>2, <2>3, <2>4, <2>5, <2>6, Zenon DEF Shutdown
  <1> QED
    BY <1>1, <1>2, <1>3, <1>4, <1>5, <1>6, <1>7, <1>8, <1>9, <1>10, Zenon DEF Next, Main, Reload

-----------------------------------------------------------------------------
(* Sockets *)

\* What a shutdown does to the server whose turn it is.
LEMMA ShutOne ==
  ASSUME TypeInv, NEW c \in Callers, ShutServer(c)
  PROVE \E s \in Sockets :
          /\ s \in todo[c] /\ IsFirst(s, c) /\ shut' = shut \cup {s}
          /\ loop' = [loop EXCEPT ![s] = IF loop[s] = "serving" THEN "closed" ELSE loop[s]]
          /\ open' = IF loop[s] = "serving" /\ down[c] = "tcp" THEN open \ {s} ELSE open
          /\ \/ down[c] = "quic" /\ down' = [down EXCEPT ![c] = "quicDrain"]
             \/ down[c] = "tcp" /\ down' = [down EXCEPT ![c] = "tcpDrain"]
          /\ main' = main /\ todo' = todo /\ at' = at /\ log' = log /\ lost' = lost
  <1>1. Waiting["quic"] = "quicDrain" /\ Waiting["tcp"] = "tcpDrain"
    BY Zenon DEF Waiting
  <1>2. \/ down[c] = "quic" /\ down' = [down EXCEPT ![c] = "quicDrain"]
        \/ down[c] = "tcp" /\ down' = [down EXCEPT ![c] = "tcpDrain"]
    BY <1>1, Zenon DEF ShutServer
  <1> QED BY <1>2, Zenon DEF ShutServer, TypeInv, startup

\* The TCP servers' turn comes, or the shutdown ends.
LEMMA KindChange ==
  ASSUME TypeInv, PhaseInv, NEW c \in Callers, NextKind(c)
  PROVE /\ c = "main" => bound = Sockets
        /\ c = "main" /\ down[c] = "quic" => todo'["main"] = Tcp /\ down'["main"] = "tcp"
        /\ c = "main" /\ down[c] = "tcp" => todo'["main"] = {} /\ down'["main"] = "done"
        /\ todo[c] = {} /\ down[c] \in {"quic", "tcp"} /\ down'[c] \in {"tcp", "done"}
        /\ \A d \in Callers \ {c} : down'[d] = down[d] /\ todo'[d] = todo[d]
  <1>1. c = "main" => bound = Sockets
    BY Zenon DEF NextKind, Ended, Early, Late, TypeInv, PhaseInv
  <1>2. /\ todo[c] = {} /\ down[c] \in {"quic", "tcp"}
        /\ \/ /\ down[c] = "quic" /\ down' = [down EXCEPT ![c] = "tcp"]
              /\ todo' = [todo EXCEPT ![c] = Bound("tcp")]
           \/ down[c] = "tcp" /\ down' = [down EXCEPT ![c] = "done"] /\ todo' = todo
    BY Zenon DEF NextKind
  <1>3. /\ DOMAIN down = Callers /\ DOMAIN todo = Callers
    BY Zenon DEF TypeInv
  <1>4. c = "main" => Bound("tcp") = Tcp
    BY <1>1, Zenon DEF Bound, Tcp
  <1>5. c = "main" /\ down[c] = "quic" => todo'["main"] = Tcp /\ down'["main"] = "tcp"
    BY <1>2, <1>3, <1>4, Zenon
  <1>6. c = "main" /\ down[c] = "tcp" => todo'["main"] = {} /\ down'["main"] = "done"
    BY <1>2, <1>3, Zenon
  <1>7. down'[c] \in {"tcp", "done"}
    BY <1>2, <1>3, Zenon
  <1>8. \A d \in Callers \ {c} : down'[d] = down[d] /\ todo'[d] = todo[d]
    BY <1>2, <1>3, Zenon
  <1> QED BY <1>1, <1>2, <1>5, <1>6, <1>7, <1>8, Zenon

LEMMA SocketStep ==
  ASSUME TypeInv, PhaseInv, SocketInv, [Next]_vars
  PROVE SocketInv'
  <1>0. env' = env /\ Sockets' = Sockets /\ Quic' = Quic /\ Tcp' = Tcp
    BY EnvironmentStays, Zenon
  <1>a. Sockets = Quic \cup Tcp /\ Quic \cap Tcp = {}
    BY SocketKinds, Zenon
  <1>1. CASE Load \/ LoadFails \/ ReplayFails \/ Build \/ ListenersFail \/ Replayed \/ Sighup
    BY <1>0, <1>1, Zenon DEF Load, LoadFails, ReplayFails, StartFails, Build, ListenersFail,
      Replayed, Sighup, sockets, closing, Early, TypeInv, PhaseInv, SocketInv
  <1>2. CASE Bind
    BY <1>0, <1>2, Zenon DEF Bind, closing, Early, Late, TcpPhase, PhaseInv, SocketInv
  <1>3. CASE BindFails
    BY <1>0, <1>3, Zenon DEF BindFails, StartFails, closeListeners, closing, Early, TypeInv,
      PhaseInv, SocketInv
  <1>4. CASE Serve
    BY <1>0, <1>4, Zenon DEF Serve, closing, TypeInv, SocketInv
  <1>5. ASSUME NEW s \in Sockets, LoopStarts(s)
        PROVE SocketInv'
    BY <1>0, <1>5 DEF LoopStarts, startup, closing, SocketInv
  <1>6. ASSUME NEW s \in Sockets, LoopFails(s)
        PROVE SocketInv'
    BY <1>0, <1>6 DEF LoopFails, Tcp, startup, closing, SocketInv
  <1>7. CASE Collect
    <2>1. \A s \in Sockets : loop[s] \in {"closed", "failed"} \/ main' # "return"
      BY <1>7, Zenon DEF Collect
    <2>2. main' = "return" => open \subseteq Quic
      BY <2>1, <1>a, Zenon DEF TypeInv, SocketInv
    <2>3. main' = "return" /\ open # {} => down["ctx"] \in QuicPhase
      BY <1>7, <1>a, <2>1, <2>2, Zenon DEF Collect, Callers, QuicPhase, PhaseInv, SocketInv
    <2> QED BY <1>0, <1>7, <2>1, <2>2, <2>3, Zenon DEF Collect, sockets, closing, SocketInv
  <1>8. CASE Return
    BY <1>0, <1>8, Zenon DEF Return, sockets, closing, QuicPhase, SocketInv
  <1>9. CASE Cancel \/ ReloadConfig \/ ReloadStart \/ ReloadSwap \/ ReloadLogs \/ UNCHANGED vars
    BY <1>0, <1>9, Zenon DEF Cancel, vars, ReloadConfig, ReloadStart, ReloadSwap, ReloadLogs,
      startup, sockets, closing, SocketInv
  <1>10. CASE ReloadStop
    BY <1>0, <1>10, Zenon DEF ReloadStop, Stop, sockets, closing, SocketInv
  <1>11. ASSUME NEW q \in Requests, FinishRequest(q) \/ \E s \in Sockets : StartRequest(q, s)
         PROVE SocketInv'
    BY <1>0, <1>11, Zenon DEF FinishRequest, StartRequest, startup, sockets, closing, SocketInv
  <1>12. ASSUME NEW c \in Callers, Shutdown(c)
         PROVE SocketInv'
    <2>1. CASE BeginShutdown(c) \/ ResetSignal(c)
      <3>1. \A d \in Callers :
              /\ down[d] \in QuicPhase => down'[d] \in QuicPhase
              /\ down'[d] \in TcpPhase \cup {"done"} => down[d] \in TcpPhase \cup {"done"}
        BY <2>1 DEF BeginShutdown, ResetSignal, QuicPhase, TcpPhase, TypeInv
      <3>2. main' = main /\ open' = open /\ loop' = loop
        BY <2>1, Zenon DEF BeginShutdown, ResetSignal, startup, sockets
      <3> QED BY <1>0, <3>1, <3>2, Zenon DEF Callers, SocketInv
    <2>2. CASE StopCheckers(c)
      BY <1>0, <2>2 DEF StopCheckers, Stop, Ended, sockets, Callers, QuicPhase, TcpPhase,
        SocketInv
    <2>3. CASE ShutServer(c)
      <3>1. PICK s \in Sockets :
              /\ s \in todo[c]
              /\ loop' = [loop EXCEPT ![s] = IF loop[s] = "serving" THEN "closed" ELSE loop[s]]
              /\ open' = IF loop[s] = "serving" /\ down[c] = "tcp" THEN open \ {s} ELSE open
              /\ \/ down[c] = "quic" /\ down' = [down EXCEPT ![c] = "quicDrain"]
                 \/ down[c] = "tcp" /\ down' = [down EXCEPT ![c] = "tcpDrain"]
              /\ main' = main
        BY <2>3, ShutOne, Zenon
      <3>2. CASE down[c] = "quic"
        <4>1. s \in Quic
          BY <3>1, <3>2, <1>12, Zenon DEF QuicPhase, PhaseInv
        <4> QED BY <1>0, <1>a, <1>12, <3>1, <3>2, <4>1 DEF Callers, QuicPhase, TcpPhase,
          TypeInv, SocketInv
      <3>3. CASE down[c] = "tcp"
        <4>1. s \in Tcp
          BY <3>1, <3>3, <1>12, Zenon DEF TcpPhase, PhaseInv
        <4> QED BY <1>0, <1>a, <1>12, <3>1, <3>3, <4>1 DEF Callers, QuicPhase, TcpPhase,
          TypeInv, SocketInv
      <3> QED BY <3>1, <3>2, <3>3, Zenon
    <2>4. CASE Drained(c)
      BY <1>0, <2>4 DEF Drained, startup, sockets, Callers, QuicPhase, TcpPhase, SocketInv
    <2>5. CASE NextKind(c)
      <3>1. CASE down[c] = "quic"
        <4>1. open' = open \cap Tcp /\ down' = [down EXCEPT ![c] = "tcp"]
          BY <2>5, <3>1, Zenon DEF NextKind, Tcp, TypeInv
        <4>2. loop' = loop /\ main' = main /\ main # "returned"
          BY <2>5, Zenon DEF NextKind, startup, Ended
        <4>3. open' \subseteq Tcp /\ (main = "return" => open' = {})
          BY <1>a, <4>1, Zenon DEF SocketInv
        <4> QED BY <1>0, <1>a, <4>1, <4>2, <4>3, Zenon DEF Callers, QuicPhase, TcpPhase,
          SocketInv
      <3>2. CASE down[c] = "tcp"
        BY <1>0, <2>5, <3>2, Zenon DEF NextKind, startup, Callers, QuicPhase, TcpPhase, TypeInv,
          SocketInv
      <3> QED BY <2>5, <3>1, <3>2, Zenon DEF NextKind
    <2> QED BY <1>12, <2>1, <2>2, <2>3, <2>4, <2>5, Zenon DEF Shutdown
  <1> QED
    BY <1>1, <1>2, <1>3, <1>4, <1>5, <1>6, <1>7, <1>8, <1>9, <1>10, <1>11, <1>12, Zenon DEF
      Next, Main, Reload

-----------------------------------------------------------------------------
(* Requests *)

LEMMA OneFirst ==
  ASSUME TypeInv, NEW c \in Callers, NEW s \in Sockets, NEW t \in Sockets,
         IsFirst(s, c), IsFirst(t, c)
  PROVE s = t
  <1>1. s <= t /\ t <= s /\ s \in Nat /\ t \in Nat
    BY SocketKinds, Zenon DEF IsFirst
  <1> QED BY <1>1

\* Whom a shutdown waits for and whom it is done with depends on its progress only.
LEMMA SameProgress ==
  ASSUME [Next]_vars, down' = down, todo' = todo
  PROVE \A c \in Callers, s \in Sockets :
          Draining(c, s)' = Draining(c, s) /\ Passed(c, s)' = Passed(c, s)
  BY EnvironmentStays DEF Draining, Passed, IsFirst

LEMMA ShutStep ==
  ASSUME TypeInv, PhaseInv, ShutInv, [Next]_vars
  PROVE ShutInv'
  <1>0. env' = env /\ Sockets' = Sockets /\ Quic' = Quic /\ Tcp' = Tcp
    BY EnvironmentStays, Zenon
  <1>a. Sockets = Quic \cup Tcp /\ Quic \cap Tcp = {}
    BY SocketKinds, Zenon
  <1>b. down' = down /\ todo' = todo => \A c \in Callers, s \in Sockets :
          Draining(c, s)' = Draining(c, s) /\ Passed(c, s)' = Passed(c, s)
    BY SameProgress, Zenon
  <1>c. "main" \in Callers
    BY Zenon DEF Callers
  <1>1. CASE Load \/ LoadFails \/ ReplayFails \/ Build \/ ListenersFail \/ Replayed \/ Sighup
    BY <1>0, <1>b, <1>c, <1>1, Zenon DEF Load, LoadFails, ReplayFails, StartFails, Build,
      ListenersFail, OpenLogs, Replayed, Sighup, sockets, closing, ShutInv
  <1>2. CASE Bind \/ BindFails
    BY <1>0, <1>b, <1>c, <1>2, Zenon DEF Bind, BindFails, StartFails, closing, ShutInv
  <1>3. CASE Serve
    <2>1. \A q \in Requests : at[q] = 0
      BY <1>3, Zenon DEF Serve, Early, TypeInv, PhaseInv, ShutInv
    <2> QED BY <1>0, <1>b, <1>c, <1>3, <2>1, Zenon DEF Serve, closing, TypeInv, ShutInv
  <1>4. ASSUME NEW s \in Sockets, LoopStarts(s) \/ LoopFails(s)
        PROVE ShutInv'
    BY <1>0, <1>b, <1>c, <1>4 DEF LoopStarts, LoopFails, startup, closing, TypeInv, ShutInv
  <1>5. CASE Collect \/ Return
    BY <1>0, <1>b, <1>c, <1>5, Zenon DEF Collect, Return, CloseLogs, sockets, closing, ShutInv
  <1>6. CASE Cancel \/ ReloadConfig \/ ReloadStart \/ ReloadSwap \/ ReloadLogs \/ UNCHANGED vars
    BY <1>0, <1>b, <1>c, <1>6, Zenon DEF Cancel, vars, ReloadConfig, ReloadStart, ReloadSwap,
      ReloadLogs, Reopen, startup, sockets, closing, TypeInv, ShutInv
  <1>7. CASE ReloadStop
    BY <1>0, <1>b, <1>c, <1>7, Zenon DEF ReloadStop, Stop, Ended, sockets, closing, ShutInv
  <1>8. ASSUME NEW q \in Requests, FinishRequest(q)
        PROVE ShutInv'
    BY <1>0, <1>b, <1>c, <1>8 DEF FinishRequest, startup, sockets, closing, ShutInv
  <1>9. ASSUME NEW q \in Requests, NEW s \in Sockets, StartRequest(q, s)
        PROVE ShutInv'
    BY <1>0, <1>b, <1>c, <1>9 DEF StartRequest, startup, sockets, closing, ShutInv
  <1>10. ASSUME NEW c \in Callers, Shutdown(c)
         PROVE ShutInv'
    <2>1. CASE BeginShutdown(c) \/ ResetSignal(c)
      <3>1. \A d \in Callers, s \in Sockets :
              (Draining(d, s)' => Draining(d, s)) /\ (Passed(d, s)' => Passed(d, s))
        BY <1>0, <2>1 DEF BeginShutdown, ResetSignal, Draining, Passed, IsFirst, QuicPhase,
          TcpPhase, TypeInv
      <3> QED BY <1>0, <1>c, <2>1, <3>1, Zenon DEF BeginShutdown, ResetSignal, startup, sockets,
        ShutInv
    <2>2. CASE StopCheckers(c)
      <3>1. \A d \in Callers, s \in Sockets : Draining(d, s)' => Draining(d, s)
        BY <1>0, <2>2 DEF StopCheckers, Draining, IsFirst
      <3>2. c = "main" => bound = Sockets
        BY <2>2, Zenon DEF StopCheckers, Ended, Early, Late, PhaseInv
      <3>3. c = "main" => todo'["main"] = Quic /\ down'["main"] = "quic"
        BY <2>2, <3>2, Zenon DEF StopCheckers, Bound, Quic, TypeInv
      <3>4. \A s \in Sockets : Passed("main", s)' => Passed("main", s)
        BY <1>0, <1>c, <2>2, <3>3 DEF StopCheckers, Passed, TcpPhase
      <3>5. log = log' /\ (main' = main \/ main' = "panic")
        BY <2>2, Zenon DEF StopCheckers, Stop
      <3> QED BY <1>0, <1>c, <2>2, <3>1, <3>4, <3>5, Zenon DEF StopCheckers, Ended, sockets,
        ShutInv
    <2>3. CASE ShutServer(c)
      <3>1. PICK s \in Sockets :
              /\ s \in todo[c] /\ IsFirst(s, c) /\ shut' = shut \cup {s}
              /\ loop' = [loop EXCEPT ![s] = IF loop[s] = "serving" THEN "closed" ELSE loop[s]]
              /\ \/ down[c] = "quic" /\ down' = [down EXCEPT ![c] = "quicDrain"]
                 \/ down[c] = "tcp" /\ down' = [down EXCEPT ![c] = "tcpDrain"]
              /\ main' = main /\ todo' = todo /\ at' = at /\ log' = log
        BY <2>3, ShutOne, Zenon
      <3>2. \A t \in Sockets : IsFirst(t, c) => t = s
        BY <3>1, OneFirst, Zenon
      <3>3. \A d \in Callers, t \in Sockets : Draining(d, t)' => Draining(d, t) \/ t = s
        BY <1>0, <3>1, <3>2 DEF Draining, IsFirst, TypeInv
      <3>4. \A t \in Sockets : Passed("main", t)' => Passed("main", t)
        BY <1>0, <1>c, <3>1 DEF Passed, QuicPhase, TcpPhase, TypeInv
      <3>5. \A t \in shut' : loop'[t] # "serving"
        BY <3>1 DEF TypeInv, ShutInv
      <3>6. \A q \in Requests : at'[q] # 0 => loop'[at'[q]] \in {"serving", "failed", "closed"}
        BY <3>1 DEF ShutInv
      <3> QED BY <1>0, <3>1, <3>3, <3>4, <3>5, <3>6, Zenon DEF ShutInv
    <2>4. CASE Drained(c)
      <3>1. PICK s \in todo[c] : IsFirst(s, c) /\ todo' = [todo EXCEPT ![c] = @ \ {s}]
        BY <2>4, Zenon DEF Drained
      <3>2. /\ down[c] \in {"quicDrain", "tcpDrain"}
            /\ down' = [down EXCEPT ![c] = IF down[c] = "quicDrain" THEN "quic" ELSE "tcp"]
            /\ main' = main /\ at' = at /\ log' = log /\ shut' = shut /\ loop' = loop
        BY <2>4, Zenon DEF Drained, startup, sockets
      <3>3. s \in shut /\ s \in Sockets
        BY <3>1, <3>2, <1>10, Zenon DEF Draining, TypeInv, ShutInv
      <3>4. \A d \in Callers, t \in Sockets : Draining(d, t)' => Draining(d, t)
        BY <1>0, <3>1, <3>2, Zenon DEF Draining, IsFirst, TypeInv
      <3>5. \A t \in Sockets : Passed("main", t)' => Passed("main", t) \/ t = s
        BY <1>0, <1>c, <3>1, <3>2 DEF Passed, QuicPhase, TcpPhase
      <3> QED BY <1>0, <3>2, <3>3, <3>4, <3>5, Zenon DEF ShutInv
    <2>5. CASE NextKind(c)
      <3>1. c = "main" => bound = Sockets
        BY <1>10, <2>5, KindChange, Zenon
      <3>2. c = "main" /\ down[c] = "quic" => todo'["main"] = Tcp /\ down'["main"] = "tcp"
        BY <1>10, <2>5, KindChange, Zenon
      <3>3. c = "main" /\ down[c] = "tcp" => todo'["main"] = {} /\ down'["main"] = "done"
        BY <1>10, <2>5, KindChange
      <3>4. /\ todo[c] = {} /\ down[c] \in {"quic", "tcp"} /\ down'[c] \in {"tcp", "done"}
            /\ \A d \in Callers \ {c} : down'[d] = down[d] /\ todo'[d] = todo[d]
            /\ main' = main /\ at' = at /\ log' = log /\ shut' = shut /\ loop' = loop
        BY <2>5, Zenon DEF NextKind, startup, TypeInv
      <3>5. \A d \in Callers, t \in Sockets : Draining(d, t)' => Draining(d, t)
        BY <1>0, <3>4, Zenon DEF Draining, IsFirst
      <3>6. \A t \in Sockets : Passed("main", t)' => Passed("main", t)
        BY <1>0, <1>a, <1>c, <3>2, <3>3, <3>4, Zenon DEF Passed, QuicPhase, TcpPhase
      <3> QED BY <1>0, <3>4, <3>5, <3>6, Zenon DEF ShutInv
    <2> QED BY <1>10, <2>1, <2>2, <2>3, <2>4, <2>5, Zenon DEF Shutdown
  <1> QED
    BY <1>1, <1>2, <1>3, <1>4, <1>5, <1>6, <1>7, <1>8, <1>9, <1>10, Zenon DEF Next, Main, Reload

LEMMA DrainStep ==
  ASSUME TypeInv, PhaseInv, SocketInv, ShutInv, DrainInv, [Next]_vars
  PROVE DrainInv'
  <1>0. env' = env /\ Sockets' = Sockets /\ Quic' = Quic /\ Tcp' = Tcp
    BY EnvironmentStays, Zenon
  <1> SUFFICES ASSUME ~env.timeouts PROVE DrainInv'
    BY <1>0, Zenon DEF DrainInv
  <1>a. Sockets = Quic \cup Tcp /\ Quic \cap Tcp = {}
    BY SocketKinds, Zenon
  <1>b. down' = down /\ todo' = todo => \A c \in Callers, s \in Sockets :
          Draining(c, s)' = Draining(c, s) /\ Passed(c, s)' = Passed(c, s)
    BY SameProgress, Zenon
  <1>c. "main" \in Callers /\ "ctx" \in Callers /\ 0 \notin Sockets
    BY SocketKinds DEF Callers, Sockets
  <1>d. main \in Early => \A q \in Requests : at[q] = 0
    BY Zenon DEF TypeInv, PhaseInv, ShutInv
  <1>1. CASE Load \/ LoadFails \/ ReplayFails \/ Build \/ ListenersFail \/ BindFails
    <2>1. main \in Early /\ at' = at /\ lost' = lost
      BY <1>1, Zenon DEF Load, LoadFails, ReplayFails, StartFails, Build, ListenersFail,
        BindFails, Early
    <2> QED BY <1>0, <1>d, <2>1, Zenon DEF DrainInv
  <1>2. CASE Bind \/ Serve
    <2>1. main \in Early /\ at' = at /\ lost' = lost
      BY <1>2, Zenon DEF Bind, Serve, Early
    <2> QED BY <1>0, <1>d, <2>1, Zenon DEF DrainInv
  <1>3. CASE Replayed \/ Sighup \/ ReloadStop
    <2>1. /\ at' = at /\ lost' = lost /\ loop' = loop /\ down' = down /\ todo' = todo
          /\ main' \in {main, "killed", "panic"}
      BY <1>3, Zenon DEF Replayed, Sighup, ReloadStop, Stop, sockets, closing
    <2> QED BY <1>0, <1>b, <1>c, <2>1 DEF TypeInv, DrainInv
  <1>4. ASSUME NEW s \in Sockets, LoopStarts(s) \/ LoopFails(s)
        PROVE DrainInv'
    <2>1. /\ at' = at /\ lost' = lost /\ down' = down /\ todo' = todo /\ main' = main
          /\ loop' = [loop EXCEPT ![s] = loop'[s]]
          /\ loop[s] = "starting" \/ loop'[s] = "failed"
      BY <1>4, Zenon DEF LoopStarts, LoopFails, startup, closing, TypeInv
    <2>2. \A q \in Requests : at[q] # 0 /\ loop'[at[q]] = "closed" => loop[at[q]] = "closed"
      BY <2>1, Zenon DEF TypeInv, ShutInv
    <2> QED BY <1>0, <1>b, <1>c, <2>1, <2>2 DEF TypeInv, DrainInv
  <1>5. CASE Collect
    <2>1. /\ at' = at /\ lost' = lost /\ loop' = loop /\ down' = down /\ todo' = todo
          /\ main' \in {"cleanup", "return"}
      BY <1>5, Zenon DEF Collect, sockets, closing
    <2>2. ASSUME NEW q \in Requests, at[q] # 0, main' = "return"
          PROVE Draining("ctx", at[q])
      <3>1. CASE main = "serving"
        BY <1>5, <2>2, <3>1 DEF Collect, Draining, Callers, TypeInv, PhaseInv, DrainInv
      <3>2. CASE main = "cleanup"
        BY <1>5, <2>2, <3>2, Zenon DEF Collect, Passed, DrainInv
      <3> QED BY <1>5, <3>1, <3>2, Zenon DEF Collect
    <2> QED BY <1>0, <1>b, <1>c, <2>1, <2>2 DEF TypeInv, DrainInv
  <1>6. CASE Return
    <2>1. \A q \in Requests : at[q] = 0
      BY <1>6, Zenon DEF Return, Draining, DrainInv
    <2> QED BY <1>6, <2>1, Zenon DEF Return, DrainInv
  <1>7. CASE Cancel \/ ReloadConfig \/ ReloadStart \/ ReloadSwap \/ ReloadLogs \/ UNCHANGED vars
    <2>1. /\ at' = at /\ lost' = lost /\ loop' = loop /\ down' = down /\ todo' = todo
          /\ main' = main
      BY <1>7, Zenon DEF Cancel, vars, ReloadConfig, ReloadStart, ReloadSwap, ReloadLogs,
        startup, sockets, closing
    <2> QED BY <1>0, <1>b, <1>c, <2>1 DEF TypeInv, DrainInv
  <1>8. ASSUME NEW q \in Requests, FinishRequest(q)
        PROVE DrainInv'
    <2>1. log # "closed"
      BY <1>8, Zenon DEF FinishRequest, Early, TypeInv, PhaseInv, ShutInv, DrainInv
    <2>2. /\ loop' = loop /\ down' = down /\ todo' = todo /\ main' = main
          /\ at' = [at EXCEPT ![q] = 0] /\ ~lost'
      BY <1>8, <2>1, Zenon DEF FinishRequest, emit, startup, sockets, closing, DrainInv
    <2> QED BY <1>0, <1>b, <1>c, <2>2 DEF TypeInv, DrainInv
  <1>9. ASSUME NEW q \in Requests, NEW s \in Sockets, StartRequest(q, s)
        PROVE DrainInv'
    <2>1. /\ loop' = loop /\ down' = down /\ todo' = todo /\ main' = main
          /\ at' = [at EXCEPT ![q] = s] /\ lost' = lost /\ loop[s] = "serving"
      BY <1>9, Zenon DEF StartRequest, startup, sockets, closing
    <2>2. main \notin {"return", "returned"} /\ ~Passed("main", s)
      BY <2>1, Zenon DEF SocketInv, ShutInv
    <2> QED BY <1>0, <1>b, <1>c, <2>1, <2>2 DEF TypeInv, DrainInv
  <1>10. ASSUME NEW c \in Callers, Shutdown(c)
         PROVE DrainInv'
    <2>1. CASE BeginShutdown(c) \/ ResetSignal(c)
      <3>1. \A d \in Callers, s \in Sockets :
              (Draining(d, s) => Draining(d, s)') /\ (Passed(d, s)' => Passed(d, s))
        BY <1>0, <2>1 DEF BeginShutdown, ResetSignal, Draining, Passed, IsFirst, QuicPhase,
          TcpPhase, TypeInv
      <3>2. at' = at /\ lost' = lost /\ loop' = loop /\ main' = main
        BY <2>1, Zenon DEF BeginShutdown, ResetSignal, startup, sockets
      <3> QED BY <1>0, <1>c, <3>1, <3>2, Zenon DEF TypeInv, DrainInv
    <2>2. CASE StopCheckers(c)
      <3>1. \A d \in Callers, s \in Sockets : Draining(d, s) => Draining(d, s)'
        BY <1>0, <2>2 DEF StopCheckers, Draining, IsFirst
      <3>2. c = "main" => bound = Sockets
        BY <2>2, Zenon DEF StopCheckers, Ended, Early, Late, PhaseInv
      <3>3. c = "main" => todo'["main"] = Quic /\ down'["main"] = "quic"
        BY <2>2, <3>2, Zenon DEF StopCheckers, Bound, Quic, TypeInv
      <3>4. \A s \in Sockets : Passed("main", s)' => Passed("main", s)
        BY <1>0, <1>c, <2>2, <3>3 DEF StopCheckers, Passed, TcpPhase
      <3>5. at' = at /\ lost' = lost /\ loop' = loop /\ main' \in {main, "panic"}
        BY <2>2, Zenon DEF StopCheckers, Stop, sockets
      <3> QED BY <1>0, <1>c, <3>1, <3>4, <3>5, Zenon DEF TypeInv, DrainInv
    <2>3. CASE ShutServer(c)
      <3>1. PICK s \in Sockets :
              /\ s \in todo[c] /\ IsFirst(s, c) /\ shut' = shut \cup {s}
              /\ loop' = [loop EXCEPT ![s] = IF loop[s] = "serving" THEN "closed" ELSE loop[s]]
              /\ \/ down[c] = "quic" /\ down' = [down EXCEPT ![c] = "quicDrain"]
                 \/ down[c] = "tcp" /\ down' = [down EXCEPT ![c] = "tcpDrain"]
              /\ main' = main /\ todo' = todo /\ at' = at /\ lost' = lost
        BY <2>3, ShutOne, Zenon
      <3>2. Draining(c, s)'
        BY <1>0, <3>1, Zenon DEF Draining, IsFirst, TypeInv
      <3>3. \A d \in Callers, t \in Sockets : Draining(d, t) => Draining(d, t)'
        BY <1>0, <3>1, Zenon DEF Draining, IsFirst, TypeInv
      <3>4. \A t \in Sockets : Passed("main", t)' => Passed("main", t)
        BY <1>0, <1>c, <3>1, Zenon DEF Passed, QuicPhase, TcpPhase, TypeInv
      <3>5. \A t \in Sockets : loop'[t] = "closed" => loop[t] = "closed" \/ t = s
        BY <3>1
      <3> QED BY <1>0, <1>c, <3>1, <3>2, <3>3, <3>4, <3>5 DEF TypeInv, DrainInv
    <2>4. CASE Drained(c)
      <3>1. PICK s \in todo[c] :
              /\ IsFirst(s, c) /\ todo' = [todo EXCEPT ![c] = @ \ {s}]
              /\ \A q \in Requests : at[q] # s
        BY <2>4, Zenon DEF Drained
      <3>2. /\ down[c] \in {"quicDrain", "tcpDrain"}
            /\ down' = [down EXCEPT ![c] = IF down[c] = "quicDrain" THEN "quic" ELSE "tcp"]
            /\ main' = main /\ at' = at /\ lost' = lost /\ loop' = loop
        BY <2>4, Zenon DEF Drained, startup, sockets
      <3>3. s \in Sockets /\ \A t \in Sockets : IsFirst(t, c) => t = s
        BY <1>10, <3>1, OneFirst, Zenon DEF TypeInv
      <3>4. \A d \in Callers, t \in Sockets : Draining(d, t) => Draining(d, t)' \/ t = s
        BY <1>0, <3>1, <3>2, <3>3 DEF Draining, IsFirst
      <3>5. \A t \in Sockets : Passed("main", t)' => Passed("main", t) \/ t = s
        BY <1>0, <1>c, <3>1, <3>2 DEF Passed, QuicPhase, TcpPhase
      <3> QED BY <1>0, <1>c, <3>1, <3>2, <3>4, <3>5, Zenon DEF TypeInv, DrainInv
    <2>5. CASE NextKind(c)
      <3>1. c = "main" => bound = Sockets
        BY <1>10, <2>5, KindChange, Zenon
      <3>2. c = "main" /\ down[c] = "quic" => todo'["main"] = Tcp /\ down'["main"] = "tcp"
        BY <1>10, <2>5, KindChange
      <3>3. c = "main" /\ down[c] = "tcp" => todo'["main"] = {} /\ down'["main"] = "done"
        BY <1>10, <2>5, KindChange, Zenon
      <3>4. /\ todo[c] = {} /\ down[c] \in {"quic", "tcp"} /\ down'[c] \in {"tcp", "done"}
            /\ \A d \in Callers \ {c} : down'[d] = down[d] /\ todo'[d] = todo[d]
            /\ main' = main /\ at' = at /\ lost' = lost /\ loop' = loop
        BY <2>5, Zenon DEF NextKind, startup, TypeInv
      <3>5. \A d \in Callers, t \in Sockets : Draining(d, t) => Draining(d, t)'
        BY <1>0, <3>4, Zenon DEF Draining, IsFirst
      <3>6. \A t \in Sockets : Passed("main", t)' => Passed("main", t)
        BY <1>0, <1>a, <1>c, <3>2, <3>3, <3>4, Zenon DEF Passed, QuicPhase, TcpPhase
      <3> QED BY <1>0, <1>c, <3>4, <3>5, <3>6, Zenon DEF TypeInv, DrainInv
    <2> QED BY <1>10, <2>1, <2>2, <2>3, <2>4, <2>5, Zenon DEF Shutdown
  <1> QED
    BY <1>1, <1>2, <1>3, <1>4, <1>5, <1>6, <1>7, <1>8, <1>9, <1>10, Zenon DEF Next, Main, Reload

-----------------------------------------------------------------------------
(* Health checkers *)

LEMMA CountStep ==
  ASSUME TypeInv, PhaseInv, CountInv, [Next]_vars
  PROVE CountInv'
  <1>0. ASSUME UNCHANGED <<builds, checkers, config, reload, signals, caught, running, calls,
                           down>>,
               main' \in Early => main \in Early,
               main' \in {"load", "replay"} => main \in {"load", "replay"}
        PROVE CountInv'
    BY <1>0, Zenon DEF CountInv, Begun
  <1>1. CASE Load
    <2>1. /\ UNCHANGED <<builds, checkers, reload, signals, caught, running, calls, down>>
          /\ config' \subseteq Targets /\ main = "load" /\ main' = "replay"
      BY <1>1, Zenon DEF Load, sighup, closing
    <2>2. Begun' = Begun
      BY <2>1, Zenon DEF Begun
    <2> QED BY <2>1, <2>2, Zenon DEF CountInv, Early
  <1>2. CASE LoadFails \/ ReplayFails \/ ListenersFail \/ BindFails \/ Bind \/ Replayed
    <2>1. UNCHANGED <<builds, checkers, config, reload, signals, caught, running, calls, down>>
      BY <1>2, Zenon DEF LoadFails, ReplayFails, StartFails, ListenersFail, BindFails, Bind,
        Replayed, sighup, health, closing
    <2>2. main' = main \/ main' \in {"return", "returned"}
      BY <1>2, Zenon DEF LoadFails, ReplayFails, StartFails, ListenersFail, BindFails, Bind,
        Replayed
    <2> QED BY <1>0, <2>1, <2>2 DEF Early
  <1>3. CASE Build
    <2>1. /\ UNCHANGED <<config, reload, signals, caught, calls, down>>
          /\ main = "replay" /\ main' = "bind"
          /\ \/ UNCHANGED <<builds, checkers>>
             \/ builds' = builds + 1 /\ checkers' = [build |-> builds + 1, targets |-> config]
      BY <1>3, Zenon DEF Build, StartCheckers, sighup, closing
    <2>2. builds \in Nat /\ config \subseteq Targets
      BY Zenon DEF CountInv
    <2>3. checkers'.build = builds' /\ builds' \in Nat /\ checkers'.targets \subseteq Targets
      BY <2>1, <2>2 DEF CountInv
    <2>4. Begun' = Begun
      BY <2>1, Zenon DEF Begun
    <2> QED BY <2>1, <2>3, <2>4, Zenon DEF CountInv, Early
  <1>4. CASE Serve \/ Collect \/ Return \/ Cancel \/ UNCHANGED vars
    <2>1. UNCHANGED <<builds, checkers, config, reload, signals, running, calls, down>>
      BY <1>4, Zenon DEF Serve, Collect, Return, Cancel, vars, sighup, health, closing
    <2>2. \/ main' = main /\ caught' = caught
          \/ main' \in {"serving", "cleanup", "return", "returned"}
      BY <1>4, Zenon DEF Serve, Collect, Return, Cancel, vars, startup, sighup
    <2>3. Begun' = Begun
      BY <2>1, Zenon DEF Begun
    <2> QED BY <2>1, <2>2, <2>3 DEF CountInv, Early
  <1>5. CASE Sighup
    <2>1. /\ UNCHANGED <<builds, checkers, config, reload, caught, running, calls, down>>
          /\ \/ caught /\ main' = main
             \/ main' = "killed"
      BY <1>5, Zenon DEF Sighup, health, closing
    <2>2. main \in Early => caught = FALSE
      BY Zenon DEF CountInv
    <2>3. Begun' = Begun
      BY <2>1, Zenon DEF Begun
    <2>4. main' \notin Early
      BY <2>1, <2>2, Zenon DEF Early
    <2> QED BY <2>1, <2>3, <2>4, Zenon DEF CountInv, Early
  <1>6. CASE Reload
    <2>1. /\ UNCHANGED <<calls, down>>
          /\ main' = main \/ main' = "panic"
          /\ reload' \in {"idle", "stop", "start", "swap", "reopen"}
          /\ \/ UNCHANGED <<builds, checkers>>
             \/ builds' = builds + 1 /\ checkers' = [build |-> builds + 1, targets |-> config]
          /\ config' \subseteq Targets
          /\ reload # "idle" \/ signals = 1
      BY <1>6, Zenon DEF Reload, ReloadConfig, ReloadStop, ReloadStart, ReloadSwap, ReloadLogs,
        Stop, StartCheckers, startup, health, closing, CountInv
    <2>2. main \notin Early /\ main' \notin Early
      <3>1. main \in Early => reload = "idle" /\ signals = 0
        BY Zenon DEF CountInv
      <3> QED BY <2>1, <3>1 DEF Early
    <2>3. builds \in Nat /\ config \subseteq Targets
      BY Zenon DEF CountInv
    <2>4. checkers'.build = builds' /\ builds' \in Nat /\ checkers'.targets \subseteq Targets
      BY <2>1, <2>3 DEF CountInv
    <2>5. Begun' = Begun
      BY <2>1, Zenon DEF Begun
    <2> QED BY <2>1, <2>2, <2>4, <2>5, Zenon DEF CountInv, Early
  <1>7. ASSUME NEW s \in Sockets, LoopStarts(s) \/ LoopFails(s)
        PROVE CountInv'
    <2>1. UNCHANGED <<builds, checkers, config, reload, signals, caught, running, calls, down,
                      main>>
      BY <1>7, Zenon DEF LoopStarts, LoopFails, startup, sighup, health, closing
    <2> QED BY <1>0, <2>1, Zenon
  <1>8. ASSUME NEW q \in Requests, FinishRequest(q) \/ \E s \in Sockets : StartRequest(q, s)
        PROVE CountInv'
    <2>1. UNCHANGED <<builds, checkers, config, reload, signals, caught, running, calls, down,
                      main>>
      BY <1>8, Zenon DEF FinishRequest, StartRequest, startup, sighup, health, closing
    <2> QED BY <1>0, <2>1, Zenon
  <1>9. ASSUME NEW c \in Callers, BeginShutdown(c)
        PROVE CountInv'
    <2>1. /\ UNCHANGED <<builds, checkers, config, reload, signals, caught, running, main>>
          /\ down' = [down EXCEPT ![c] = "signal"] /\ down[c] = "no" /\ calls' = calls + 1
      BY <1>9, Zenon DEF BeginShutdown, startup, sighup, health
    <2>2. Begun' = Begun \cup {c} /\ c \in Callers \ Begun
      BY <1>9, <2>1, Zenon DEF Begun, TypeInv
    <2>3. /\ calls \in {0, 1, 2}
          /\ calls = 0 => Begun = {}
          /\ calls = 1 => \E d \in Callers : Begun = {d}
          /\ calls = 2 => Begun = Callers
      BY Zenon DEF CountInv
    <2>4. calls # 2
      BY <2>2, <2>3, Zenon
    <2>5. CASE calls = 0
      <3>1. Begun' = {c} /\ calls' = 1
        BY <2>1, <2>2, <2>3, <2>5
      <3> QED BY <2>1, <3>1 DEF CountInv
    <2>6. CASE calls = 1
      <3>1. Begun' = Callers
        BY <2>2, <2>3, <2>6, Zenon DEF Callers
      <3>2. calls' = 2
        BY <2>1, <2>6
      <3> QED BY <2>1, <3>1, <3>2 DEF CountInv
    <2> QED BY <2>3, <2>4, <2>5, <2>6, Zenon
  <1>10. ASSUME NEW c \in Callers,
                ResetSignal(c) \/ StopCheckers(c) \/ ShutServer(c) \/ Drained(c) \/ NextKind(c)
         PROVE CountInv'
    <2>1. UNCHANGED <<builds, checkers, config, reload, signals, calls>>
      BY <1>10, Zenon DEF ResetSignal, StopCheckers, ShutServer, Drained, NextKind, sighup,
        health
    <2>6. caught = FALSE => caught' = FALSE
      <3>1. CASE ResetSignal(c)
        BY <3>1, Zenon DEF ResetSignal
      <3>2. CASE StopCheckers(c) \/ ShutServer(c) \/ Drained(c) \/ NextKind(c)
        BY <3>2, Zenon DEF StopCheckers, ShutServer, Drained, NextKind, sighup
      <3> QED BY <1>10, <3>1, <3>2, Zenon
    <2>2. \/ main' = main /\ running' = running
          \/ main' = "panic"
          \/ main' = main /\ StopCheckers(c)
      BY <1>10, Zenon DEF ResetSignal, StopCheckers, Stop, ShutServer, Drained, NextKind,
        startup, health
    <2>3. Begun' = Begun
      <3>1. down[c] # "no" /\ down'[c] # "no" /\ \A d \in Callers \ {c} : down'[d] = down[d]
        <4>1. CASE ShutServer(c)
          <5>1. \/ down[c] = "quic" /\ down' = [down EXCEPT ![c] = "quicDrain"]
                \/ down[c] = "tcp" /\ down' = [down EXCEPT ![c] = "tcpDrain"]
            BY <4>1, ShutOne, Zenon
          <5>2. DOMAIN down = Callers
            BY Zenon DEF TypeInv
          <5> QED BY <1>10, <5>1, <5>2
        <4>2. CASE ResetSignal(c) \/ StopCheckers(c) \/ Drained(c) \/ NextKind(c)
          BY <1>10, <4>2, Zenon DEF ResetSignal, StopCheckers, Drained, NextKind, TypeInv
        <4> QED BY <1>10, <4>1, <4>2, Zenon
      <3> QED BY <3>1, Zenon DEF Begun
    <2>4. StopCheckers(c) => running' \subseteq running
      BY Zenon DEF StopCheckers, Stop
    <2>5. /\ main' \in Early => main \in Early
          /\ main' \in {"load", "replay"} => main \in {"load", "replay"} /\ running' \subseteq running
      BY <2>2, <2>4, Zenon DEF Early
    <2>7. running = {} /\ running' \subseteq running => running' = {}
      BY Zenon
    <2> QED BY <2>1, <2>3, <2>5, <2>6, <2>7, Zenon DEF CountInv
  <1> QED
    BY <1>1, <1>2, <1>3, <1>4, <1>5, <1>6, <1>7, <1>8, <1>9, <1>10, Zenon DEF Next, Main,
      Shutdown

LEMMA CheckerStep ==
  ASSUME TypeInv, PhaseInv, CountInv, CheckerInv, [Next]_vars
  PROVE CheckerInv'
  <1>1. CASE Load \/ LoadFails \/ ReplayFails \/ ListenersFail \/ BindFails \/ Collect \/ Return
    <2>1. main' \notin {"bind", "serving"}
      BY <1>1, Zenon DEF Load, LoadFails, ReplayFails, StartFails, ListenersFail, BindFails,
        Collect, Return
    <2> QED BY <2>1, Zenon DEF CheckerInv
  <1>2. CASE Build
    <2> SUFFICES ASSUME ~Lazy PROVE CheckerInv'
      BY <1>2, Zenon DEF Build, Lazy, CheckerInv
    <2>1. /\ running' = {<<t, builds + 1>> : t \in config}
          /\ checkers' = [build |-> builds + 1, targets |-> config]
          /\ builds' = builds + 1 /\ routed' = builds + 1
          /\ config' = config /\ reload' = "idle"
      BY <1>2, Zenon DEF Build, StartCheckers, Early, CountInv
    <2>2. \A t \in Targets : Checking(t)' = IF t \in config THEN {<<t, builds + 1>>} ELSE {}
      BY <2>1 DEF Checking
    <2> QED BY <2>1, <2>2, Zenon DEF CheckerInv
  <1>3. CASE Bind \/ Serve \/ Replayed \/ Sighup \/ Cancel \/ UNCHANGED vars
    <2>1. /\ UNCHANGED <<checkers, running, builds, routed, kept, config, calls, store, reload>>
          /\ main' \in {"bind", "serving"} => main \in {"bind", "serving"}
      BY <1>3, Zenon DEF Bind, Serve, Replayed, Sighup, Cancel, vars, health, closing, startup
    <2> QED BY <2>1, Zenon DEF Checking, Lazy, CheckerInv
  <1>4. CASE ReloadConfig
    <2>1. /\ UNCHANGED <<checkers, running, builds, routed, kept, calls, store, main>>
          /\ reload = "idle"
          /\ (config' = config /\ reload' = reload) \/ Lazy \/ reload' = "stop"
      BY <1>4, Zenon DEF ReloadConfig, startup
    <2>2. \A t \in Targets : Checking(t)' = Checking(t)
      BY <2>1, Zenon DEF Checking
    <2> QED BY <2>1, <2>2, Zenon DEF Lazy, CheckerInv
  <1>5. CASE ReloadStop
    <2> SUFFICES ASSUME main = "serving" \/ main = "bind", calls = 0, ~Lazy PROVE CheckerInv'
      BY <1>5, Zenon DEF ReloadStop, Stop, closing, Lazy, CheckerInv
    <2>1. /\ running' = running \ {<<t, builds>> : t \in checkers.targets \ config}
          /\ UNCHANGED <<checkers, builds, routed, kept, config>>
          /\ reload = "stop" /\ reload' = "start"
      BY <1>5, Zenon DEF ReloadStop, Stop, CountInv
    <2>2. ASSUME NEW t \in Targets \ kept
          PROVE Checking(t)' = IF t \in checkers.targets /\ t \in config
                               THEN {<<t, builds>>} ELSE {}
      <3>1. Checking(t) = IF t \in checkers.targets THEN {<<t, builds>>} ELSE {}
        BY <2>1, Zenon DEF CheckerInv
      <3>2. Checking(t)' = {r \in Checking(t) :
                              r \notin {<<u, builds>> : u \in checkers.targets \ config}}
        BY <2>1, Zenon DEF Checking
      <3> QED BY <3>1, <3>2
    <2> QED BY <2>1, <2>2, Zenon DEF CheckerInv
  <1>6. CASE ReloadStart
    <2> SUFFICES ASSUME main = "serving" \/ main = "bind", calls = 0, ~Lazy PROVE CheckerInv'
      BY <1>6, Zenon DEF ReloadStart, startup, closing, Lazy, CheckerInv
    <2>1. /\ running' = running \cup {<<t, builds + 1>> : t \in config \ checkers.targets}
          /\ checkers' = [build |-> builds + 1, targets |-> config]
          /\ builds' = builds + 1 /\ config' = config
          /\ kept' = kept \cup (config \cap checkers.targets)
          /\ reload = "start" /\ reload' = "swap"
      BY <1>6, Zenon DEF ReloadStart, StartCheckers
    <2>2. ASSUME NEW t \in Targets \ kept'
          PROVE Checking(t)' = IF t \in config THEN {<<t, builds + 1>>} ELSE {}
      <3>1. Checking(t) = {} /\ (t \in config => t \notin checkers.targets)
        BY <2>1, <2>2, Zenon DEF CheckerInv
      <3>2. Checking(t)' = Checking(t) \cup {r \in {<<u, builds + 1>> : u \in config \ checkers.targets} :
                                              r[1] = t}
        BY <2>1, Zenon DEF Checking
      <3> QED BY <3>1, <3>2
    <2> QED BY <2>1, <2>2, Zenon DEF CheckerInv
  <1>7. CASE ReloadSwap \/ ReloadLogs
    <2>1. /\ UNCHANGED <<checkers, running, builds, kept, config, calls, store, main>>
          /\ \/ reload = "swap" /\ reload' = "reopen" /\ routed' = builds
             \/ reload = "reopen" /\ reload' = "idle" /\ routed' = routed
      BY <1>7, Zenon DEF ReloadSwap, ReloadLogs, health, closing, startup
    <2>2. \A t \in Targets : Checking(t)' = Checking(t)
      BY <2>1, Zenon DEF Checking
    <2> QED BY <2>1, <2>2, Zenon DEF Lazy, CheckerInv
  <1>8. ASSUME NEW s \in Sockets, LoopStarts(s) \/ LoopFails(s)
        PROVE CheckerInv'
    BY <1>8, Zenon DEF LoopStarts, LoopFails, health, closing, startup, Checking, Lazy,
      CheckerInv
  <1>9. ASSUME NEW q \in Requests, FinishRequest(q) \/ \E s \in Sockets : StartRequest(q, s)
        PROVE CheckerInv'
    BY <1>9 DEF FinishRequest, StartRequest, health, closing, startup, Checking, Lazy,
      CheckerInv
  <1>10. ASSUME NEW c \in Callers, Shutdown(c)
         PROVE CheckerInv'
    <2>1. CASE BeginShutdown(c)
      BY <2>1 DEF BeginShutdown, CountInv, CheckerInv
    <2>2. CASE ~BeginShutdown(c)
      <3>1. down[c] # "no" /\ calls' = calls
        BY <1>10, <2>2, Zenon DEF Shutdown, ResetSignal, StopCheckers, ShutServer, Drained,
          NextKind
      <3> QED BY <3>1, <1>10, Zenon DEF Begun, CountInv, CheckerInv
    <2> QED BY <2>1, <2>2, Zenon
  <1> QED
    BY <1>1, <1>2, <1>3, <1>4, <1>5, <1>6, <1>7, <1>8, <1>9, <1>10, Zenon DEF Next, Main, Reload

LEMMA StopStep ==
  ASSUME TypeInv, PhaseInv, CountInv, StopInv, [Next]_vars
  PROVE StopInv'
  <1>1. CASE Load \/ LoadFails \/ ReplayFails \/ ListenersFail \/ BindFails \/ Bind \/ Serve
             \/ Replayed \/ Sighup \/ Collect \/ Return \/ Cancel \/ UNCHANGED vars
    <2>1. UNCHANGED <<stopped, builds, down, calls, overlap, reload>>
      BY <1>1, Zenon DEF Load, LoadFails, ReplayFails, StartFails, ListenersFail, BindFails,
        Bind, Serve, Replayed, Sighup, Collect, Return, Cancel, vars, health, closing
    <2>2. main' = "panic" => main = "panic"
      BY <1>1, Zenon DEF Load, LoadFails, ReplayFails, StartFails, ListenersFail, BindFails,
        Bind, Serve, Replayed, Sighup, Collect, Return, Cancel, vars, startup
    <2> QED BY <2>1, <2>2, Zenon DEF StopInv
  <1>2. CASE Build
    <2>1. /\ UNCHANGED <<stopped, down, calls, overlap, reload>>
          /\ builds' \in {builds, builds + 1} /\ main' = "bind"
      BY <1>2, Zenon DEF Build, StartCheckers, closing
    <2>2. \A b \in Nat : (b <= builds => b <= builds') /\ (b < builds => b < builds')
      BY <2>1 DEF CountInv
    <2> QED BY <2>1, <2>2, Zenon DEF StopInv
  <1>3. CASE ReloadConfig
    <2>1. UNCHANGED <<stopped, builds, down, calls, main>> /\ reload = "idle"
      BY <1>3, Zenon DEF ReloadConfig, startup
    <2>2. \/ reload' = "idle" /\ overlap' = overlap
          \/ reload' # "start" /\ overlap' = (overlap \/ calls > 0)
      BY <1>3, Zenon DEF ReloadConfig
    <2>3. calls = 1 => calls > 0
      OBVIOUS
    <2> QED BY <2>1, <2>2, <2>3, Zenon DEF StopInv
  <1>4. CASE ReloadStop
    <2> SUFFICES ASSUME ~overlap, calls < 2 PROVE StopInv'
      BY <1>4, Zenon DEF ReloadStop, closing, StopInv
    <2>1. /\ stopped' = stopped \cup {<<t, builds>> : t \in checkers.targets \ config}
          /\ main' = IF {<<t, builds>> : t \in checkers.targets \ config} \cap stopped = {}
                      THEN main ELSE "panic"
          /\ UNCHANGED <<builds, down, calls, overlap>> /\ reload = "stop" /\ reload' = "start"
      BY <1>4 DEF ReloadStop, Stop, closing, CountInv
    <2>2. calls # 1
      BY <2>1, Zenon DEF StopInv
    <2>3. calls = 0
      BY <2>2 DEF CountInv
    <2>4. \A c \in Callers : down[c] = "no"
      BY <2>3, Zenon DEF Begun, CountInv
    <2>5. \A t \in Targets, b \in Nat : <<t, b>> \in stopped => b < builds
      BY <2>1, <2>4, Zenon DEF StopInv
    <2>6. {<<t, builds>> : t \in checkers.targets \ config} \cap stopped = {}
      <3>1. ~(builds < builds)
        BY DEF CountInv
      <3> QED BY <2>5, <3>1, Zenon DEF CountInv
    <2>7. \A t \in Targets, b \in Nat : <<t, b>> \in stopped' => b <= builds
      <3>1. \A b \in Nat : (b < builds => b <= builds) /\ builds <= builds
        BY DEF CountInv
      <3> QED BY <2>1, <2>5, <3>1, Zenon
    <2> QED BY <2>1, <2>3, <2>6, <2>7, Zenon DEF StopInv
  <1>5. CASE ReloadStart
    <2>1. /\ UNCHANGED <<stopped, down, calls, overlap, main>>
          /\ builds' = builds + 1 /\ reload = "start" /\ reload' = "swap"
      BY <1>5, Zenon DEF ReloadStart, StartCheckers, closing, startup
    <2>2. \A b \in Nat : b <= builds => b <= builds' /\ b < builds'
      BY <2>1 DEF CountInv
    <2> QED BY <2>1, <2>2, Zenon DEF StopInv
  <1>6. CASE ReloadSwap \/ ReloadLogs
    <2>1. /\ UNCHANGED <<stopped, builds, down, calls, overlap, main>>
          /\ reload \notin {"idle", "start"} /\ reload' \notin {"start"}
      BY <1>6, Zenon DEF ReloadSwap, ReloadLogs, health, closing, startup
    <2> QED BY <2>1, Zenon DEF StopInv
  <1>7. ASSUME NEW s \in Sockets, LoopStarts(s) \/ LoopFails(s)
        PROVE StopInv'
    <2>1. UNCHANGED <<stopped, builds, down, calls, overlap, reload, main>>
      BY <1>7, Zenon DEF LoopStarts, LoopFails, health, closing, startup
    <2> QED BY <2>1, Zenon DEF StopInv
  <1>8. ASSUME NEW q \in Requests, FinishRequest(q) \/ \E s \in Sockets : StartRequest(q, s)
        PROVE StopInv'
    <2>1. UNCHANGED <<stopped, builds, down, calls, overlap, reload, main>>
      BY <1>8, Zenon DEF FinishRequest, StartRequest, health, closing, startup
    <2> QED BY <2>1, Zenon DEF StopInv
  <1>9. ASSUME NEW c \in Callers, Shutdown(c)
        PROVE StopInv'
    <2>1. CASE BeginShutdown(c)
      <3>1. /\ UNCHANGED <<stopped, builds, reload, main>>
            /\ calls' = calls + 1 /\ overlap' = (overlap \/ reload # "idle")
            /\ down[c] = "no" /\ \A d \in Callers \ {c} : down'[d] = down[d]
        BY <2>1 DEF BeginShutdown, startup, health
      <3>2. calls' < 2 => calls < 2
        BY <3>1 DEF CountInv
      <3> QED BY <3>1, <3>2, Zenon DEF StopInv
    <2>2. CASE ResetSignal(c)
      BY <2>2 DEF ResetSignal, startup, health, StopInv
    <2>3. CASE StopCheckers(c)
      <3> SUFFICES ASSUME ~overlap, calls < 2 PROVE StopInv'
        BY <2>3, Zenon DEF StopCheckers, StopInv
      <3>1. /\ main' = IF {<<t, builds>> : t \in checkers.targets} \cap stopped = {}
                       THEN main ELSE "panic"
            /\ UNCHANGED <<builds, calls, overlap, reload>> /\ down[c] = "checkers"
            /\ down' = [down EXCEPT ![c] = "quic"]
        BY <2>3 DEF StopCheckers, Stop, CountInv
      <3>2. calls # 0
        BY <1>9, <3>1, Zenon DEF Begun, CountInv
      <3>3. calls = 1
        BY <3>2 DEF CountInv
      <3>4. Begun = {c}
        BY <1>9, <3>1, <3>3, Zenon DEF Begun, CountInv
      <3>5. reload = "idle" /\ \A d \in Callers : down[d] \in {"no", "checkers"}
        BY <3>1, <3>3, <3>4, Zenon DEF StopInv, Begun
      <3>6. \A t \in Targets, b \in Nat : <<t, b>> \in stopped => b < builds
        BY <3>5, Zenon DEF StopInv
      <3>7. {<<t, builds>> : t \in checkers.targets} \cap stopped = {}
        <4>1. ~(builds < builds)
          BY DEF CountInv
        <4> QED BY <3>6, <4>1, Zenon DEF CountInv
      <3>8. down'[c] = "quic"
        BY <1>9, <3>1, Zenon DEF TypeInv
      <3> QED BY <1>9, <3>1, <3>3, <3>5, <3>7, <3>8, Zenon DEF StopInv
    <2>4. CASE ShutServer(c) \/ Drained(c) \/ NextKind(c)
      <3>1. UNCHANGED <<stopped, builds, calls, overlap, reload, main>>
        BY <2>4, Zenon DEF ShutServer, Drained, NextKind, startup, health
      <3>2. down[c] \notin {"no", "signal", "checkers"}
        BY <2>4, Zenon DEF ShutServer, Drained, NextKind
      <3>3. down'[c] \notin {"no", "signal", "checkers"}
        <4>1. CASE ShutServer(c)
          BY <4>1, <1>9, ShutOne DEF TypeInv
        <4>2. CASE Drained(c) \/ NextKind(c)
          BY <4>2, <1>9, Zenon DEF Drained, NextKind, TypeInv
        <4> QED BY <2>4, <4>1, <4>2, Zenon
      <3> QED BY <1>9, <3>1, <3>3, Zenon DEF StopInv
    <2> QED BY <1>9, <2>1, <2>2, <2>3, <2>4, Zenon DEF Shutdown
  <1> QED
    BY <1>1, <1>2, <1>3, <1>4, <1>5, <1>6, <1>7, <1>8, <1>9, Zenon DEF Next, Main, Reload

-----------------------------------------------------------------------------
(* Theorems *)

LifecycleInv ==
  /\ TypeInv /\ PhaseInv /\ SocketInv /\ ShutInv /\ DrainInv
  /\ CountInv /\ CheckerInv /\ StopInv

LEMMA LifecycleInvariance == Spec => []LifecycleInv
  <1>1. Init => LifecycleInv
    <2> SUFFICES ASSUME Init PROVE LifecycleInv
      BY Zenon
    <2> USE DEF Init, Callers
    <2>1. TypeInv
      BY Zenon DEF TypeInv, Early, Loops, Phases
    <2>2. PhaseInv /\ SocketInv
      BY Zenon DEF PhaseInv, SocketInv, Early, Late, QuicPhase, TcpPhase, Quic, Tcp
    <2>3. ShutInv /\ DrainInv
      BY Zenon DEF ShutInv, DrainInv, Draining, Passed, QuicPhase, TcpPhase
    <2>4. CountInv
      BY DEF CountInv, Begun
    <2>5. CheckerInv /\ StopInv
      BY Zenon DEF CheckerInv, StopInv
    <2> QED BY <2>1, <2>2, <2>3, <2>4, <2>5, Zenon DEF LifecycleInv
  <1>2. LifecycleInv /\ [Next]_vars => LifecycleInv'
    BY TypeStep, PhaseStep, SocketStep, ShutStep, DrainStep, CountStep, CheckerStep, StopStep,
      Zenon DEF LifecycleInv
  <1> QED BY <1>1, <1>2, PTL DEF Spec

\* When Run has returned, for whatever reason, the process holds no socket and
\* serves none, whatever the listeners: closeListeners after a failed bind and
\* shutdown otherwise leave none, and Run waits for the shutdown under way.
THEOREM ReturnLeavesNothingBound == Spec => []NothingLeftBound
  <1>1. LifecycleInv => NothingLeftBound
    BY Zenon DEF LifecycleInv, SocketInv, NothingLeftBound
  <1> QED BY <1>1, LifecycleInvariance, PTL

\* Unless the context of a shutdown expires, no access line is lost: while a
\* request is under way Run has not returned, and the log files are open.
THEOREM DrainKeepsLines == Spec => []NoLineLost
  <1>1. LifecycleInv => NoLineLost
    BY Zenon DEF LifecycleInv, DrainInv, NoLineLost
  <1> QED BY <1>1, LifecycleInvariance, PTL

\* With no reload or shutdown under way, a configured target that no reload has
\* carried over has one checker, that of the build that serves, and a target that
\* is not configured has none.
THEOREM CheckersMatchConfig == Spec => []CheckersFollowConfig
  <1>1. LifecycleInv => CheckersFollowConfig
    BY Zenon DEF LifecycleInv, CheckerInv, Checking, CheckersFollowConfig
  <1> QED BY <1>1, LifecycleInvariance, PTL

\* A shutdown that no reload overlaps, and that is the only one, closes no stop
\* channel twice: the process does not panic.
THEOREM LoneShutdownDoesNotPanic == Spec => []PanicNeedsOverlap
  <1>1. LifecycleInv => PanicNeedsOverlap
    <2> SUFFICES ASSUME LifecycleInv, main = "panic", ~overlap PROVE calls = 2
      BY Zenon DEF PanicNeedsOverlap
    <2>1. ~(calls < 2)
      BY Zenon DEF LifecycleInv, StopInv
    <2>2. calls \in {0, 1, 2}
      BY Zenon DEF LifecycleInv, CountInv
    <2> QED BY <2>1, <2>2
  <1> QED BY <1>1, LifecycleInvariance, PTL

=============================================================================
