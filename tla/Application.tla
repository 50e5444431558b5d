----------------------------- MODULE Application -----------------------------
(***************************************************************************)
(* The life of one process: Application::initialize, start and stop on the *)
(* main thread against the handlers that the one thread of the io_context  *)
(* runs - heartbeat, readiness check, commands - and the shutdown that     *)
(* waits for one of them.                                                  *)
(*                                                                         *)
(* ServiceRunner, the servers and asio are not in the repository and are   *)
(* modelled from their use: handlers are run first in first out and to     *)
(* their end, and in each round of the queue, at its mark "poll", the      *)
(* thread looks at its connections and timers.                             *)
(* Configurations are Configuration's; a tick is one second.               *)
(***************************************************************************)
EXTENDS Configuration, FiniteSets

CONSTANTS
    Files,      \* documents that may be at configPath_
    Stoppers,   \* how the runner may call stop(), see Stop
    Clients,    \* connections with a command under way at most
    Busy,       \* ticks a command holds the thread at most
    Patience,   \* ticks from the end of start() to the readiness deadline
    FreePorts   \* ports the system gives a server that asks for any

ASSUME ApplicationAssumption ==
    /\ Stoppers \subseteq {"beside", "after", "inside"}
    /\ Clients \in Nat /\ Busy \in Nat /\ Patience \in Nat
    /\ FreePorts \subseteq 1..(PortSpace - 1)
    /\ \A f \in Files :
          Valid(f) =>
             /\ Parse(f).telemetry.heartbeat_interval \in Nat \ {0}
             /\ Parse(f).network.command_port \in 0..(PortSpace - 1)
             /\ Parse(f).telemetry.sse_port \in 0..(PortSpace - 1)
             /\ Len(f.radios) \in Nat /\ DOMAIN f.radios = 1..Len(f.radios)

VARIABLES
    file,       \* the document
    stopper,    \* how this runner stops
    main,       \* where start() or stop() is, whichever thread runs it
    round,      \* stop() is called by the runner and again by ~Application
    connected,  \* RadioManager::start has returned
    restPort,   \* the ports the two servers were bound to, 0 before
    ssePort,
    loop,       \* the thread of the io_context: "idle", "running", "ended"
    queue,      \* handlers ready to be run, and the mark of the round
    handler,    \* the handler being run, and at which of its steps
    left,       \* ticks the command being run still takes
    beat,       \* ticks until the heartbeat timer expires
    recheck,    \* ticks until the readiness check looks again
    deadline,   \* ticks until it gives up
    stopped,    \* heartbeatStopped_
    rest, sse,  \* the two servers
    bus,        \* the event bus: "open", "closed"
    ready,      \* "unknown", "pending", "published", "gave_up"
    gap,        \* ticks since the last heartbeat was due to be counted
    late        \* history: something was published to a closed bus

runVars == <<file, stopper, round, connected, restPort, ssePort>>
mainVars == <<runVars, main>>
loopVars == <<loop, queue, handler, left>>
timerVars == <<beat, recheck, deadline>>
hubVars == <<stopped, sse, bus, gap, late>>
vars == <<mainVars, loopVars, timerVars, hubVars, rest, ready>>

Off == -1
Config == Parse(file)
Security == Config.security
Interval == Config.telemetry.heartbeat_interval

Init ==
    /\ file \in Files
    /\ stopper \in Stoppers
    /\ main = "initialize" /\ round = 1 /\ connected = FALSE
    /\ restPort = 0 /\ ssePort = 0
    /\ loop = "idle" /\ queue = <<"poll">> /\ handler = "none" /\ left = 0
    /\ beat = Off /\ recheck = Off /\ deadline = Off
    /\ stopped = FALSE /\ sse = "off" /\ rest = "off" /\ bus = "open"
    /\ ready = "unknown"
    /\ gap = Off /\ late = FALSE

-----------------------------------------------------------------------------
(***************************************************************************)
(* The main thread: initialize and start.                                  *)
(***************************************************************************)
Initialize ==
    /\ main = "initialize"
    /\ main' = IF Valid(file) THEN "telemetry" ELSE "dead"
    /\ UNCHANGED <<runVars, loopVars, timerVars, hubVars, rest, ready>>

StartTelemetry ==
    /\ main = "telemetry"
    /\ main' = "radios"
    /\ sse' = "opening"
    /\ stopped' = FALSE
    /\ queue' = queue \o <<"open_sse", "schedule">>
    /\ UNCHANGED <<runVars, loop, handler, left, timerVars, bus, gap, late,
                   rest, ready>>

\* connect() of every radio returns, with or without a radio.
ConnectRadios ==
    /\ main = "radios"
    /\ main' = "gateway"
    /\ connected' = TRUE
    /\ UNCHANGED <<file, stopper, round, restPort, ssePort, loopVars, timerVars,
                   hubVars, rest, ready>>

\* Mutant: the gateway is opened before the radios have been connected.
StartGateway_Mutant ==
    /\ main \in {"radios", "gateway"}
    /\ main' = "serving"
    /\ rest' = "opening"
    /\ ready' = "pending"
    /\ deadline' = Patience
    /\ queue' = queue \o <<"open_rest", "check">>
    /\ UNCHANGED <<runVars, loop, handler, left, beat, recheck, hubVars>>

\* The gateway, then the rest of start(): the first readiness check is posted.
StartGateway ==
    /\ main = "gateway"
    /\ main' = "serving"
    /\ rest' = "opening"
    /\ ready' = "pending"
    /\ deadline' = Patience
    /\ queue' = queue \o <<"open_rest", "check">>
    /\ UNCHANGED <<runVars, loop, handler, left, beat, recheck, hubVars>>

Start == Initialize \/ StartTelemetry \/ ConnectRadios \/ StartGateway

-----------------------------------------------------------------------------
(***************************************************************************)
(* The thread of the io_context.                                           *)
(***************************************************************************)
Stopping ==
    main \in {"stop_gateway", "stop_flag", "stop_check", "wait", "stop_sse",
              "stop_bus", "returned"}

\* A stop() called by a handler keeps the thread until it returns.
Turning == loop = "running" /\ ~(stopper = "inside" /\ Stopping)
Between == Turning /\ handler = "none"

\* The next handler is taken off the queue.
Takes(h) == Between /\ queue # <<>> /\ Head(queue) = h /\ queue' = Tail(queue)

RunnerStarts ==
    /\ loop = "idle" /\ main \notin {"initialize", "dead"}
    /\ loop' = "running"
    /\ UNCHANGED <<mainVars, queue, handler, left, timerVars, hubVars, rest,
                   ready>>

\* The ports a server can be bound to that asks for one of them: that one, or
\* any for 0, unless the other server has it.  Another process may have it too.
Bindable(asked, other, port) ==
    (IF asked = 0 THEN FreePorts ELSE {asked})
        \ (IF other = "listening" THEN {port} ELSE {})

OpenSse ==
    /\ Takes("open_sse")
    /\ \/ sse # "opening" /\ UNCHANGED <<sse, ssePort>>
       \/ sse = "opening" /\ sse' = "failed" /\ UNCHANGED ssePort
       \/ /\ sse = "opening" /\ sse' = "listening"
          /\ ssePort' \in Bindable(SsePort(Config), rest, restPort)
    /\ UNCHANGED <<file, stopper, main, round, connected, restPort, loop, handler,
                   left, timerVars, stopped, bus, gap, late, rest, ready>>

OpenRest ==
    /\ Takes("open_rest")
    /\ \/ rest # "opening" /\ UNCHANGED <<rest, restPort>>
       \/ rest = "opening" /\ rest' = "failed" /\ UNCHANGED restPort
       \/ /\ rest = "opening" /\ rest' = "listening"
          /\ restPort' \in Bindable(Config.network.command_port, sse, ssePort)
    /\ UNCHANGED <<file, stopper, main, round, connected, ssePort, loop, handler,
                   left, timerVars, hubVars, ready>>

\* What was under way when the bus was closed is lost, and remembered here.
Publish == late' = (late \/ bus = "closed")

\* scheduleHeartbeat reads the flag, then arms the timer.
Schedule ==
    /\ \/ Takes("schedule")
       \/ Turning /\ handler = "beaten" /\ UNCHANGED queue
    /\ handler' = IF stopped THEN "none" ELSE "arm"
    /\ UNCHANGED <<mainVars, loop, left, timerVars, hubVars, rest, ready>>

Arm ==
    /\ Turning /\ handler = "arm"
    /\ handler' = "none"
    /\ beat' = Interval
    /\ gap' = IF gap = Off THEN 0 ELSE gap
    /\ UNCHANGED <<mainVars, loop, queue, left, recheck, deadline, stopped, sse,
                   bus, late, rest, ready>>

\* The handler of the expired timer; one of a cancelled timer returns at once
\* and is left out.
Beat ==
    /\ Takes("beat") /\ main # "wait"
    /\ handler' = IF stopped THEN "none" ELSE "beat"
    /\ UNCHANGED <<mainVars, loop, left, timerVars, hubVars, rest, ready>>

\* The strand belongs to the cancellation from its being posted: a handler
\* that comes to it meanwhile is posted again, behind it.
BeatWaits ==
    /\ Between /\ queue # <<>> /\ Head(queue) = "beat" /\ main = "wait"
    /\ queue' = Append(Tail(queue), "beat")
    /\ UNCHANGED <<mainVars, loop, handler, left, timerVars, hubVars, rest, ready>>

\* Mutant: the handler does not schedule the next heartbeat.
PublishHeartbeat_Mutant ==
    /\ Turning /\ handler = "beat"
    /\ handler' = "none"
    /\ Publish
    /\ gap' = 0
    /\ UNCHANGED <<mainVars, loop, queue, left, timerVars, stopped, sse, bus,
                   rest, ready>>

\* Mutant: the next heartbeat is posted, and scheduled directly too.
PublishHeartbeat_Twice ==
    /\ Turning /\ handler = "beat"
    /\ handler' = "beaten"
    /\ Publish
    /\ gap' = 0
    /\ queue' = Append(queue, "schedule")
    /\ UNCHANGED <<mainVars, loop, left, timerVars, stopped, sse, bus, rest,
                   ready>>

PublishHeartbeat ==
    /\ Turning /\ handler = "beat"
    /\ handler' = "beaten"
    /\ Publish
    /\ gap' = 0
    /\ UNCHANGED <<mainVars, loop, queue, left, timerVars, stopped, sse, bus,
                   rest, ready>>

Listening == sse = "listening" /\ rest = "listening"

\* Mutant: each check moves the deadline.
Check_Mutant ==
    /\ Takes("check")
    /\ IF Listening THEN handler' = "announce" /\ UNCHANGED <<ready, recheck>>
       ELSE UNCHANGED <<handler, ready>> /\ recheck' = 1
    /\ UNCHANGED <<mainVars, loop, left, beat, deadline, hubVars, rest>>

\* readinessCheck.  Its 50 ms to the next look are one tick here.
Check ==
    /\ Takes("check")
    /\ \/ Listening /\ handler' = "announce" /\ UNCHANGED <<ready, recheck>>
       \/ ~Listening /\ deadline = 0 /\ ready' = "gave_up"
          /\ UNCHANGED <<handler, recheck>>
       \/ ~Listening /\ deadline > 0 /\ recheck' = 1
          /\ UNCHANGED <<handler, ready>>
    /\ UNCHANGED <<mainVars, loop, left, beat, deadline, hubVars, rest>>

PublishReady ==
    /\ Turning /\ handler = "announce"
    /\ handler' = "none"
    /\ ready' = "published"
    /\ Publish
    /\ UNCHANGED <<mainVars, loop, queue, left, timerVars, stopped, sse, bus,
                   gap, rest>>

\* A command runs on the thread for as long as its adapter takes.
Command ==
    /\ Takes("command")
    /\ handler' = "command"
    /\ left' \in 0..Busy
    /\ UNCHANGED <<mainVars, loop, timerVars, hubVars, rest, ready>>

\* PublishCommand of RadioService is part of it.
CommandEnds ==
    /\ Turning /\ handler = "command" /\ left = 0
    /\ handler' = "none"
    /\ Publish
    /\ UNCHANGED <<mainVars, loop, queue, left, timerVars, stopped, sse, bus,
                   gap, rest, ready>>

\* What cancelHeartbeatTimer has posted; its promise lets stop() go on.
Cancel ==
    /\ Takes("cancel")
    /\ beat' = Off
    /\ main' = IF main = "wait" THEN "stop_sse" ELSE main
    /\ UNCHANGED <<runVars, loop, handler, left, recheck, deadline, hubVars,
                   rest, ready>>

Handle ==
    \/ OpenSse \/ OpenRest
    \/ Schedule \/ Arm \/ Beat \/ BeatWaits \/ PublishHeartbeat
    \/ Check \/ PublishReady
    \/ Command \/ CommandEnds
    \/ Cancel

-----------------------------------------------------------------------------
(***************************************************************************)
(* Once in a round, with no command left of the last one, the thread looks *)
(* at its connections and then its timers.  What it finds goes behind what *)
(* has been posted meanwhile.  With nothing to run it waits for them.      *)
(***************************************************************************)
Due == (IF beat = 0 THEN <<"beat">> ELSE <<>>)
            \o (IF recheck = 0 THEN <<"check">> ELSE <<>>)

Poll ==
    /\ Between /\ queue # <<>> /\ Head(queue) = "poll"
    /\ \E n \in 0..(IF rest = "listening" THEN Clients ELSE 0) :
          /\ n > 0 \/ Due # <<>> \/ Tail(queue) # <<>>
          /\ queue' = Tail(queue) \o [i \in 1..n |-> "command"] \o Due \o <<"poll">>
    /\ beat' = IF beat = 0 THEN Off ELSE beat
    /\ recheck' = IF recheck = 0 THEN Off ELSE recheck
    /\ UNCHANGED <<mainVars, loop, handler, left, deadline, hubVars, rest,
                   ready>>

\* The thread has something to do that takes no time.
Pressing ==
    IF handler = "none" THEN Between /\ (queue # <<"poll">> \/ Due # <<>>)
    ELSE Turning /\ ~(handler = "command" /\ left > 0)

\* Mutant: a timer that has expired goes on counting.
Down_Mutant(t) == IF t # Off THEN t - 1 ELSE t

Down(t) == IF t > 0 THEN t - 1 ELSE t
HeartbeatBound == Interval + 2 * Clients * Busy

Tick ==
    /\ ~Pressing
    /\ beat > 0 \/ recheck > 0 \/ deadline > 0 \/ left > 0 \/ gap # Off
    /\ beat' = Down(beat) /\ recheck' = Down(recheck)
    /\ deadline' = Down(deadline) /\ left' = Down(left)
    /\ gap' = IF gap = Off \/ gap > HeartbeatBound THEN gap ELSE gap + 1
    /\ UNCHANGED <<mainVars, loop, queue, handler, stopped, sse, bus, late,
                   rest, ready>>

-----------------------------------------------------------------------------
(***************************************************************************)
(* stop().  The runner calls it on a signal or because requestStop was     *)
(* called, in one of three ways: beside the thread of the io_context,      *)
(* after that thread has been ended, or inside it.                         *)
(***************************************************************************)
StopBegins ==
    /\ main = "serving"
    /\ \/ stopper = "beside" /\ UNCHANGED loop
       \/ stopper = "after" /\ Between /\ loop' = "ended"
       \/ stopper = "inside" /\ Between /\ UNCHANGED loop
    /\ main' = "stop_gateway"
    /\ UNCHANGED <<runVars, queue, handler, left, timerVars, hubVars, rest,
                   ready>>

\* RadioManager::stop follows: no radio is active any more.
StopGateway ==
    /\ main = "stop_gateway"
    /\ main' = "stop_flag"
    /\ rest' = "closed"
    /\ UNCHANGED <<runVars, loopVars, timerVars, hubVars, ready>>

StopFlag ==
    /\ main = "stop_flag"
    /\ main' = "stop_check"
    /\ stopped' = TRUE
    /\ gap' = Off
    /\ UNCHANGED <<runVars, loopVars, timerVars, sse, bus, late, rest, ready>>

\* Mutant: the cancellation is posted and not waited for.
StopCheck_Mutant ==
    /\ main = "stop_check"
    /\ \/ /\ loop = "ended"
          /\ beat' = Off /\ UNCHANGED queue
       \/ /\ loop # "ended"
          /\ queue' = Append(queue, "cancel") /\ UNCHANGED beat
    /\ main' = "stop_sse"
    /\ UNCHANGED <<runVars, loop, handler, left, recheck, deadline, hubVars,
                   rest, ready>>

\* Mutant: it is always posted, whether the io_context is stopped or not.
StopCheck_Blind ==
    /\ main = "stop_check"
    /\ main' = "wait"
    /\ queue' = Append(queue, "cancel")
    /\ UNCHANGED <<runVars, loop, handler, left, timerVars, hubVars, rest,
                   ready>>

\* cancelHeartbeatTimer.  No stop() is called on the strand of the heartbeat.
StopCheck ==
    /\ main = "stop_check"
    /\ \/ /\ loop = "ended"
          /\ main' = "stop_sse"
          /\ beat' = Off /\ UNCHANGED queue
       \/ /\ loop # "ended"
          /\ main' = "wait"
          /\ queue' = Append(queue, "cancel") /\ UNCHANGED beat
    /\ UNCHANGED <<runVars, loop, handler, left, recheck, deadline, hubVars,
                   rest, ready>>

StopSse ==
    /\ main = "stop_sse"
    /\ main' = "stop_bus"
    /\ sse' = "closed"
    /\ UNCHANGED <<runVars, loopVars, timerVars, stopped, bus, gap, late, rest,
                   ready>>

StopBus ==
    /\ main = "stop_bus"
    /\ main' = "returned"
    /\ bus' = "closed"
    /\ UNCHANGED <<runVars, loopVars, timerVars, stopped, sse, gap, late, rest,
                   ready>>

\* The runner ends the io_context and returns; ~Application stops again.
RunReturns ==
    /\ main = "returned" /\ round = 1
    /\ handler = "none"
    /\ main' = "stop_gateway" /\ round' = 2
    /\ loop' = "ended"
    /\ UNCHANGED <<file, stopper, connected, restPort, ssePort, queue, handler,
                   left, timerVars, hubVars, rest, ready>>

Exit ==
    /\ main = "returned" /\ round = 2
    /\ main' = "gone"
    /\ UNCHANGED <<runVars, loopVars, timerVars, hubVars, rest, ready>>

Stop ==
    StopGateway \/ StopFlag \/ StopCheck \/ StopSse \/ StopBus \/ RunReturns \/ Exit

-----------------------------------------------------------------------------
Next ==
    Start \/ RunnerStarts \/ Handle \/ Poll \/ Tick \/ StopBegins \/ Stop

(***************************************************************************)
(* Fairness: both threads run on, time passes, a runner that was asked to  *)
(* stop does so.  Clients and signals are not fair.                        *)
(***************************************************************************)
Fairness ==
    /\ WF_vars(Start) /\ WF_vars(Stop)
    /\ WF_vars(RunnerStarts) /\ WF_vars(Handle)
    /\ WF_vars(Poll /\ (Due # <<>> \/ Tail(queue) # <<>>))
    /\ SF_vars(Tick)
    /\ SF_vars(StopBegins /\ ready = "gave_up")

Spec == Init /\ [][Next]_vars
FairSpec == Spec /\ Fairness
-----------------------------------------------------------------------------
(***************************************************************************)
(* What holds of a process.                                                *)
(***************************************************************************)
MainPoints ==
    {"initialize", "dead", "telemetry", "radios", "gateway", "serving",
     "stop_gateway", "stop_flag", "stop_check", "wait", "stop_sse", "stop_bus",
     "returned", "gone"}
Posted ==
    {"poll", "open_sse", "open_rest", "schedule", "beat", "check", "command",
     "cancel"}
Servers == {"off", "opening", "listening", "failed", "closed"}

\* Besides the types: no timer is armed beyond its period, and a process with
\* a document that is refused never gets to start().
TypeOK ==
    /\ file \in Files /\ stopper \in Stoppers
    /\ main \in MainPoints /\ round \in {1, 2} /\ connected \in BOOLEAN
    /\ main \notin {"initialize", "dead"} => Valid(file)
    /\ restPort \in 0..(PortSpace - 1) /\ ssePort \in 0..(PortSpace - 1)
    /\ loop \in {"idle", "running", "ended"}
    /\ queue \in Seq(Posted)
    /\ handler \in {"none", "arm", "beat", "beaten", "announce", "command"}
    /\ left \in 0..Busy
    /\ beat \in {Off} \cup 0..Interval
    /\ recheck \in {Off, 0, 1} /\ deadline \in {Off} \cup 0..Patience
    /\ stopped \in BOOLEAN /\ sse \in Servers /\ rest \in Servers
    /\ bus \in {"open", "closed"} /\ late \in BOOLEAN
    /\ ready \in {"unknown", "pending", "published", "gave_up"}
    /\ gap \in Nat \cup {Off}

\* The life of the heartbeat is one thread of control: posted, armed, expired,
\* in its handler - never at two of these places, where start() and each beat
\* put it anew.
OneHeartbeat ==
    Cardinality({i \in DOMAIN queue : queue[i] \in {"schedule", "beat"}})
        + (IF beat # Off THEN 1 ELSE 0)
        + (IF handler \in {"arm", "beat", "beaten"} THEN 1 ELSE 0) <= 1

\* Once cancelHeartbeatTimer has returned the hub is silent: no timer, no step
\* of its handlers, at most one handler of a timer that had expired, with the
\* flag set for it to read.  The hub is destroyed when the thread has ended.
HubIsSilent ==
    /\ main \in {"stop_sse", "stop_bus", "returned", "gone"} =>
          \/ loop = "ended"
          \/ /\ stopped /\ beat = Off
             /\ handler \notin {"arm", "beat", "beaten"}
             /\ \A i \in DOMAIN queue : queue[i] \notin {"schedule", "cancel"}
    /\ main = "gone" => loop = "ended"

\* No heartbeat, ready or command event is given to a bus that is stopped: what
\* was under way when stop() began is published before it gets there.
NothingPublishedLate == ~late

\* Commands hold up a heartbeat, by less than two rounds of all clients: those
\* under way when its timer expires, and those that come before it is noticed.
HeartbeatGap ==
    loop = "running" /\ ~Stopping =>
        gap <= Interval \/ gap < HeartbeatBound

\* ready means that both servers can be reached where discovery says: each is
\* bound to the port peers are told.  A document may ask for any port, by
\* command_port 0 or, for the event stream, by 65535 and no port of its own;
\* what was bound then is told nobody.
ReadyOnAnnouncedPorts ==
    main = "serving" /\ ready = "published" =>
        LET command_port == Config.network.command_port
        IN /\ Listening /\ restPort # ssePort
           /\ command_port # 0 => Announced(Config).rest = restPort
           /\ command_port # PortSpace - 1 \/ Config.telemetry.sse_port # 0 =>
                 Announced(Config).sse = ssePort

\* The token /dev-token gives out opens the event stream and, where the roles
\* allow a controller, the commands: three parts agree on a secret.
DevTokenOpens ==
    main = "serving" /\ DevToken(Security) # NoToken =>
        /\ StreamOpens(Security, DevToken(Security))
        /\ RoleAllowed(Security, "controller") =>
              Authorize(Security, DevToken(Security), "control") = "granted"

Grants(scope, level) ==
    Authorize(Security, [signed |-> Security.token_secret, scope |-> scope], level)
        = "granted"

\* A higher scope is let in wherever a lower one is, whatever roles are listed.
ScopesAreOrdered ==
    main = "serving" =>
        \A s \in Scopes, t \in Scopes, level \in {"telemetry", "control"} :
            (s = "viewer" \/ t = "admin" \/ s = t) /\ Grants(s, level)
                => Grants(t, level)

\* "`controller`: all `viewer` privileges plus control actions": who is let in
\* to command is let in to look.
ControllersMayLook ==
    main = "serving" =>
        \A s \in Scopes : Grants(s, "control") => Grants(s, "telemetry")

\* The radios served are those of the document: each supported id once, with
\* the limits of its first entry, and limits an adapter can work with.
RadiosAsConfigured ==
    main = "serving" =>
        LET entries == Config.radios
            First(id) == CHOOSE i \in DOMAIN entries :
                /\ entries[i].adapter = "silvus" /\ entries[i].id = id
                /\ \A j \in 1..(i - 1) :
                      entries[j].adapter = "silvus" => entries[j].id # id
            catalog == Catalog(Config)
        IN /\ DOMAIN catalog =
                 {e.id : e \in {x \in ToSet(entries) : x.adapter = "silvus"}}
           /\ \A id \in DOMAIN catalog :
                 /\ catalog[id] = RangeOf(entries[First(id)])
                 /\ 0 <= catalog[id][1] /\ catalog[id][1] <= catalog[id][2]
                 /\ catalog[id][2] <= MaxDbm

\* A check that has been posted ends: ready is announced or the process is
\* asked to stop, unless it is stopping anyway.
ReadinessIsDecided ==
    ready = "pending" ~> (ready # "pending" \/ Stopping \/ main = "gone")

\* stop() returns, and after it ~Application's, however the servers are doing
\* and whatever the thread of the io_context is at - unless that thread is the
\* one that called it.
StopReturns ==
    stopper # "inside" /\ (Stopping \/ ready = "gave_up") ~> main = "gone"

-----------------------------------------------------------------------------
\* What RadioService builds on, of this process.
Phase ==
    CASE main \in {"dead", "gone"} -> "ended"
      [] Stopping -> "closing"
      [] main = "serving" /\ ready = "published" -> "serving"
      [] main = "serving" /\ ready # "published" /\ rest = "listening" -> "listening"
      [] OTHER -> "starting"

Life == INSTANCE ServiceLife WITH phase <- Phase, command <- handler = "command"

\* The process keeps the order RadioService assumes: connected, listening,
\* ready, closing, ended, with one command at a time.
LifePromise == Life!Spec
=============================================================================
