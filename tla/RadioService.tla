---------------------------- MODULE RadioService ----------------------------
(***************************************************************************)
(* The service northbound of the adapters: Application's startup, the      *)
(* gateway's command handlers, Orchestrator, RadioManager, AuditLogger and *)
(* TelemetryHub.  An adapter is known by RadioAdapter's relations only.    *)
(*                                                                         *)
(* A handler runs to its end before the next one starts.  It is split here *)
(* where the process may die or the heartbeat timer, whose thread is       *)
(* dts-common's choice, may get in between: the call of the adapter, the   *)
(* events, the audit record and the answer.                                *)
(*                                                                         *)
(* One subscriber of the event stream stands for all: `unseen` counts the  *)
(* events published since the last one it took.                            *)
(***************************************************************************)
EXTENDS RadioAdapter, FiniteSets

CONSTANTS
    Radios,       \* ids the configuration has an adapter for
    DefaultList, ProfileList,   \* frequency lists of an adapter
    MinPower, MaxPower,         \* its power range, tenths of dBm
    Posts,        \* POST requests that arrive
    RingSize,     \* event_buffer_size
    ReadyPeriod   \* kReadyReemitPeriod

GatewayMax == 390
Absent == -1      \* no channelIndex in the body; 0 is no frequencyMhz

Grants == {"granted", "UNAUTHORIZED", "FORBIDDEN"}
Kinds == {"select", "power", "channel", "malformed"}

NoTwice(s) == \A i, j \in DOMAIN s : s[i] = s[j] => i = j

ASSUME ServiceAssumption ==
    /\ DefaultList \in Seq(Nat \ {0}) /\ DefaultList # <<>>
    /\ ProfileList \in Seq(Nat \ {0}) /\ ProfileList # <<>>
    /\ NoTwice(DefaultList) /\ NoTwice(ProfileList)
    /\ MinPower \in Nat /\ MaxPower \in Nat
    /\ RingSize \in Nat \ {0, 1} /\ ReadyPeriod \in Nat \ {0}
    /\ "none" \notin Radios
    /\ \A q \in Posts : q.kind \in Kinds /\ q.auth \in Grants
                        /\ q.x \in Int /\ q.y \in Int

VARIABLES
    phase,       \* "starting", "listening" (no ready event yet), "serving"
    adapters,    \* report of every adapter (RadioManager::radios_)
    unconnected, \* radios RadioManager::start has not come to yet
    active,      \* active_radio_
    handler,     \* the POST being handled
    reply,       \* code of the last answer
    audit,       \* record written for the last POST
    ring,        \* RingBuffer, oldest first
    lastReady,   \* lastReadyPayload_
    ticks,       \* heartbeatTicks_ modulo ReadyPeriod
    connected,   \* the subscriber has a stream open
    unseen       \* events it has not taken, RingSize + 1 for more than the
                 \* ring holds; Never before its first stream, Lost after
                 \* a restart

adapterVars == <<adapters, unconnected, active>>
handlerVars == <<handler, reply, audit>>
hubVars == <<ring, lastReady, ticks, connected, unseen>>
vars == <<phase, adapterVars, handlerVars, hubVars>>

Lost == -1
Never == -2
NoReady == [tag |-> "none"]
NoRecord == [action |-> "none", id |-> "none", arg |-> 0, code |-> "none"]
NoPost == [kind |-> "none", id |-> "none", x |-> 0, y |-> 0, auth |-> "granted"]
Idle == [step |-> "idle", post |-> NoPost, arg |-> 0, list |-> <<>>]

-----------------------------------------------------------------------------
(* What is shown of an adapter.                                            *)

\* normalize_status, map_radio_status.
Shown(status) ==
    IF status = "ready" THEN "online"
    ELSE IF status = "recovering" THEN "recovering" ELSE "offline"

ShownPower(p) == IF p = Unset THEN Unset ELSE WireDbm(p)

ShownFreq(list, i) == IF i \in DOMAIN list THEN list[i] ELSE 0

\* build_radio_item and the items of build_ready_snapshot.
View(a) ==
    [status |-> Shown(a.status), power |-> ShownPower(a.power),
     freq |-> ShownFreq(a.channels, a.chan)]

Snapshot == [active |-> active, radios |-> [r \in Radios |-> View(adapters[r])]]

-----------------------------------------------------------------------------
(* Events.                                                                 *)

Heartbeat == [tag |-> "heartbeat"]
ReadyEvent(s) == [tag |-> "ready", snapshot |-> s]
ChannelChanged(r, i, f) ==
    [tag |-> "channelChanged", radio |-> r, chan |-> i, freq |-> f]
PowerChanged(r, p) ==
    [tag |-> "powerChanged", radio |-> r, power |-> WireDbm(p)]
StateEvent(r, status, i, p, f) ==
    [tag |-> "state", radio |-> r, status |-> Shown(status), chan |-> i,
     power |-> ShownPower(p), freq |-> f]

AtMost(n, m) == IF n <= m THEN n ELSE m

\* Mutant: nothing is evicted.
Kept_Mutant(s) == s

\* The ring keeps the last RingSize events.
Kept(s) ==
    IF Len(s) > RingSize
    THEN [i \in 1..RingSize |-> s[i + Len(s) - RingSize]] ELSE s

\* EventBus::publish, in order.  A subscriber that would come to lag by more
\* than the ring holds loses its stream first (a bound of the model: what is
\* on its way to a subscriber is never more than the ring).
Publish(events) ==
    /\ ring' = Kept(ring \o events)
    /\ unseen' = IF unseen \in {Lost, Never} THEN unseen
                 ELSE AtMost(unseen + Len(events), RingSize + 1)
    /\ connected' = (connected /\ unseen + Len(events) <= RingSize)

-----------------------------------------------------------------------------

\* Reports an adapter may come to in a call.  manual is shown to clients and
\* never read by the service: it is left as it is.
Reports(a, powers, chans) ==
    [channels : {a.channels, ProfileList}, manual : {a.manual},
     power : {a.power} \cup powers, chan : {a.chan} \cup chans,
     status : {a.status, "ready", "recovering"}, gate : {"open", "shut"}]

Init ==
    /\ phase = "starting"
    /\ adapters = [r \in Radios |-> FreshReport(DefaultList)]
    /\ unconnected = Radios
    /\ active = "none"
    /\ handler = Idle /\ reply = "none" /\ audit = NoRecord
    /\ ring = <<>> /\ lastReady = NoReady /\ ticks = 0
    /\ connected = FALSE /\ unseen = Never

(***************************************************************************)
(* Startup: RadioManager::start connects the radios one after the other,   *)
(* failed or not; then the gateway opens, and once both servers listen the *)
(* ready event goes out.                                                   *)
(***************************************************************************)
ConnectRadio(r) ==
    /\ phase = "starting"
    /\ r \in unconnected
    /\ \E b \in Reports(adapters[r], {}, {}), code \in Codes :
          /\ Effect("connect", 0, adapters[r], b, code)
          /\ adapters' = [adapters EXCEPT ![r] = b]
    /\ unconnected' = unconnected \ {r}
    /\ UNCHANGED <<phase, active, handlerVars, hubVars>>

\* Mutant: the gateway does not wait for the radios.
OpenGateway_Mutant ==
    /\ phase = "starting"
    /\ phase' = "listening"
    /\ UNCHANGED <<adapterVars, handlerVars, hubVars>>

OpenGateway ==
    /\ phase = "starting" /\ unconnected = {}
    /\ phase' = "listening"
    /\ UNCHANGED <<adapterVars, handlerVars, hubVars>>

\* Mutant: the snapshot is published and not remembered.
PublishReady_Mutant ==
    /\ phase = "listening"
    /\ phase' = "serving"
    /\ Publish(<<ReadyEvent(Snapshot)>>)
    /\ UNCHANGED <<adapterVars, handlerVars, lastReady, ticks>>

PublishReady ==
    /\ phase = "listening"
    /\ phase' = "serving"
    /\ lastReady' = ReadyEvent(Snapshot)
    /\ Publish(<<ReadyEvent(Snapshot)>>)
    /\ UNCHANGED <<adapterVars, handlerVars, ticks>>

(***************************************************************************)
(* ApiGateway: what it refuses by itself.                                  *)
(***************************************************************************)
ListOf(q) == adapters[q.id].channels

Malformed(q) ==
    \/ q.kind = "malformed"
    \/ q.kind = "channel" /\ q.x = Absent /\ q.y = 0

UnknownRadio(q) == q.kind = "channel" /\ q.id \notin Radios

OutOfRange(q) ==
    \/ q.kind = "power" /\ (q.x < 0 \/ q.x > GatewayMax)
    \/ /\ q.kind = "channel"
       /\ \/ q.x # Absent /\ q.x \notin DOMAIN ListOf(q)
          \/ q.y # 0 /\ ChannelOf(ListOf(q), q.y) = 0
          \/ q.x # Absent /\ q.y # 0 /\ ChannelOf(ListOf(q), q.y) # q.x

GatewayCode(q) ==
    IF q.auth # "granted" THEN q.auth
    ELSE IF Malformed(q) THEN "BAD_REQUEST"
    ELSE IF UnknownRadio(q) THEN "NotFound"
    ELSE IF OutOfRange(q) THEN "InvalidRange"
    ELSE "forward"

Arg(q) ==
    IF q.kind = "channel" /\ q.y # 0 THEN ChannelOf(ListOf(q), q.y) ELSE q.x

\* Mutant: a request is taken before the last one is on record.
Accepting_Mutant == phase # "starting" /\ handler.step \in {"idle", "recording"}

Accepting == phase # "starting" /\ handler = Idle

GatewayRefuses(q) ==
    /\ Accepting
    /\ GatewayCode(q) # "forward"
    /\ reply' = GatewayCode(q)
    /\ audit' = NoRecord
    /\ UNCHANGED <<phase, adapterVars, handler, hubVars>>

(***************************************************************************)
(* Orchestrator.                                                           *)
(***************************************************************************)
Action(q) ==
    IF q.kind = "select" THEN "selectRadio"
    ELSE IF q.kind = "power" THEN "setPower" ELSE "setChannel"

\* resultToAuditCode.
AuditCode(code) == IF code = "NotFound" THEN "InternalError" ELSE code

\* The end of a handler: emitAudit, then the answer.
Answer(q, arg, code) ==
    /\ audit' = [action |-> Action(q), id |-> q.id, arg |-> arg,
                 code |-> AuditCode(code)]
    /\ reply' = code
    /\ handler' = Idle

SelectRadio(q) ==
    /\ Accepting
    /\ q.kind = "select" /\ GatewayCode(q) = "forward"
    /\ active' = IF q.id \in Radios THEN q.id ELSE active
    /\ Answer(q, 0, IF q.id \in Radios THEN "Ok" ELSE "NotFound")
    /\ UNCHANGED <<phase, adapters, unconnected, hubVars>>

\* setPower and setChannel before they call the adapter.  The channel index
\* has been checked against the same list by the gateway.
OrchestratorCode(q) ==
    IF q.id \notin Radios THEN "NotFound"
    ELSE IF q.kind = "power" /\ (q.x < MinPower \/ q.x > MaxPower)
         THEN "InvalidRange"
    ELSE "call"

OrchestratorRefuses(q) ==
    /\ Accepting
    /\ q.kind \in {"power", "channel"} /\ GatewayCode(q) = "forward"
    /\ OrchestratorCode(q) # "call"
    /\ Answer(q, Arg(q), OrchestratorCode(q))
    /\ UNCHANGED <<phase, adapterVars, hubVars>>

\* The capabilities are read here and used again after the call.
CallAdapter(q) ==
    /\ Accepting
    /\ q.kind \in {"power", "channel"} /\ GatewayCode(q) = "forward"
    /\ OrchestratorCode(q) = "call"
    /\ handler' = [step |-> "calling", post |-> q, arg |-> Arg(q),
                   list |-> ListOf(q)]
    /\ reply' = "none" /\ audit' = NoRecord
    /\ UNCHANGED <<phase, adapterVars, hubVars>>

\* set_power(watts), set_channel(index, frequency) on adapter a.
Invoke(a, b, code) ==
    IF handler.post.kind = "power"
    THEN Call("set_power", handler.arg, a, b, code)
    ELSE Call("set_channel", handler.list[handler.arg], a, b, code)

\* Mutant: Busy is taken for Ok.
AdapterReturns_Mutant ==
    /\ handler.step = "calling"
    /\ \E b \in Reports(adapters[handler.post.id], {handler.arg}, {handler.arg}),
          code \in Codes :
          /\ Invoke(adapters[handler.post.id], b, code)
          /\ adapters' = [adapters EXCEPT ![handler.post.id] = b]
          /\ \/ /\ code \in {"Ok", "Busy"}
                /\ handler' = [handler EXCEPT !.step = "publishing"]
                /\ UNCHANGED <<reply, audit>>
             \/ /\ code \notin {"Ok", "Busy"}
                /\ Answer(handler.post, handler.arg, code)
    /\ UNCHANGED <<phase, unconnected, active, hubVars>>

AdapterReturns ==
    /\ handler.step = "calling"
    /\ \E b \in Reports(adapters[handler.post.id], {handler.arg}, {handler.arg}),
          code \in Codes :
          /\ Invoke(adapters[handler.post.id], b, code)
          /\ adapters' = [adapters EXCEPT ![handler.post.id] = b]
          /\ \/ /\ code = "Ok"
                /\ handler' = [handler EXCEPT !.step = "publishing"]
                /\ UNCHANGED <<reply, audit>>
             \/ /\ code # "Ok"
                /\ Answer(handler.post, handler.arg, code)
    /\ UNCHANGED <<phase, unconnected, active, hubVars>>

\* Mutant: setChannel's state event leaves the power out.
CommandEvents_Mutant ==
    LET r == handler.post.id
        a == adapters[r]
        f == handler.list[handler.arg]
    IN IF handler.post.kind = "power"
       THEN <<PowerChanged(r, handler.arg),
              StateEvent(r, a.status, a.chan, handler.arg,
                         ShownFreq(handler.list, a.chan))>>
       ELSE <<ChannelChanged(r, handler.arg, f),
              StateEvent(r, a.status, handler.arg, Unset, f)>>

\* setPower publishes the frequency the old list has at the new index;
\* setChannel the index and the frequency it was called with.
CommandEvents ==
    LET r == handler.post.id
        a == adapters[r]
        f == handler.list[handler.arg]
    IN IF handler.post.kind = "power"
       THEN <<PowerChanged(r, handler.arg),
              StateEvent(r, a.status, a.chan, handler.arg,
                         ShownFreq(handler.list, a.chan))>>
       ELSE <<ChannelChanged(r, handler.arg, f),
              StateEvent(r, a.status, handler.arg, a.power, f)>>

PublishCommand ==
    /\ handler.step = "publishing"
    /\ Publish(CommandEvents)
    /\ handler' = [handler EXCEPT !.step = "recording"]
    /\ UNCHANGED <<phase, adapterVars, reply, audit, lastReady, ticks>>

\* Mutant: the handler is not released.
RecordCommand_Mutant ==
    /\ handler.step = "recording"
    /\ audit' = [action |-> Action(handler.post), id |-> handler.post.id,
                 arg |-> handler.arg, code |-> "Ok"]
    /\ reply' = "Ok"
    /\ UNCHANGED <<phase, adapterVars, handler, hubVars>>

RecordCommand ==
    /\ handler.step = "recording"
    /\ Answer(handler.post, handler.arg, "Ok")
    /\ UNCHANGED <<phase, adapterVars, hubVars>>

(***************************************************************************)
(* TelemetryHub's timer, the gate's clock, the subscriber, the end.        *)
(***************************************************************************)
\* Mutant: the ready event goes out before its heartbeat.
Beat_Mutant ==
    /\ ticks' = (ticks + 1) % ReadyPeriod
    /\ Publish(IF ticks' = 0 /\ lastReady # NoReady
               THEN <<lastReady, Heartbeat>> ELSE <<Heartbeat>>)
    /\ UNCHANGED <<phase, adapterVars, handlerVars, lastReady>>

Beat ==
    /\ ticks' = (ticks + 1) % ReadyPeriod
    /\ Publish(IF ticks' = 0 /\ lastReady # NoReady
               THEN <<Heartbeat, lastReady>> ELSE <<Heartbeat>>)
    /\ UNCHANGED <<phase, adapterVars, handlerVars, lastReady>>

GateOpens(r) ==
    /\ adapters[r].gate = "shut"
    /\ adapters' = [adapters EXCEPT ![r].gate = "open"]
    /\ UNCHANGED <<phase, unconnected, active, handlerVars, hubVars>>

\* The stream opens: what the ring still has of the events after
\* Last-Event-ID, the whole ring without one.  Which events of a new process
\* an id of the old one asks for is dts-common's choice.
Subscribe ==
    /\ ~connected
    /\ connected' = TRUE
    /\ unseen' \in IF unseen = Lost THEN 0..Len(ring)
                  ELSE IF unseen = Never THEN {Len(ring)}
                  ELSE {AtMost(unseen, Len(ring))}
    /\ UNCHANGED <<phase, adapterVars, handlerVars, ring, lastReady, ticks>>

NextEvent == ring[Len(ring) - unseen + 1]

Take ==
    /\ connected /\ unseen > 0
    /\ unseen' = unseen - 1
    /\ UNCHANGED <<phase, adapterVars, handlerVars, ring, lastReady, ticks,
                   connected>>

Hangup ==
    /\ connected
    /\ connected' = FALSE
    /\ UNCHANGED <<phase, adapterVars, handlerVars, ring, lastReady, ticks,
                   unseen>>

\* A crash, Application::stop, or the two seconds to become ready are over:
\* a new process, which remembers nothing.
Restart ==
    /\ phase' = "starting"
    /\ adapters' = [r \in Radios |-> FreshReport(DefaultList)]
    /\ unconnected' = Radios
    /\ active' = "none"
    /\ handler' = Idle /\ reply' = "none" /\ audit' = NoRecord
    /\ ring' = <<>> /\ lastReady' = NoReady /\ ticks' = 0
    /\ connected' = FALSE
    /\ unseen' = IF unseen = Never THEN Never ELSE Lost

-----------------------------------------------------------------------------

Startup ==
    \/ \E r \in Radios : ConnectRadio(r)
    \/ OpenGateway
    \/ PublishReady

Arrive ==
    \E q \in Posts :
        \/ GatewayRefuses(q)
        \/ SelectRadio(q)
        \/ OrchestratorRefuses(q)
        \/ CallAdapter(q)

Handle == AdapterReturns \/ PublishCommand \/ RecordCommand

Serve == Startup \/ Arrive \/ Handle \/ Beat \/ \E r \in Radios : GateOpens(r)

\* The subscriber's moves, Subscribe, Take and Hangup, are MonitorPage's.
Next == Serve \/ Restart

(***************************************************************************)
(* Fairness: the thread of the io_context runs on, adapters' calls return  *)
(* (CallsEnd of SilvusAdapter), timers fire.                               *)
(***************************************************************************)
Fairness ==
    /\ WF_vars(Startup)
    /\ WF_vars(Handle)
    /\ WF_vars(Beat)

Spec == Init /\ [][Next]_vars
FairSpec == Spec /\ Fairness
-----------------------------------------------------------------------------
(***************************************************************************)
(* What the service guarantees.                                            *)
(***************************************************************************)
Shows == {"online", "recovering", "offline"}
Views == [status : Shows, power : Int, freq : Nat]
Snapshots == [active : Radios \cup {"none"}, radios : [Radios -> Views]]
ReadyEvents == [tag : {"ready"}, snapshot : Snapshots]
Events ==
    {Heartbeat} \cup ReadyEvents
        \cup [tag : {"channelChanged"}, radio : Radios, chan : Nat, freq : Nat]
        \cup [tag : {"powerChanged"}, radio : Radios, power : Int]
        \cup [tag : {"state"}, radio : Radios, status : Shows, chan : Nat,
              power : Int, freq : Nat]

\* Among the rest: a command works on the frequency list its adapter has now,
\* and a subscriber never asks for more than the ring holds.
TypeOK ==
    /\ phase \in {"starting", "listening", "serving"}
    /\ DOMAIN adapters = Radios
    /\ \A r \in Radios :
          /\ Report(adapters[r])
          /\ adapters[r].channels \in {DefaultList, ProfileList}
    /\ unconnected \subseteq Radios
    /\ active \in Radios \cup {"none"}
    /\ handler \in [step : {"idle", "calling", "publishing", "recording"},
                    post : Posts \cup {NoPost}, arg : Int, list : Seq(Nat)]
    /\ handler.step # "idle" =>
          /\ handler.post.id \in Radios
          /\ handler.list = adapters[handler.post.id].channels
    /\ ring \in Seq(Events) /\ Len(ring) <= RingSize
    /\ lastReady \in {NoReady} \cup ReadyEvents
    /\ ticks \in 0..(ReadyPeriod - 1)
    /\ unseen \in {Lost, Never} \cup 0..(RingSize + 1)
    /\ connected => unseen \in 0..Len(ring)

StatesOf(r) ==
    {i \in DOMAIN ring : ring[i].tag = "state" /\ ring[i].radio = r}

LastOf(r) == {i \in StatesOf(r) : \A j \in StatesOf(r) : j <= i}

Tells(e, a) ==
    /\ e.status = Shown(a.status) /\ e.power = ShownPower(a.power)
    /\ e.chan = a.chan /\ e.freq = ShownFreq(a.channels, a.chan)

\* Nothing changes what GET /radios reports of a radio without a state event:
\* the last one is what the adapter reports, however many commands were
\* refused or failed since, except while a command is between the adapter's
\* return and its events.
LastStateIsCurrent ==
    \A r \in Radios :
        \/ handler.step = "publishing" /\ handler.post.id = r
        \/ \A i \in LastOf(r) : Tells(ring[i], adapters[r])

\* A command answered Ok is on record as Ok, and until the next command the
\* adapter reports what was asked for.
OkIsTrue ==
    reply = "Ok" =>
        /\ audit.code = "Ok" /\ audit.id \in Radios
        /\ audit.action = "selectRadio" => active = audit.id
        /\ audit.action = "setPower" => adapters[audit.id].power = audit.arg
        /\ audit.action = "setChannel" => adapters[audit.id].chan = audit.arg

\* The gate of a radio is shut only while it is shown as recovering, so a
\* command refused as Busy changes nothing a subscriber was told.
GateIsShown ==
    \A r \in Radios : adapters[r].gate = "shut" => adapters[r].status = "recovering"

\* The adapter has done what a command asked, and no record tells of it yet.
Owed == handler.step \in {"publishing", "recording"}
Setting(r) == <<adapters[r].power, adapters[r].chan>>

OkRecord(action, id, arg) == [action |-> action, id |-> id, arg |-> arg, code |-> "Ok"]

\* Nothing changes off the record, by a request the gateway or the
\* orchestrator refuses, one without authorisation or a command that fails:
\* the active radio changes with the record of its selection, a radio's power
\* and channel only under a command to that radio that then owes a record,
\* and a command that owes one goes on until it is written.  Only a process
\* that dies forgets.
ChangesAreRecorded ==
    [][phase' # "starting" =>
        /\ active' # active => audit' = OkRecord("selectRadio", active', 0)
        /\ \A r \in Radios :
              Setting(r)' # Setting(r) => Owed' /\ handler'.post.id = r
        /\ Owed =>
              \/ Owed' /\ handler'.post = handler.post /\ handler'.arg = handler.arg
              \/ audit' = OkRecord(Action(handler.post), handler.post.id, handler.arg)
      ]_vars

\* What adapters are called with.
AdapterArgs ==
    ({q.x : q \in Posts} \cap Nat)
        \cup {DefaultList[i] : i \in DOMAIN DefaultList}
        \cup {ProfileList[i] : i \in DOMAIN ProfileList}

Atomic(r) ==
    INSTANCE AtomicAdapter WITH
        report <- adapters[r], started <- r \notin unconnected, Args <- AdapterArgs

\* Every adapter is called the way IRadioAdapter wants it, through the startup,
\* the handlers and the restarts: connect() once and before anything else,
\* then one call at a time, and its report changes by nothing but those calls
\* and the clock of its gate.
AdaptersAreCalledInTurn ==
    /\ \A r \in Radios : Atomic(r)!Init
    /\ [][\A r \in Radios : [Atomic(r)!Next]_(Atomic(r)!atomicVars)]_vars

\* Heartbeats in the ring that no ready event follows.
BeatsSinceReady ==
    {i \in DOMAIN ring : /\ ring[i].tag = "heartbeat"
                         /\ \A j \in i..Len(ring) : ring[j].tag # "ready"}

\* What "re-emit ready every kReadyReemitPeriod heartbeats" is worth: whatever
\* commands push out of the ring, and whenever the first ready event came
\* between two heartbeats, a client never reads ReadyPeriod heartbeats in a
\* row without a ready event among or behind them.
ReadyAmongBeats == phase = "serving" => Cardinality(BeatsSinceReady) < ReadyPeriod

\* Every POST that reaches an adapter is answered, or the process dies.
HandlerEnds == handler.step # "idle" ~> handler.step = "idle"

HasReady == \E i \in DOMAIN ring : ring[i].tag = "ready"

\* However many commands flood the ring, a ready event gets into it again and
\* again as long as the service runs.
ReadyReturns == []<>(HasReady \/ phase # "serving")

(***************************************************************************)
(* What the documents and comments say and the code does not keep.         *)
(***************************************************************************)

\* "Emitted once per connection with a snapshot of current state": no ready
\* event tells of a state that is over when it is published.
ReadyIsCurrent ==
    [][HasReady' /\ ring'[Len(ring')].tag = "ready" /\ ring' # ring
        => ring'[Len(ring')].snapshot = Snapshot]_vars
=============================================================================
