# Verification of radio-control

TLA+ modules, TLC configurations and TLAPS proofs for the radio-control container: the service that drives
Silvus StreamCaster radios over JSON-RPC, tells browsers about them over server-sent events, and the mock radio it
is tested with. Paths below are relative to the repository.

## 1. The system

| Component | State it keeps | Operations | Talks to |
|---|---|---|---|
| `SilvusAdapter` (`rcc/src/adapter`) | `state_` (status, channel index, power), `capabilities_` (frequencies, mode), `recovering_until_`, all behind `mutex_` | `connect`, `set_power`, `set_channel`, `refresh_state`, `state`, `capabilities` | the radio, by blocking HTTP posts with a 3 s deadline |
| mock radio (`silvus-mock`) | frequency, power, max-power mode, `blackout_until_` | JSON-RPC methods; maintenance methods on a second port | anyone who connects |
| `Orchestrator` (`rcc/src/command`) | none | `selectRadio`, `setPower`, `setChannel` | adapter, hub, audit log |
| `RadioManager` (`rcc/src/radio`) | adapters by id, active radio | `start`, `set_active_radio`, lookups | adapters |
| `TelemetryHub` (`rcc/src/telemetry`) | ring buffer, last ready payload, heartbeat count | publish ready / state / channel / power / fault, heartbeat timer, `stop` | subscribers |
| `AuditLogger` (`rcc/src/audit`) | the log file | `record` | file (dts-common) |
| `ApiGateway` (`rcc/src/api`) | none | routes; the POST handlers check ranges before the orchestrator does | orchestrator, radio manager |
| monitor page (`rcc/include/rcc/api/monitor_page.hpp`) | `radiosCache`, `activeRadioId`, `lastEventId` (in localStorage) | `loadRadios`, `connectSse`, `applyTelemetryEvent`, posts | gateway and event stream, on separate connections |
| `Application` (`rcc/src/core`) | the parts above, the io_context and its one thread | `initialize`, `start`, readiness check, `stop` (twice: the runner's and the destructor's) | all |
| `ConfigManager` (`rcc/src/config`) | the configuration | `load` at the start | every part is built from it |
| `Authenticator` (`rcc/src/auth`) | secret, roles list, anonymous access | `authorize` | gateway |
| dts-common | – | servers, event bus, ring buffer, logger | a submodule that is not in the repository |

What makes it hard: an operation of the adapter is two or three exchanges, each of which can be lost before or after
the radio carried it out; the radio reboots after each frequency change, on its own clock; others change the radio
between two exchanges; the service forgets everything when it restarts while the radio does not; the hub repeats an old
snapshot into a bounded ring; the page is fed by two connections that overtake each other, with a resume id that
outlives the service's process; the main thread stops the parts while the thread of the io_context may be in any
handler, and waits for one of them. Every hazard found is listed at its line in `PROJECT.json` with the properties that
watch it.

What makes each part correct: the adapter never contradicts the radio on what it had a chance to know, sends nothing
into a reboot it knows of, and always returns; the service never answers Ok for what is not so, and tells every change
of a radio in an event; the page, when it has taken every event, shows what the service reports; the process announces
ready only when it can be reached where it says, keeps its heartbeat, and stops without leaving anything behind.

## 2. The modules

| Module | What it is |
|---|---|
| `SilvusRadio` | the radio: requests, replies, one action per method |
| `RadioAdapter` | values an adapter reports and what each operation may do to them, as relations; no variables |
| `AdapterContract` | abstract specification: a state machine of those relations |
| `AtomicAdapter` | abstract specification of the contract: an adapter to a caller that waits, each call one step |
| `SilvusAdapter` | the adapter on top of `SilvusRadio`; implements `AdapterContract` (`Promise`) |
| `RadioService` | application start, gateway, orchestrator, radio manager, hub, audit log, over adapters that are known by `RadioAdapter` only |
| `MonitorPage` | the page in a browser, composed with `RadioService` |
| `PageControls` | what the operator of the page sees and picks, over `MonitorPage` |
| `Configuration` | operators: what a document means - defaults and old names, validity, ports, radios, tokens and who is let in |
| `ServiceLife` | abstract specification: the life of a process, as `RadioService` takes it for granted |
| `Application` | start, io_context, timers and stop of one process, over `Configuration`; implements `ServiceLife` (`LifePromise`) |
| `SilvusAdapter_proofs`, `SilvusRefinement_proofs`, `AdapterCalls_proofs`, `RadioService_proofs`, `MonitorPage_proofs`, `PageControls_proofs`, `Configuration_proofs`, `Application_proofs` | theorems |
| `MCSilvusAdapter`, `MCRadioService`, `MCMonitorPage`, `MCPageControls`, `MCApplication` | small instances for TLC |

The chain is: the adapter with the radio and the link implements `AdapterContract`, whose calls begin, let what they
learn be seen, and end; the contract implements `AtomicAdapter`, whose calls are one step; the relations of those steps
are the only thing `RadioService` assumes of adapters, and it calls every one of them the way `AtomicAdapter` asks
(`AdaptersAreCalledInTurn`). `MonitorPage` is composed with all of `RadioService`. On the other side
`Application` implements `ServiceLife`, which states what `RadioService` assumes of the process around it: `Startup`
connects before commands are accepted, `ready` is announced once and between two commands, one command at a time.
`RadioService` itself takes no advantage of all of it: it lets `ready` come in the middle of a command and the process
end at any moment, so that what is proved of it holds of every life `ServiceLife` allows.

### SilvusAdapter and SilvusRadio

A deadline of the code (`recovering_until_`, `blackout_until_`) is the time left until it (`window`, `blackout`); `Tick`
counts both down. `call` is the operation holding `mutex_`; `rpc` the exchange under way; `outcome` the last result.
Each operation is split at its exchanges: `SetPowerBegin`, `SetPowerProbed`, `SetPowerDone` / `SetPowerFailed` are the
code of `set_power` before the mode probe, between probe and write, and after the write. `Free` marks the moments at
which `state()` and `capabilities()` can run. The link loses replies (`TimeOut`), leaves a write behind that is served
later (`stray`), or garbles them (`Garble`); `Maintain` is anybody on the maintenance port; `Restart` is a new process.
Powers are tenths of a dBm: the code compares watts, which grow with them, and rounds dBm for the wire (`WireDbm`).

Two history variables say what the adapter had a chance to know: `doubt` holds the fields of which it has no way of
knowing (a write whose answer was lost, a change by others) until it learns them again; `disturbed` the ones changed by
others since the call began. They never enter a guard.

### RadioService

A handler is split where the process may die or a heartbeat may come between: the call of the adapter (`CallAdapter`,
`AdapterReturns`), the events (`PublishCommand`), the record and the answer (`RecordCommand`). Which thread runs the
handlers is decided in dts-common, so heartbeats may fall between any two of these; only one handler runs at a time,
because the service runs its io_context on one thread. Everything a handler does before the adapter's call is one
action, as is the whole of a request that never gets there. `ring` is dts-common's ring buffer, of which only "keeps the
last `RingSize` events" is used. The adapter's mode (`manual`) is only passed on by the service and is kept constant.
Authorisation arrives with the request as a grant. `AtomicAdapter` is instantiated once per radio, with `started` as "the
manager has come to this radio", which is how the gateway's opening and `connect` are tied together.

### MonitorPage and PageControls

`unseen` of `RadioService` is `lastEventId` seen from the other end: how many events of the ring the page has not
taken. After a restart of the service an id of the old process may resume anywhere (`Lost`). `answers` are answers of
`GET /radios` on their way, of which the browser may have got one when the process that made it ends. `stale` is a
history variable: the radios of which the page may be behind for good, because what it applied last was a ready event,
an answer that a command's events had overtaken, or a stream with a gap. These are consequences of the design (see the
findings), and `PageAgrees` says there are no others.

`PageControls` adds the radio dropdown (`selected`), what `renderRadioState` has written (`panel`) and the channel
dropdown (`choice`); `RefreshDropdown` and `Render` are the functions of the page, and each step that arrives at the page
carries those the code calls with it. `picked` is a history variable: the operator has picked a channel since the last
rendering. Every event, a heartbeat too, takes the pick back, so what counts is what stands there instead
(`PresetIsCurrent`). The buttons' POSTs are among `Posts`: `setChannel` and `setPower` change nothing on the page but
asking for the radios again.

### Configuration and Application

A document is a record; `Parse` and `Valid` are `parseConfig` with its defaults, its old key names and its exceptions. A
scalar that may be missing is a set of at most one value. `Loaded` is the catalog after each entry, like the loop of
`load_from_config`, and `Catalog` the last of them; it is a recursive function, about which can be proved. `SsePort`
(what the hub binds) and `Announced` (what discovery tells) are two copies of one expression in the code and two
definitions here; so are the secrets of the authenticator, the event stream and `/dev-token`.

In `Application` the main thread is a program counter `main`; the io_context is a queue of handlers and one thread. The
queue carries the mark `"poll"`: like asio's task operation it comes round once with the handlers that were there, and
what the thread finds when it gets to it, commands and expired timers, goes behind what has been posted meanwhile. So a
timer that expires while a command runs may find the cancellation of `stop()` ahead of it: `cancel()` does not reach its
handler any more, and the handler runs in the hub after `stop()` has returned, reads the flag and ends. The strand is
there too: between the posting of the cancellation and its turn a heartbeat's handler waits behind it (`BeatWaits`).
A server is bound to the port it asks for, or to any free one when it asks for 0 (`Bindable`, `FreePorts`), which is
not always what discovery tells. A handler is split where it reads the flag
`heartbeatStopped_` or could be overtaken by the main thread: `Schedule` reads it, `Arm` arms the timer; `Check` looks
at the servers, `PublishReady` publishes. `StopCheck` is `cancelHeartbeatTimer`: it cancels at once when the io_context
has stopped, else posts `cancel` and waits. `ServiceRunner` is dts-common's: the code does not say on which thread it
calls `stop`, so all three ways are modelled (`Stoppers`): beside the running io_context, after it has been stopped,
and inside it. Its destructor path is `RunReturns`, after which `stop` runs again. A command is a handler that holds
the thread for up to `Busy` ticks; what it does is `RadioService`. A tick is one second, so the readiness check looks
again after one tick where the code waits 50 ms, and gives up after `Patience` (the code: 2 s).

## 3. The runs

| Run | Question | Result |
|---|---|---|
| `AdapterLink` | all operations; link that loses, delays, garbles; restarts | holds: types, wire power, window covers the reboot, channel agrees, status tracks the window, nothing sent into a known reboot, calls end, `Promise` |
| `AdapterMaintenance` | all operations; others switch the mode, retune, reset, zeroize at any moment | holds: channel, power and mode agree, window covers the reboot |
| `ServiceCommands` | two radios, every kind of request, failing adapters, heartbeats, restarts | holds: types, events current, Ok is true, nothing changes off the record, adapters called in turn, no `ReadyPeriod` heartbeats in a row without a ready event, handlers end, ready returns |
| `PageCache` | answers, events, reconnections, reloads, restarts, picks | holds: the page agrees, the screen shows what the page holds, the channel offered is the current one |
| `Application` | every document, failing servers, three clients, three ways to stop | holds: types, one heartbeat, hub silent and nothing published after the stop, gap between heartbeats, ready tells the truth about the bound ports, development token opens, a higher scope opens what a lower one does, radios as configured, `LifePromise`, readiness is decided, stop returns |
| `AdapterRecoveringGate` | "While recovering, do not dispatch new control commands" | violated: a frequency write whose answer is lost opens no window |
| `AdapterRecoveryBounded` | "bounded recovery periods" | violated: the status stays recovering until a later command succeeds |
| `AdapterMaxPower` | a power that was applied can be told from one the radio ignored | violated: mode switched on between probe and write |
| `AdapterCeiling` | values outside the license profile are rejected | violated: 28.6 dBm is allowed and goes out as 29 |
| `ServiceReady` | ready carries "a snapshot of current state" | violated: the snapshot of the start is repeated |
| `PageShownChannel` | "display `frequencyMhz` as authoritative" | violated: a repeated ready changes the frequency under an old index |
| `ApplicationAccess` | "`controller`: all `viewer` privileges plus control actions" | violated: with the roles list `["controller"]` who may command may not look |

A violated run states what a document or comment says of the program, and TLC's trace shows the code doing otherwise;
`PROJECT.json` quotes each line under "findings". For each property of a passing run there is a mutant, an operator
named `..._Mutant` before the one it changes, that carries a plausible slip (a missing gate, a value not stored, a
window one tick short); the property fails with it. Mutants are not part of any specification.

### Bounds, and why they are enough

- Times: soft boot and window 2 ticks, reset 3. Equal windows with at least one tick inside and a reset longer than the
  window are the cases that matter; the theorem needs only `SoftBoot <= RecoveryWindow`.
- Frequencies: two channels, one frequency only in the default list, one factory frequency that is no channel.
  `AdapterLink` asks for a channel by index and frequency, for one only the default list has, and for one without an
  index; for the ceiling of 28.6 dBm, which is no whole number, and for a power above it. An ordinary power and both
  channels of the radio are in `AdapterMaintenance`.
- `MaxStray = 1`: one request given up on and served later. A second one adds no new kind of disturbance, and the
  theorems have no such bound.
- Two radios in `ServiceCommands`: enough for events of one radio to fall between those of the other. Requests cover
  every branch of the gateway and of the orchestrator. With `RingSize = 3` two commands, or
  one and a heartbeat, push the ready event out; `ReadyPeriod = 2` distinguishes heartbeats with and without it. The
  code's values are 512 and 12. The adapters' default list is the advertised one in this run, so that `connect` has
  fewer outcomes; in `ServiceReady` the lists differ, and the theorems hold for any two lists.
- `unseen` ends at one more than the ring holds; a subscriber about to lag further loses its stream first. How far
  a slow subscriber may lag is dts-common's choice; on reconnection it gets what the ring has.
- `PageCache`: one radio with both kinds of command, `MaxAnswers = 1`, `ReadyPeriod = 1`, and `RingSize = 2`, so that
  the two events of one command fill the ring and a stream has a gap after two commands. Its VIEW `ButReplies` leaves
  out the last answer and its record, which no guard and no property of that run reads. Two constraints keep it at 335
  thousand states: `CommandsAfterReady`, no command before the first ready event (`ServiceCommands` has those), and
  `OneOvertakes`, an answer that one command has overtaken arrives before the next command calls its adapter (a second
  one could not make it staler). All properties of the run are also proved, without these bounds and for any number of
  radios.
- `Application`: three clients and two ticks are the least with which `HeartbeatGap` can tell "less than two rounds of
  all clients" from one round; the bound is reached up to one tick. Intervals are 1 and 2 ticks, shorter and longer
  than a command. The documents of `MCApplication` differ where the code does: each way to give or not give a port, with
  65535 as the one that wraps, 0 as the one that asks for any, and a port of the event stream that is the gateway's;
  duplicate, foreign and unlimited
  radios; each kind of secret, roles list and anonymous access; every reason to refuse a document. `FreePorts` are two,
  so that two servers may both ask for any, one of them a port a document names (65535). `ApplicationAccess` asks about
  documents only and has one way to stop, one client and commands that take no time.

### Fairness

- `WF(Continue)`: a thread inside an operation runs on. `WF(RadioServes \/ TimeOut)`: an exchange ends, by an answer or
  because `expires_after(3 s)` closes the stream. `WF(Tick)`: time passes. Callers, maintenance and faults are not fair.
- In `RadioService`: `WF(Startup)`, `WF(Handle)`, the thread runs on and adapters return (`CallsEnd` of the adapter is
  why); `WF(Beat)`, the timer fires. Requests and restarts are not fair.
- In `Application`: `WF(Start)`, `WF(Stop)`, `WF(Handle)`, `WF(RunnerStarts)`: both threads run on; `WF(Poll /\ (Due #
  <<>> \/ Tail(queue) # <<>>))`: the thread comes to the mark in every round, and an expired timer wakes it;
  `SF(Tick)`, because time passes also when handlers take none and keep coming between two ticks; `SF(StopBegins /\
  ready = "gave_up")`: a runner that was asked to stop does so at some moment between two handlers. Clients and signals
  are not fair.
- `PageSpec` and `ControlsSpec` have no fairness; they are checked for safety only.

## 4. The proofs

All theorems hold for every value of the constants under the modules' named assumptions: sequences of non-zero
frequencies, natural powers and times, `SoftBoot <= RecoveryWindow` (the code uses 30 s on both sides), and for
`RadioService` that no frequency is in a list twice (two equal channels would make an index ambiguous), a ring of at
least two events, and that no radio is called "none"; for `Application`, that a valid document gives a positive
heartbeat interval and 16 bit ports, that its radios are a list, and that the ports the system hands out are ports. The
parser refuses a `heartbeat_interval_sec` that is not positive; that the shared loader does so with the old name
`heartbeatIntervalSec` is an assumption about dts-common.

**SilvusAdapter_proofs** – `TypeCorrect`, `ChannelIsTrue`, `PowerIsTrue`, `ModeIsTrue`, `WindowIsSound`,
`WindowIsShown`, `WireRange`, `GateHolds`.
The published properties speak of `Free` moments and are not inductive. `IInv` adds what is true inside a call: which
request may be out for which operation (`CallOK`), that an answer is still true of the radio unless somebody disturbed
it (`ReplyOK`), that the radio was alive when it answered an earlier request of the call (`AliveOK`), and weakens the
agreement while a write's answer is unread (`Unsure`). `GateHolds` follows because a call is entered with `window = 0`,
which `BootOK` turns into "not in a known reboot" for all its requests.

**SilvusRefinement_proofs** – `KeepsPromise`: `Spec => Promise`; `SilvusIsAtomic`, the chain to `AtomicAdapter`. Every
step maps to `Begin`, `Refuse`, `Work`, `End`, `GateOpens`, `Crash` or a stutter. `IInv` is needed for the channel
index of the report and for the closed window at the start of `connect`. `SilvusIsAtomic` adds the history variable of
`AdapterCalls_proofs` (next) to the adapter (`KeepingSpec`) and follows from `KeepsPromise` and `CallsAreSteps`.

**AdapterCalls_proofs** – `WholeCalls`, `CallsAreSteps`: `CallsSpec => Atomic!Spec`. The contract lets a call store what
it learns before it ends, and a caller that asks `state()` meanwhile sees it; `RadioService` takes a call for one step.
A history variable `before` keeps the report a call began with; the invariant says that a call under way was begun with
the gate open and in its turn, and that what it has stored is no more than it may leave behind when it fails (`May`).
So the effect of its end, seen from its beginning, is the effect of the whole call (`WholeEffect`), and with "`before`
while a call is under way, else `report`" for the report each `End` is an atomic call, each `Work` a stutter. Nothing is
assumed of the constants.

**RadioService_proofs** – `TypeCorrect`, `EventsAreCurrent`, `OkHolds`, `ReadyComesBack`, and two action properties:
`NothingOffTheRecord` and `CalledInTurn`. `IInv` adds that nothing is handled or told before the radios are connected
(`PhaseOK`), that a command carries a power or an index of the list it looked up (`HandlerOK`, from the gateway's
checks), that the adapter reports what was asked for once it returned Ok (`DoneOK`), and `GateIsShown`: a shut gate is
shown as recovering, which is why a command refused as Busy changes nothing a subscriber was told. Two lemmas say what
`Publish` does to the last word on a radio in the bounded ring. `NothingOffTheRecord` says that the active radio, a
power or a channel changes only with, or under a command that then owes, a record: a call that fails or is refused
leaves both settings as they were (`CallEffect`), and a handler whose adapter has returned is left by nothing but its
own next step, because requests are taken one at a time. `CalledInTurn` needs one more invariant, `CallsOK`: once the
gateway is open no radio is unconnected, and a power is what the request said. `ReadyComesBack` is the safety half of
`ReadyReturns`, for a ring of any size and any period: the heartbeats in the ring that no ready event follows are never
more than the heartbeat counter says (`BeatOK`). A publication shifts the ring (`ShiftedRing`), so that the heartbeats
of the old ring that still count are, by an injection, no more than before (`OldBeats`); a command's events add none
(`NoNewBeat`), a heartbeat adds one and the counter one (`OneNewBeat`), and a ready event at the end leaves none
(`ReadyIsLast`). The bound depends on the ready event going out behind its heartbeat, in the order of the code, and not
on the time the counter had when the first one went out: a counter in the middle of its period makes the first
repetition come early, never late.

**MonitorPage_proofs** – `PageIsRight`, `PagesOnlyRead`, and `GuaranteesStand`, `RecordsStand`, `CallsStand`. `PageInv`
takes `IInv` of `RadioService` and adds `BehindOK`: as long as the ring holds all the page has not taken, the page
agrees with the adapter of a radio that is not in `stale`, or a state event of the radio is still pending, or a command
of it is about to be told; `AnswersOK`: an answer no command has overtaken is true of the adapters; `FollowOK`: in the
ring each change event is followed by the state event of its command, which is why a page that took the first only is
not done; `StartOK`: a process that has not opened its gateway has told nothing, and what still arrives is an answer of
the process before. When a page has taken everything, the last two cases of `BehindOK` are empty. The other theorems
carry what `RadioService` guarantees over to the composition. `RadioService`'s own steps leave its subscriber alone;
`MonitorPage` adds the subscriber's. `PagesOnlyRead` says that each of these leaves everything else of the service as
it was (`servedVars`), whatever the page asks for, breaks off or resumes. So every step of the composition is a step of
the service or none to it, the invariants hold with a page too (`GuaranteesStand`), and so do the action properties
(`RecordsStand`) and the way adapters are called (`CallsStand`). With `ControlsOnlyWatch` they hold with an operator at
the page as well.

**PageControls_proofs** – `ControlsOnlyWatch` (`ControlsSpec => PageSpec`), `ScreenIsRight`, `PresetIsRight`. Every
step that changes the cache ends in a rendering, so `ScreenIsCache` is inductive together with "a channel nobody picked
is the preset one"; with `PageAgrees`, which `ControlsOnlyWatch` carries over, the preset channel is the radio's.

**Configuration_proofs** – `CatalogOfDocument`: whatever list of entries a document has, the catalog holds the ids of the
supported ones, each with the limits of its first entry. This is an induction over the entries. The induction theorems
of the library take an operator as a parameter, which the provers here cannot instantiate; `SetInduction` derives the
rule for a set of numbers from `WFMin` (a non-empty set has a least element) instead, and with it the existence of
the recursive function `Loaded` and what it has after each entry are proved.

**Application_proofs** – `TypeCorrect`, `SilentAfterStop`, `NothingLate`, `HeartbeatIsOne`, `HeartbeatInTime`,
`ReadyIsTrue`, `DevTokenIsGood`, `AccessOrdered`, `RadiosServed` (from `CatalogOfDocument`), and the refinement
`LifeKept`: `Spec => LifePromise`. The inductive invariant comes in layers, each preserved given those before it.
`BootOK`: what has not been started cannot be running. `StopOK`: the gateway has been closed and the flag set before
the main thread waits (`ClosedOK`), so that no command can come any more and no handler arms the timer anew; `cancel`
is in the queue only while it waits, and behind it come at most the mark of the round, an expired heartbeat and a
readiness check (`WaitOK`, `Harmless`). From then on the timer is off, no handler is under way, and these are all the
thread can come to: the heartbeat reads the flag, the check fails (`AfterOK`), so nothing publishes to the bus that is
closed next (`BusOK`), and the thread has ended before the process is gone (`RoundOK`). `BeatOK` and `CheckOK`:
heartbeat and readiness check are each at one of their places; `HeartbeatIsOne` counts them. `PortsOK`, `CommandOK`:
what listens does so until it is stopped, on the port it asked for unless that was 0 and never on the other's, and a
command has come through a listening gateway. Together they map every step to one of `ServiceLife` or a stutter.
`GapOK` is what `HeartbeatInTime` needs: there is one mark, and behind it are no commands and no expired heartbeat
(`AheadOfMark`), so that the thread has done with all of them when it polls again; the commands that wait stand in a
row of `k`, with the one under way no more than the clients (`CommandsWait`); and at each of its places the heartbeat
has the time gone by, the rest of the command under way and the `k` commands still to come within its bound (`InTime`):
within one round of all clients while its timer has expired and nobody has looked at it, within two once it is posted.
A tick moves time from the second term to the first, the end of a command the last to the second, and a poll starts the
next round.

Only model-checked: the liveness properties (`CallsEnd`, `HandlerEnds`, `ReadyReturns`, `ReadinessIsDecided`,
`StopReturns`), which need fairness and ENABLED. Every invariant and every action property or refinement that a passing
run checks is also a theorem.

## 5. What is not modelled

- Service discovery: the responder and the listener start and stop with the process and touch no state of it; of them
  only the ports that are told are modelled. The mDNS or UDP exchange is dts-common.
- `ConfigManager::reload` has no caller in the program; the sections for audit, discovery and the container are copied
  through and not looked at. `event_buffer_size` is read and not checked, so that `RadioService`'s ring of at least two
  events is an assumption about the document and not something the parser enforces.
- Formatting and parsing of YAML, JSON, HTTP and URLs; watts as such; log texts; the page's
  consoles and tokens, and what the answer of its select button does to `activeRadioId`.
- Signatures of tokens: a token is the secret it was signed with. Expiry and the order of scopes are dts-common.
- Retention of the ring by age, rate limits, the SSE and REST servers: dts-common.
- `publishFault` has no caller. `refresh_state` has no caller either but is modelled, being part of the interface.
- Two streams of one page at once: the browser makes the read of an aborted stream fail, so its loop ends first.
- The mock's link-distance and GPS methods, which the adapter does not use, and its web page and servers.
- `/api/v1/health` and the single-radio reads of the gateway, which read what `GET /radios` reads.

What the models show beside the findings, for whoever reads the code next:

- `stop()` called by a handler of the io_context itself would wait for ever: `StopReturns` excludes that way. Which
  way the runner takes is dts-common's.
- `stop()` may return with the handler of an expired heartbeat still queued. It reads the flag of the hub and returns;
  the hub is still there, because the runner ends the io_context before `~Application` is reached.
- The comment at `telemetry_hub.cpp:153-155` has late joiners "always find one in the" ring. Commands between two
  repetitions can push the last ready event out of it (in `ServiceCommands` two commands do), and a client that joins
  then finds none until the next one: `ReadyReturns` and `ReadyAmongBeats` say what does hold.
- `command_port` 0 is accepted and makes the gateway listen on any free port while discovery tells port 0; the same
  becomes of the event stream with `command_port` 65535 and no `sse_port`.
- A heartbeat may be late by almost two rounds of commands of all clients, each up to three exchanges long, which is
  more than the jitter in `docs/cb-timing-v0.3-provisional-edge-power.md:45`.
- The audit record of a request for an unknown radio says InternalError.

## 6. Plan

Done in this order: `SilvusRadio` and `SilvusAdapter` with its runs and proofs; the contract and its refinement;
`RadioService` with runs and proofs; `MonitorPage` and `PageControls` with run and proofs; `Configuration`,
`ServiceLife` and `Application` with run and proofs.

Left: `PageControls`' select button and its answer with two radios, on a service small enough for it, and the page's
token.
