---------------------------- MODULE SilvusAdapter ----------------------------
(***************************************************************************)
(* SilvusAdapter: one radio behind one mutex.  Every public operation      *)
(* takes mutex_ for its whole length, so between the first request of a    *)
(* call and its return no other call runs and nobody reads state() or      *)
(* capabilities(): `call` is the operation that holds the mutex.  Within a *)
(* call each sendHttpPost is an exchange of its own: the request goes out, *)
(* the radio serves it, the reply is read -- or the 3 s deadline of the    *)
(* stream passes first, and then the radio may have served the request,    *)
(* may serve it later (`stray`) or may never see it.  The radio has other  *)
(* masters: whoever is on its maintenance port or web page.                *)
(*                                                                         *)
(* Powers are in tenths of a dBm (the code compares watts, which grow with *)
(* them); what goes over the wire is whole dBm.                            *)
(***************************************************************************)
EXTENDS SilvusRadio, RadioAdapter, FiniteSets

CONSTANTS
    DefaultList,      \* capabilities_ before the radio was asked
    ProfileList,      \* what parseSupportedFrequencies makes of the answer
    MinPower,         \* configured (or vendor) power range, tenths of dBm
    MaxPower,
    RecoveryWindow,   \* soft_boot_recovery_duration_
    Ops,              \* operations callers use, of SilvusOps
    ChannelRequests,  \* <<channel_index, frequency_mhz>> callers pass
    PowerRequests,    \* powers callers pass
    Faults,           \* of {"timeout", "stray", "garble", "restart"}
    MaxStray,         \* bound on the requests given up on and not served yet
    Maintenance       \* requests that reach the radio from elsewhere

ASSUME AdapterAssumption ==
    /\ DefaultList \in Seq(Nat \ {0}) /\ DefaultList # <<>>
    /\ ProfileList \in Seq(Nat \ {0})
    /\ MinPower \in Nat /\ MaxPower \in Nat
    /\ RecoveryWindow \in Nat \ {0} /\ SoftBoot <= RecoveryWindow
    /\ Ops \subseteq SilvusOps
    /\ ChannelRequests \subseteq Int \X Nat
    /\ PowerRequests \subseteq Nat
    /\ Maintenance \subseteq Requests
    /\ MaxStray \in Nat

VARIABLES
    channels,     \* capabilities_.supported_frequencies_mhz
    manual,       \* capabilities_.manual_power_control_available
    power,        \* state_.power_watts
    chan,         \* state_.channel_index, 0 when empty
    status,       \* state_.status
    window,       \* time left until recovering_until_
    started,      \* RadioManager::start has made its one call of connect()
    call,         \* the operation that holds mutex_
    outcome,      \* the code the last operation returned
    rpc,          \* the exchange under way
    stray,        \* writes given up on that the radio may still serve
    doubt,        \* history: fields the adapter has no way of knowing
    disturbed     \* history: fields others changed since the call began

adapterVars == <<channels, manual, power, chan, status, window, started>>
callVars == <<call, outcome, rpc, stray>>
historyVars == <<doubt, disturbed>>
vars == <<radioVars, adapterVars, callVars, historyVars>>

Fields == {"freq", "power", "max", "boot"}

NoCall == [op |-> "none", arg |-> 0]
NoRpc == [phase |-> "idle", req |-> Request("profiles", 0),
          reply |-> Plain("lost")]

Free == call.op = "none"

-----------------------------------------------------------------------------
(* Pure helpers of the adapter.                                            *)

\* How a call that cannot go on reports the reply it got.
CodeOf(reply) ==
    IF reply.kind \in {"lost", "unavailable"} THEN "Unavailable"
    ELSE IF reply.kind = "garbled" THEN "InternalError"
    ELSE IF reply.kind = "invalid_range" THEN "InvalidRange"
    ELSE "Ok"

Good(reply) == CodeOf(reply) = "Ok"

(***************************************************************************)
(* The fields of the adapter's picture of the radio that a request touches *)
(* when the radio serves it.                                               *)
(***************************************************************************)
Touches(q) ==
    {f \in Fields :
        \/ f = "freq" /\ q.method \in {"freq", "zeroize", "factory_reset"}
        \/ f = "power" /\ q.method \in {"power_dBm", "zeroize", "factory_reset"}
        \/ f = "max" /\ q.method \in {"enable_max_power", "zeroize",
                                      "factory_reset"}
        \/ f = "boot" /\ q.method \in {"freq", "radio_reset"}}

\* What is left of them when the radio refuses the request.
Hits(q) == IF Available THEN Touches(q) ELSE {}

\* The doubt left once the adapter has learnt the fields S from the radio in
\* this call: what others changed meanwhile stays in doubt.
Settled(S) == (doubt \ S) \cup (disturbed \cap S)

-----------------------------------------------------------------------------

TypeOK ==
    /\ RadioTypeOK
    /\ channels \in {DefaultList, ProfileList} /\ channels # <<>>
    /\ manual \in BOOLEAN
    /\ power \in Nat \cup {Unset}
    /\ chan \in 0..Len(channels)
    /\ status \in Statuses
    /\ window \in Nat
    /\ started \in BOOLEAN
    /\ call \in [op : SilvusOps \cup {"none", "connect"}, arg : Nat]
    /\ outcome \in Codes
    /\ rpc \in [phase : {"idle", "sent", "answered"},
                req : Requests, reply : Replies]
    /\ stray \subseteq Requests
    /\ doubt \subseteq Fields
    /\ disturbed \subseteq Fields

AdapterInit ==
    /\ channels = DefaultList
    /\ manual = TRUE
    /\ power = Unset
    /\ chan = 0
    /\ status = "offline"
    /\ window = 0
    /\ started = FALSE

Init ==
    /\ RadioInit
    /\ AdapterInit
    /\ call = NoCall /\ outcome = "none" /\ rpc = NoRpc
    /\ stray = {}
    /\ doubt = {} /\ disturbed = {}

-----------------------------------------------------------------------------
(* Steps shared by the operations.                                         *)

\* sendHttpPost: the request leaves.
Send(q) == rpc' = [phase |-> "sent", req |-> q, reply |-> Plain("lost")]

\* sendHttpPost has returned, with a reply to method m or with nullopt.
Answered(op, m) ==
    call.op = op /\ rpc.phase = "answered" /\ rpc.req.method = m

\* A call passes its early checks and makes its first request.
Enter(op, arg, q) ==
    /\ call' = [op |-> op, arg |-> arg]
    /\ outcome' = "none"
    /\ Send(q)
    /\ UNCHANGED <<stray, historyVars>>

\* A call goes on to its next request.
GoOn(q) == Send(q) /\ UNCHANGED <<call, outcome, stray, disturbed>>

Return(code) ==
    /\ call' = NoCall
    /\ outcome' = code
    /\ rpc' = NoRpc
    /\ disturbed' = {}
    /\ UNCHANGED stray

\* An early return, before any request.
Refuse(code) ==
    /\ outcome' = code
    /\ UNCHANGED <<call, rpc, stray, historyVars>>

\* The call ends because of the reply.  If the request was a write and the
\* reply is unreadable, nobody on this side knows whether it took effect.
Fail ==
    /\ ~Good(rpc.reply)
    /\ Return(CodeOf(rpc.reply))
    /\ doubt' = IF rpc.reply.kind \in {"lost", "garbled"}
                THEN doubt \cup Touches(rpc.req) ELSE doubt
    /\ UNCHANGED radioVars

\* readEnableMaxPower: anything but a readable answer keeps what is cached.
Probed == rpc.reply.kind = "value"

\* Mutant: the probe is not recorded.
ManualNow_Mutant == manual

ManualNow == IF Probed THEN rpc.reply.val = 0 ELSE manual

(***************************************************************************)
(* connect()                                                               *)
(***************************************************************************)
ConnectBegin ==
    /\ Free /\ ~started
    /\ Enter("connect", 0, Request("profiles", 0))
    /\ UNCHANGED <<radioVars, adapterVars>>

ConnectFailed ==
    /\ Answered("connect", "profiles")
    /\ Fail
    /\ started' = TRUE
    /\ UNCHANGED <<channels, manual, power, chan, status, window>>

ConnectProfiles ==
    /\ Answered("connect", "profiles")
    /\ Good(rpc.reply)
    /\ channels' = IF rpc.reply.kind = "value" /\ ProfileList # <<>>
                   THEN ProfileList ELSE channels
    /\ GoOn(Request("read_max", 0))
    /\ UNCHANGED <<radioVars, manual, power, chan, status, window, started,
                   doubt>>

ConnectFinished ==
    /\ Answered("connect", "read_max")
    /\ manual' = ManualNow
    /\ window' = 0
    /\ status' = "ready"
    /\ started' = TRUE
    /\ Return("Ok")
    /\ doubt' = Settled({"boot"} \cup IF Probed THEN {"max"} ELSE {})
    /\ UNCHANGED <<radioVars, channels, power, chan>>

(***************************************************************************)
(* set_power(watts)                                                        *)
(***************************************************************************)
Idle(op) == Free /\ started /\ op \in Ops

\* Mutant: the refusal closes the window it found open.
RefuseRecovering_Mutant(op) ==
    /\ Idle(op)
    /\ window > 0
    /\ status' = "recovering"
    /\ window' = 0
    /\ Refuse("Busy")
    /\ UNCHANGED <<radioVars, channels, manual, power, chan, started>>

\* The gate of set_power, set_channel and refresh_state.
RefuseRecovering(op) ==
    /\ Idle(op)
    /\ window > 0
    /\ status' = "recovering"
    /\ Refuse("Busy")
    /\ UNCHANGED <<radioVars, channels, manual, power, chan, window, started>>

\* Mutant: no gate.
SetPowerBegin_Mutant(p) ==
    /\ Idle("set_power")
    /\ Enter("set_power", p, Request("read_max", 0))
    /\ UNCHANGED <<radioVars, adapterVars>>

SetPowerBegin(p) ==
    /\ Idle("set_power")
    /\ window = 0
    /\ Enter("set_power", p, Request("read_max", 0))
    /\ UNCHANGED <<radioVars, adapterVars>>

\* Mutant: the upper end of the range is not checked.
SetPowerProbed_Mutant ==
    /\ Answered("set_power", "read_max")
    /\ manual' = ManualNow
    /\ doubt' = IF Probed THEN Settled({"max"}) ELSE doubt
    /\ \/ /\ ~ManualNow
          /\ Return("Busy")
       \/ /\ ManualNow
          /\ call.arg < MinPower
          /\ Return("InvalidRange")
       \/ /\ ManualNow
          /\ call.arg >= MinPower
          /\ GoOn(Request("power_dBm", WireDbm(call.arg)))
    /\ UNCHANGED <<radioVars, channels, power, chan, status, window, started>>

\* The mode probe is back: give up, or send the new power.
SetPowerProbed ==
    /\ Answered("set_power", "read_max")
    /\ manual' = ManualNow
    /\ doubt' = IF Probed THEN Settled({"max"}) ELSE doubt
    /\ \/ /\ ~ManualNow
          /\ Return("Busy")
       \/ /\ ManualNow
          /\ call.arg < MinPower \/ call.arg > MaxPower
          /\ Return("InvalidRange")
       \/ /\ ManualNow
          /\ call.arg >= MinPower /\ call.arg <= MaxPower
          /\ GoOn(Request("power_dBm", WireDbm(call.arg)))
    /\ UNCHANGED <<radioVars, channels, power, chan, status, window, started>>

\* Max-power mode was on, or may have been, when the radio got the write.
MaxInDoubt == "max" \in doubt \cup disturbed

SetPowerDone ==
    /\ Answered("set_power", "power_dBm")
    /\ Good(rpc.reply)
    /\ power' = call.arg
    /\ status' = "ready"
    /\ Return("Ok")
    /\ doubt' = IF MaxInDoubt THEN Settled({"boot"}) \cup {"power"}
                ELSE Settled({"boot", "power"})
    /\ UNCHANGED <<radioVars, channels, manual, chan, window, started>>

\* Mutant: the power is recorded although the write failed.
SetPowerFailed_Mutant ==
    /\ Answered("set_power", "power_dBm")
    /\ Fail
    /\ power' = call.arg
    /\ UNCHANGED <<channels, manual, chan, status, window, started>>

SetPowerFailed ==
    /\ Answered("set_power", "power_dBm")
    /\ Fail
    /\ UNCHANGED adapterVars

(***************************************************************************)
(* set_channel(channel_index, frequency_mhz)                               *)
(***************************************************************************)
Supported(f) == channels = <<>> \/ ChannelOf(channels, f) # 0

SetChannelRefused(index, f) ==
    /\ Idle("set_channel")
    /\ window = 0
    /\ index <= 0 \/ f <= 0 \/ ~Supported(f)
    /\ Refuse("InvalidRange")
    /\ UNCHANGED <<radioVars, adapterVars>>

\* Mutant: the channel is recorded before the radio has answered.
SetChannelBegin_Mutant(index, f) ==
    /\ Idle("set_channel")
    /\ window = 0
    /\ index > 0 /\ f > 0 /\ Supported(f)
    /\ Enter("set_channel", f, Request("freq", f))
    /\ chan' = ChannelOf(channels, f)
    /\ UNCHANGED <<radioVars, channels, manual, power, status, window, started>>

SetChannelBegin(index, f) ==
    /\ Idle("set_channel")
    /\ window = 0
    /\ index > 0 /\ f > 0 /\ Supported(f)
    /\ Enter("set_channel", f, Request("freq", f))
    /\ UNCHANGED <<radioVars, adapterVars>>

\* Mutant: the window is one tick short.
SetChannelDone_Mutant ==
    /\ Answered("set_channel", "freq")
    /\ Good(rpc.reply)
    /\ chan' = ChannelOf(channels, call.arg)
    /\ window' = RecoveryWindow - 1
    /\ status' = "recovering"
    /\ Return("Ok")
    /\ doubt' = Settled({"freq", "boot"})
    /\ UNCHANGED <<radioVars, channels, manual, power, started>>

\* The radio took the frequency and is about to reboot.
SetChannelDone ==
    /\ Answered("set_channel", "freq")
    /\ Good(rpc.reply)
    /\ chan' = ChannelOf(channels, call.arg)
    /\ window' = RecoveryWindow
    /\ status' = "recovering"
    /\ Return("Ok")
    /\ doubt' = Settled({"freq", "boot"})
    /\ UNCHANGED <<radioVars, channels, manual, power, started>>

SetChannelFailed ==
    /\ Answered("set_channel", "freq")
    /\ Fail
    /\ UNCHANGED adapterVars

(***************************************************************************)
(* refresh_state(): power, then frequency, then the mode.  A call that     *)
(* fails in the middle leaves what it has read.                            *)
(***************************************************************************)
\* Mutant: no gate.
RefreshBegin_Mutant ==
    /\ Idle("refresh_state")
    /\ Enter("refresh_state", 0, Request("read_power", 0))
    /\ UNCHANGED <<radioVars, adapterVars>>

RefreshBegin ==
    /\ Idle("refresh_state")
    /\ window = 0
    /\ Enter("refresh_state", 0, Request("read_power", 0))
    /\ UNCHANGED <<radioVars, adapterVars>>

\* Mutant: an unreadable frequency is not handled.
RefreshFailed_Mutant ==
    /\ Answered("refresh_state", "read_power")
    /\ Fail
    /\ UNCHANGED adapterVars

RefreshFailed ==
    /\ \/ Answered("refresh_state", "read_power")
       \/ Answered("refresh_state", "read_freq")
    /\ Fail
    /\ UNCHANGED adapterVars

\* Mutant: the power is read and not stored.
RefreshPower_Mutant ==
    /\ Answered("refresh_state", "read_power")
    /\ Good(rpc.reply)
    /\ doubt' = Settled({"power"})
    /\ GoOn(Request("read_freq", 0))
    /\ UNCHANGED <<radioVars, channels, manual, power, chan, status, window,
                   started>>

RefreshPower ==
    /\ Answered("refresh_state", "read_power")
    /\ Good(rpc.reply)
    /\ power' = IF rpc.reply.kind = "value" THEN 10 * rpc.reply.val ELSE Unset
    /\ doubt' = Settled({"power"})
    /\ GoOn(Request("read_freq", 0))
    /\ UNCHANGED <<radioVars, channels, manual, chan, status, window, started>>

\* Mutant: a frequency that is no channel leaves the old index.
RefreshFreq_Mutant ==
    /\ Answered("refresh_state", "read_freq")
    /\ Good(rpc.reply)
    /\ chan' = IF rpc.reply.kind = "value" /\ ChannelOf(channels, rpc.reply.val) # 0
               THEN ChannelOf(channels, rpc.reply.val) ELSE chan
    /\ doubt' = Settled({"freq"})
    /\ GoOn(Request("read_max", 0))
    /\ UNCHANGED <<radioVars, channels, manual, power, status, window, started>>

RefreshFreq ==
    /\ Answered("refresh_state", "read_freq")
    /\ Good(rpc.reply)
    /\ chan' = IF rpc.reply.kind = "value"
               THEN ChannelOf(channels, rpc.reply.val) ELSE 0
    /\ doubt' = Settled({"freq"})
    /\ GoOn(Request("read_max", 0))
    /\ UNCHANGED <<radioVars, channels, manual, power, status, window, started>>

RefreshFinished ==
    /\ Answered("refresh_state", "read_max")
    /\ manual' = ManualNow
    /\ window' = 0
    /\ status' = "ready"
    /\ Return("Ok")
    /\ doubt' = Settled({"boot"} \cup IF Probed THEN {"max"} ELSE {})
    /\ UNCHANGED <<radioVars, channels, power, chan, started>>

-----------------------------------------------------------------------------
(* The link, the radio, the radio's other masters, and a crash.            *)

\* Others have had their way with the fields S of the radio.
Disturb(S) ==
    /\ doubt' = doubt \cup S
    /\ disturbed' = IF Free THEN {} ELSE disturbed \cup S

RadioServes ==
    /\ rpc.phase = "sent"
    /\ Serve(rpc.req)
    /\ rpc' = [rpc EXCEPT !.phase = "answered", !.reply = ReplyTo(rpc.req)]
    /\ UNCHANGED <<adapterVars, call, outcome, stray, historyVars>>

\* What may be left of a request that is given up: the radio has it and has
\* not looked at it yet.
MayLinger ==
    IF /\ rpc.phase = "sent" /\ rpc.req.method \in Writes
       /\ "stray" \in Faults /\ Cardinality(stray) < MaxStray
    THEN {stray, stray \cup {rpc.req}} ELSE {stray}

\* No connection, or no (complete) 200 answer within http_timeout_.
TimeOut ==
    /\ "timeout" \in Faults
    /\ rpc.phase = "sent" \/ (rpc.phase = "answered" /\ rpc.reply.kind # "lost")
    /\ stray' \in MayLinger
    /\ rpc' = [rpc EXCEPT !.phase = "answered", !.reply = Plain("lost")]
    /\ UNCHANGED <<radioVars, adapterVars, call, outcome, historyVars>>

\* The answer is not JSON, or a read's result is none the adapter can use.
Garble ==
    /\ "garble" \in Faults
    /\ rpc.phase = "answered" /\ rpc.reply.kind # "lost"
    /\ \E k \in {"garbled"} \cup
                (IF rpc.reply.kind = "value" THEN {"no_result"} ELSE {}) :
          rpc' = [rpc EXCEPT !.reply = Plain(k)]
    /\ UNCHANGED <<radioVars, adapterVars, call, outcome, stray, historyVars>>

StrayServed(q) ==
    /\ Serve(q)
    /\ stray' = stray \ {q}
    /\ Disturb(Hits(q))
    /\ UNCHANGED <<adapterVars, call, outcome, rpc>>

Maintain(q) ==
    /\ Serve(q)
    /\ Disturb(Hits(q))
    /\ UNCHANGED <<adapterVars, callVars>>

\* The process dies and comes back; nothing of the adapter is persistent.
Restart ==
    /\ "restart" \in Faults
    /\ channels' = DefaultList
    /\ manual' = TRUE
    /\ power' = Unset
    /\ chan' = 0
    /\ status' = "offline"
    /\ window' = 0
    /\ started' = FALSE
    /\ call' = NoCall /\ outcome' = "none" /\ rpc' = NoRpc
    /\ stray' \in MayLinger
    /\ doubt' = {"max", "boot"} /\ disturbed' = {}
    /\ UNCHANGED radioVars

Tick ==
    /\ blackout > 0 \/ window > 0
    /\ blackout' = Elapse(blackout)
    /\ window' = Elapse(window)
    /\ UNCHANGED <<freq, dBm, maxPower, channels, manual, power, chan, status,
                   started, callVars, historyVars>>

-----------------------------------------------------------------------------

Connect == ConnectBegin \/ ConnectFailed \/ ConnectProfiles \/ ConnectFinished

SetPower ==
    \/ \E p \in PowerRequests : SetPowerBegin(p)
    \/ SetPowerProbed
    \/ SetPowerDone
    \/ SetPowerFailed

SetChannel ==
    \/ \E r \in ChannelRequests : SetChannelRefused(r[1], r[2])
    \/ \E r \in ChannelRequests : SetChannelBegin(r[1], r[2])
    \/ SetChannelDone
    \/ SetChannelFailed

Refresh ==
    \/ RefreshBegin
    \/ RefreshFailed
    \/ RefreshPower
    \/ RefreshFreq
    \/ RefreshFinished

Environment ==
    \/ RadioServes
    \/ TimeOut
    \/ Garble
    \/ \E q \in stray : StrayServed(q)
    \/ \E q \in Maintenance : Maintain(q)
    \/ Restart
    \/ Tick

Next ==
    \/ Connect
    \/ \E op \in SilvusOps : RefuseRecovering(op)
    \/ SetPower
    \/ SetChannel
    \/ Refresh
    \/ Environment

(***************************************************************************)
(* Fairness.  A thread inside an operation runs on; an exchange is over    *)
(* when the radio answers or when expires_after closes the stream; time    *)
(* passes.  Nobody is obliged to call anything: no such operation begins   *)
(* on its own, except connect(), which RadioManager::start makes.          *)
(***************************************************************************)
Continue ==
    \/ Connect
    \/ SetPowerProbed \/ SetPowerDone \/ SetPowerFailed
    \/ SetChannelDone \/ SetChannelFailed
    \/ RefreshFailed \/ RefreshPower \/ RefreshFreq \/ RefreshFinished

Fairness ==
    /\ WF_vars(Continue)
    /\ WF_vars(RadioServes \/ TimeOut)
    /\ WF_vars(Tick)

Spec == Init /\ [][Next]_vars
FairSpec == Spec /\ Fairness
-----------------------------------------------------------------------------
(***************************************************************************)
(* What the adapter guarantees.  `Free` restricts a claim to the moments   *)
(* at which state() and capabilities() can run; `doubt` restricts it to    *)
(* what the adapter had a chance to know.                                  *)
(***************************************************************************)

\* The channel state() reports is the frequency the radio is on, unless a
\* write got lost or somebody else retuned the radio: set_channel records
\* findChannelIndex of what it sent, refresh_state of what it read.
ChannelAgrees ==
    Free /\ chan # 0 /\ "freq" \notin doubt => channels[chan] = freq

\* The power state() reports is the one the radio runs at, to the rounding
\* of set_power; a refresh that fails half-way does not break this, and a
\* write the radio ignored in max-power mode is not taken for a change.
PowerAgrees ==
    Free /\ power # Unset /\ "power" \notin doubt => WireDbm(power) = dBm

\* manual_power_control_available is the negation of the radio's mode.
ManualAgrees ==
    Free /\ "max" \notin doubt => manual = ~maxPower

\* While the radio reboots after a frequency change the adapter knows of,
\* recovering_until_ has not passed: the window opened when the answer
\* arrived is no shorter than what is left of the reboot.
WindowCoversSoftBoot ==
    Free /\ "boot" \notin doubt /\ ~Available => window > 0

\* As long as the window is open state() says Recovering.
StatusTracksWindow ==
    Free /\ window > 0 => status = "recovering"

\* The power on the wire, in flight or given up on, is never more than the
\* half dB of std::round away from the allowed range.
WirePowerInRange ==
    \A q \in stray \cup (IF Free THEN {} ELSE {rpc.req}) :
        q.method = "power_dBm" =>
            10 * q.arg <= MaxPower + 5 /\ 10 * q.arg + 5 > MinPower

\* A request of the current call leaves in this step.
Dispatches(methods) ==
    rpc' # rpc /\ rpc'.phase = "sent" /\ rpc'.req.method \in methods

\* set_power, set_channel and refresh_state put no request on the wire while
\* the radio is in a reboot the adapter knows of, not even the second and
\* third request of a call whose gate was passed a while ago.
NoDispatchIntoKnownReboot ==
    [][Dispatches(Reads \cup Writes) /\ call'.op \in SilvusOps
        /\ "boot" \notin doubt => Available]_vars

\* Every operation ends: whatever the radio and the link do, mutex_ is
\* released, and with it state() and the other callers.
CallsEnd == ~Free ~> Free

\* Between requests and whatever the radio, the link and its other masters
\* do, a caller sees what AdapterContract allows: failed calls leave channel,
\* power and status alone, successful ones change what they are named for.
ReportNow ==
    [channels |-> channels, manual |-> manual, power |-> power, chan |-> chan,
     status |-> status, gate |-> IF window > 0 THEN "shut" ELSE "open"]

Contract == INSTANCE AdapterContract WITH report <- ReportNow

Promise == Contract!Spec

(***************************************************************************)
(* What the documents say and the code does not keep (the README's         *)
(* findings quote them).                                                   *)
(***************************************************************************)

\* "Recovering gate: While recovering, do not dispatch new control commands
\* to that radio."
RecoveringGate ==
    [][Dispatches({"freq", "power_dBm"}) => Available]_vars

\* "Disruptive operations enter bounded recovery periods": once the window
\* is over, the radio stops being reported as recovering.
RecoveryIsBounded ==
    status = "recovering" /\ window = 0 ~> status # "recovering"

\* Clients can tell a power that was applied from one the radio ignored: Ok
\* is returned only when the radio runs at the requested power.
OkMeansApplied ==
    [][call.op = "set_power" /\ Free' /\ outcome' = "Ok"
        => dBm = WireDbm(call.arg)]_vars

\* No power outside the configured radio/license profile goes to the radio.
CeilingHolds ==
    \A q \in stray \cup (IF Free THEN {} ELSE {rpc.req}) :
        q.method = "power_dBm" => MinPower <= 10 * q.arg /\ 10 * q.arg <= MaxPower
=============================================================================
