------------------------ MODULE SilvusAdapter_proofs ------------------------
(***************************************************************************)
(* Proofs about SilvusAdapter, for all values of its constants.  IInv is   *)
(* the inductive invariant: the published properties speak of the moments  *)
(* between calls only, IInv also says what is true in the middle of one.   *)
(***************************************************************************)
EXTENDS SilvusAdapter, TLAPS

-----------------------------------------------------------------------------
(* The inductive invariant.                                                *)

\* The radio may have carried out a write of method m that the adapter has
\* not recorded yet.
Unsure(m) ==
    /\ rpc.phase = "answered" /\ rpc.req.method = m
    /\ rpc.reply.kind \in {"done", "lost", "garbled"}

\* Each operation makes its requests in its order and with its arguments.
CallOK ==
    /\ Free <=> rpc.phase = "idle"
    /\ call.op = "connect" => rpc.req.method \in {"profiles", "read_max"} /\ ~started
    /\ call.op = "set_power" => rpc.req.method \in {"read_max", "power_dBm"}
    /\ call.op = "set_channel" =>
            /\ rpc.req = Request("freq", call.arg)
            /\ ChannelOf(channels, call.arg) # 0
    /\ call.op = "refresh_state" =>
            rpc.req.method \in {"read_power", "read_freq", "read_max"}
    /\ rpc.req.method = "power_dBm" =>
            /\ manual
            /\ rpc.req.arg = WireDbm(call.arg)
            /\ MinPower <= call.arg /\ call.arg <= MaxPower
    /\ call.op \in SilvusOps => started /\ window = 0
    /\ ~started => chan = 0 /\ window = 0
    /\ Free => disturbed = {}
    /\ disturbed \subseteq doubt

StatusOK == window > 0 => status = "recovering"

FreqOK ==
    "freq" \notin doubt /\ chan # 0 /\ ~Unsure("freq") => channels[chan] = freq

PowerOK ==
    "power" \notin doubt /\ power # Unset /\ ~Unsure("power_dBm")
        => WireDbm(power) = dBm

MaxOK == "max" \notin doubt => manual = ~maxPower

BootOK == "boot" \notin doubt /\ ~Unsure("freq") => blackout <= window

\* The radio has answered a request of the call and is not rebooting.
AliveOK ==
    /\ "boot" \notin disturbed
    /\ \/ call.op = "connect" /\ rpc.req.method = "read_max"
       \/ call.op = "refresh_state" /\ rpc.req.method \in {"read_freq", "read_max"}
    => blackout = 0

\* An answer is still true of the radio when nobody disturbed it since.
ReplyOK ==
    LET q == rpc.req
        kind == rpc.reply.kind
        val == rpc.reply.val
    IN  rpc.phase = "answered" =>
        /\ q.method \in Writes => kind \notin {"value", "no_result"}
        /\ q.method \in Reads => kind # "done"
        /\ q.method = "freq" /\ kind = "done" =>
              /\ "freq" \notin disturbed => freq = q.arg
              /\ "boot" \notin disturbed => blackout <= SoftBoot
        /\ q.method = "power_dBm" /\ kind = "done" =>
              (disturbed \cap {"power", "max"} = {} /\ "max" \notin doubt
                  => dBm = q.arg)
        /\ q.method = "read_max" /\ kind = "value" =>
              ("max" \notin disturbed => maxPower = ~(val = 0))
        /\ q.method = "read_power" /\ kind = "value" =>
              ("power" \notin disturbed => dBm = val)
        /\ q.method = "read_freq" /\ kind = "value" =>
              ("freq" \notin disturbed => freq = val)
        /\ /\ kind \in {"value", "done", "no_result"}
           /\ q.method # "freq" /\ q.method \notin Resets
           => ("boot" \notin disturbed => blackout = 0)

InRange(q) ==
    q.method = "power_dBm" =>
        10 * q.arg <= MaxPower + 5 /\ 10 * q.arg + 5 > MinPower

StrayOK == \A q \in stray : InRange(q)

IInv ==
    /\ TypeOK
    /\ CallOK
    /\ StatusOK
    /\ FreqOK
    /\ PowerOK
    /\ MaxOK
    /\ BootOK
    /\ AliveOK
    /\ ReplyOK
    /\ StrayOK

-----------------------------------------------------------------------------
(* Lemmas about the operators.                                             *)

\* Rounding to whole dBm moves a power by half a dB at most (std::round in
\* set_power), and a whole dBm read back from the radio not at all.
LEMMA WireDbmError ==
    ASSUME NEW p \in Nat
    PROVE  /\ WireDbm(p) \in Nat
           /\ 10 * WireDbm(p) <= p + 5
           /\ 10 * WireDbm(p) + 5 > p
           /\ WireDbm(10 * p) = p
BY SMT DEF WireDbm

\* findChannelIndex returns an index of the list that holds the frequency,
\* or 0.
LEMMA ChannelOfIndex ==
    ASSUME NEW list, list \in Seq(Nat), NEW f
    PROVE  /\ ChannelOf(list, f) \in 0..Len(list)
           /\ ChannelOf(list, f) # 0 => list[ChannelOf(list, f)] = f
<1>1. CASE \E i \in DOMAIN list : list[i] = f
  <2> DEFINE k == CHOOSE i \in DOMAIN list : list[i] = f
  <2>1. k \in DOMAIN list /\ list[k] = f
    BY <1>1
  <2>2. ChannelOf(list, f) = k
    BY <1>1 DEF ChannelOf
  <2> QED BY <2>1, <2>2
<1>2. CASE ~\E i \in DOMAIN list : list[i] = f
  BY <1>2 DEF ChannelOf
<1> QED BY <1>1, <1>2

\* What one request does to the radio: it keeps its type, and changes only
\* the fields the request touches, and those only when it is available
\* (SilvusMock::handle_jsonrpc).
LEMMA ServeTouches ==
    ASSUME RadioTypeOK, NEW q \in Requests, Serve(q)
    PROVE  /\ RadioTypeOK'
           /\ "freq" \notin Hits(q) => freq' = freq
           /\ "power" \notin Hits(q) => dBm' = dBm
           /\ "max" \notin Hits(q) => maxPower' = maxPower
           /\ "boot" \notin Hits(q) => blackout' = blackout
           /\ Hits(q) \subseteq Fields
<1> USE RadioAssumption DEF RadioTypeOK, Hits, Touches, Available, Accepts,
        OutOfRange, Requests, Reads, Writes, Resets, Fields
<1>1. CASE ServeFreq(q)
  BY <1>1 DEF ServeFreq
<1>2. CASE ServePower(q)
  BY <1>2 DEF ServePower
<1>3. CASE ServeMaxPower(q)
  BY <1>3 DEF ServeMaxPower
<1>4. CASE ServeZeroize(q)
  BY <1>4 DEF ServeZeroize
<1>5. CASE ServeFactoryReset(q)
  BY <1>5 DEF ServeFactoryReset
<1>6. CASE ServeRadioReset(q)
  BY <1>6 DEF ServeRadioReset
<1>7. CASE ServeUnchanged(q)
  BY <1>7 DEF ServeUnchanged, radioVars
<1> QED
  BY <1>1, <1>2, <1>3, <1>4, <1>5, <1>6, <1>7 DEF Serve

\* What the answer to a request says of the radio after serving it.
LEMMA ServeReply ==
    ASSUME RadioTypeOK, NEW q \in Requests, Serve(q)
    PROVE  LET r == ReplyTo(q)
           IN  /\ r \in Replies
               /\ q.method \in Writes => r.kind \in {"done", "unavailable", "invalid_range"}
               /\ q.method \in Reads =>
                     /\ r.kind \in {"value", "unavailable", "invalid_range"}
                     /\ UNCHANGED radioVars
               /\ r.kind # "done" => UNCHANGED radioVars
               /\ q.method = "freq" /\ r.kind = "done" =>
                     freq' = q.arg /\ blackout' = SoftBoot
               /\ q.method = "power_dBm" /\ r.kind = "done" /\ ~maxPower =>
                     dBm' = q.arg
               /\ q.method = "read_max" /\ r.kind = "value" =>
                     maxPower = ~(r.val = 0)
               /\ q.method = "read_power" /\ r.kind = "value" => r.val = dBm
               /\ q.method = "read_freq" /\ r.kind = "value" => r.val = freq
               /\ r.kind \in {"value", "done"} /\ q.method # "freq"
                     /\ q.method \notin Resets => blackout = 0 /\ blackout' = 0
<1> USE RadioAssumption DEF RadioTypeOK, Available, Accepts, ReplyTo, Plain, Replies,
        ReplyKinds, Reading, OutOfRange, Requests, Reads, Writes, Resets, radioVars
<1>1. CASE ServeFreq(q)
  BY <1>1 DEF ServeFreq
<1>2. CASE ServePower(q)
  BY <1>2 DEF ServePower
<1>3. CASE ServeMaxPower(q)
  BY <1>3 DEF ServeMaxPower
<1>4. CASE ServeZeroize(q)
  BY <1>4 DEF ServeZeroize
<1>5. CASE ServeFactoryReset(q)
  BY <1>5 DEF ServeFactoryReset
<1>6. CASE ServeRadioReset(q)
  BY <1>6 DEF ServeRadioReset
<1>7. CASE ServeUnchanged(q)
  BY <1>7 DEF ServeUnchanged
<1> QED
  BY <1>1, <1>2, <1>3, <1>4, <1>5, <1>6, <1>7 DEF Serve

-----------------------------------------------------------------------------
(* The invariant holds initially and every action keeps it.                *)

\* The service has asked nothing and the adapter knows nothing.
LEMMA InitInv == Init => IInv
<1> SUFFICES ASSUME Init
             PROVE  IInv
  OBVIOUS
<1> USE DEF Init, RadioInit, AdapterInit, NoCall, NoRpc, Request, Plain
<1>1. RadioTypeOK
  BY RadioAssumption DEF RadioTypeOK
<1>2. rpc \in [phase : {"idle", "sent", "answered"},
               req : Requests, reply : Replies]
  BY DEF Requests, Reads, Replies, ReplyKinds
<1>3. /\ channels \in {DefaultList, ProfileList} /\ channels # <<>>
      /\ chan \in 0..Len(channels)
  BY AdapterAssumption
<1>4. TypeOK
  BY <1>1, <1>2, <1>3 DEF TypeOK, Statuses, Codes, Fields, Unset, SilvusOps
<1>5. CallOK /\ StatusOK /\ AliveOK
  BY DEF CallOK, StatusOK, AliveOK, Free, SilvusOps
<1>6. FreqOK /\ PowerOK /\ BootOK
  BY DEF FreqOK, PowerOK, BootOK
<1>7. MaxOK
  BY DEF MaxOK
<1>8. ReplyOK /\ StrayOK
  BY DEF ReplyOK, StrayOK
<1> QED BY <1>4, <1>5, <1>6, <1>7, <1>8 DEF IInv

\* A write of power_dBm is only ever made from a power inside the range.
LEMMA RequestInRange ==
    ASSUME IInv
    PROVE  InRange(rpc.req)
<1>1. /\ WireDbm(call.arg) \in Nat
      /\ 10 * WireDbm(call.arg) <= call.arg + 5
      /\ 10 * WireDbm(call.arg) + 5 > call.arg
  BY WireDbmError DEF IInv, TypeOK
<1>2. MinPower \in Nat /\ MaxPower \in Nat /\ call.arg \in Nat
  BY AdapterAssumption DEF IInv, TypeOK
<1> QED BY <1>1, <1>2 DEF IInv, CallOK, InRange

\* The operations' own steps change nothing of the radio, so what IInv says
\* of it has only to follow the adapter's fields and the history.
LEMMA ConnectKeeps ==
    ASSUME IInv, Connect
    PROVE  IInv'
<1> USE RadioAssumption, AdapterAssumption
    DEF Free, Unsure, SilvusOps, Unset, NoCall, NoRpc, Request, Requests, Plain,
        Replies, ReplyKinds, Reads, Writes, Resets, Enter, Send, GoOn, Return,
        Fail, Answered, radioVars, adapterVars, historyVars
<1>1. CASE ConnectBegin
  BY <1>1 DEF ConnectBegin, IInv, TypeOK, RadioTypeOK, CallOK, StatusOK, FreqOK,
        PowerOK, MaxOK, BootOK, AliveOK, ReplyOK, StrayOK, Codes, Fields
<1>2. CASE ConnectFailed
  <2>1. TypeOK' /\ CallOK' /\ StatusOK'
    BY <1>2 DEF ConnectFailed, IInv, TypeOK, RadioTypeOK, CallOK, StatusOK,
          Codes, CodeOf, Good, Touches, Fields
  <2>2. FreqOK' /\ PowerOK' /\ MaxOK' /\ BootOK' /\ AliveOK' /\ ReplyOK' /\ StrayOK'
    BY <1>2 DEF ConnectFailed, IInv, FreqOK, PowerOK, MaxOK, BootOK, AliveOK,
          ReplyOK, StrayOK, CodeOf, Good
  <2> QED BY <2>1, <2>2 DEF IInv
<1>3. CASE ConnectProfiles
  BY <1>3 DEF ConnectProfiles, IInv, TypeOK, RadioTypeOK, CallOK, StatusOK,
        FreqOK, PowerOK, MaxOK, BootOK, AliveOK, ReplyOK, StrayOK, Codes, CodeOf,
        Good, Fields
<1>4. CASE ConnectFinished
  <2> USE DEF ConnectFinished, Settled, Probed, ManualNow
  <2>1. TypeOK'
    BY <1>4 DEF IInv, TypeOK, RadioTypeOK, CallOK, Statuses, Codes, Fields
  <2>2. CallOK' /\ StatusOK'
    BY <1>4 DEF IInv, TypeOK, CallOK, StatusOK
  <2>3. FreqOK' /\ PowerOK' /\ AliveOK' /\ ReplyOK' /\ StrayOK'
    BY <1>4 DEF IInv, FreqOK, PowerOK, AliveOK, ReplyOK, StrayOK
  <2>4. MaxOK'
    BY <1>4 DEF IInv, TypeOK, RadioTypeOK, MaxOK, ReplyOK
  <2>5. BootOK'
    BY <1>4 DEF IInv, TypeOK, RadioTypeOK, CallOK, BootOK, AliveOK
  <2> QED BY <2>1, <2>2, <2>3, <2>4, <2>5 DEF IInv
<1> QED BY <1>1, <1>2, <1>3, <1>4 DEF Connect

\* The refusal of all three operations while the window is open.
LEMMA RefusalKeeps ==
    ASSUME IInv, NEW op \in SilvusOps, RefuseRecovering(op)
    PROVE  IInv'
BY DEF RefuseRecovering, Idle, Refuse, Free, Unsure, radioVars, historyVars,
       IInv, TypeOK, RadioTypeOK, CallOK, StatusOK, FreqOK, PowerOK, MaxOK,
       BootOK, AliveOK, ReplyOK, StrayOK, Statuses, Codes

\* The probe of set_power keeps the cached mode right, and the write that
\* follows it is in range.
LEMMA SetPowerProbedKeeps ==
    ASSUME IInv, SetPowerProbed
    PROVE  IInv'
<1> USE RadioAssumption, AdapterAssumption
    DEF Free, Unsure, SilvusOps, Unset, NoCall, NoRpc, Request, Requests, Plain,
        Replies, ReplyKinds, Reads, Writes, Resets, Send, GoOn, Return, Answered,
        radioVars, SetPowerProbed, Settled, Probed, ManualNow
<1>1. WireDbm(call.arg) \in Nat
  BY WireDbmError DEF IInv, TypeOK
<1>2. manual' \in BOOLEAN /\ doubt' \subseteq Fields
  BY DEF IInv, TypeOK
<1>3. StatusOK' /\ FreqOK' /\ PowerOK' /\ BootOK' /\ StrayOK'
  BY DEF IInv, StatusOK, FreqOK, PowerOK, BootOK, StrayOK
<1>4. MaxOK'
  BY DEF IInv, TypeOK, RadioTypeOK, MaxOK, ReplyOK
<1>5. CASE Return("Busy") \/ Return("InvalidRange")
  <2>1. TypeOK'
    BY <1>2, <1>5 DEF IInv, TypeOK, RadioTypeOK, Codes
  <2>2. CallOK'
    BY <1>5 DEF IInv, TypeOK, CallOK
  <2>3. AliveOK' /\ ReplyOK'
    BY <1>5 DEF AliveOK, ReplyOK
  <2> QED BY <1>3, <1>4, <2>1, <2>2, <2>3 DEF IInv
<1>6. CASE /\ ManualNow
           /\ call.arg >= MinPower /\ call.arg <= MaxPower
           /\ GoOn(Request("power_dBm", WireDbm(call.arg)))
  <2>1. TypeOK'
    BY <1>1, <1>2, <1>6 DEF IInv, TypeOK, RadioTypeOK
  <2>2. CallOK'
    BY <1>1, <1>6 DEF IInv, TypeOK, CallOK
  <2>3. AliveOK' /\ ReplyOK'
    BY <1>6 DEF IInv, TypeOK, CallOK, AliveOK, ReplyOK
  <2> QED BY <1>3, <1>4, <2>1, <2>2, <2>3 DEF IInv
<1> QED BY <1>5, <1>6

LEMMA SetPowerKeeps ==
    ASSUME IInv, SetPower
    PROVE  IInv'
<1> USE RadioAssumption, AdapterAssumption
    DEF Free, Unsure, SilvusOps, Unset, NoCall, NoRpc, Request, Requests, Plain,
        Replies, ReplyKinds, Reads, Writes, Resets, Enter, Send, Return, Fail,
        Answered, Idle, radioVars, adapterVars, historyVars
<1>1. ASSUME NEW p \in PowerRequests, SetPowerBegin(p)
      PROVE  IInv'
  <2> USE DEF SetPowerBegin
  <2>1. TypeOK'
    <3>1. p \in Nat
      OBVIOUS
    <3>2. /\ call' \in [op : SilvusOps \cup {"none", "connect"}, arg : Nat]
          /\ rpc' \in [phase : {"idle", "sent", "answered"},
                       req : Requests, reply : Replies]
      BY <1>1, <3>1
    <3> QED BY <1>1, <3>2 DEF IInv, TypeOK, RadioTypeOK, Codes
  <2>2. CallOK' /\ StatusOK' /\ FreqOK'
    BY <1>1 DEF IInv, TypeOK, CallOK, StatusOK, FreqOK
  <2>3. PowerOK' /\ MaxOK'
    BY <1>1 DEF IInv, CallOK, PowerOK, MaxOK
  <2>4. BootOK'
    BY <1>1 DEF IInv, CallOK, BootOK
  <2>5. AliveOK' /\ ReplyOK' /\ StrayOK'
    BY <1>1 DEF IInv, AliveOK, ReplyOK, StrayOK
  <2> QED BY <2>1, <2>2, <2>3, <2>4, <2>5 DEF IInv
<1>2. CASE SetPowerProbed
  BY <1>2, SetPowerProbedKeeps
<1>3. CASE SetPowerDone
  <2> USE DEF SetPowerDone, Settled, MaxInDoubt, Good, CodeOf
  <2>1. rpc.reply.kind = "done" /\ rpc.req.arg = WireDbm(call.arg)
    BY <1>3 DEF IInv, TypeOK, CallOK, ReplyOK
  <2>2. TypeOK'
    BY <1>3 DEF IInv, TypeOK, RadioTypeOK, Statuses, Codes, Fields
  <2>3. CallOK' /\ StatusOK'
    BY <1>3 DEF IInv, CallOK, StatusOK
  <2>4. PowerOK'
    BY <1>3, <2>1 DEF IInv, TypeOK, ReplyOK, PowerOK
  <2>5. FreqOK' /\ MaxOK' /\ AliveOK' /\ ReplyOK' /\ StrayOK'
    BY <1>3 DEF IInv, FreqOK, MaxOK, AliveOK, ReplyOK, StrayOK
  <2>6. BootOK'
    BY <1>3, <2>1 DEF IInv, TypeOK, RadioTypeOK, CallOK, BootOK, ReplyOK
  <2> QED BY <2>2, <2>3, <2>4, <2>5, <2>6 DEF IInv
<1>4. CASE SetPowerFailed
  <2> USE DEF SetPowerFailed, Good, CodeOf, Touches
  <2>1. TypeOK'
    BY <1>4 DEF IInv, TypeOK, RadioTypeOK, Codes, Fields
  <2>2. CallOK' /\ StatusOK' /\ FreqOK' /\ MaxOK' /\ BootOK'
    BY <1>4 DEF IInv, CallOK, StatusOK, FreqOK, MaxOK, BootOK
  <2>3. PowerOK' /\ AliveOK' /\ ReplyOK' /\ StrayOK'
    BY <1>4 DEF IInv, TypeOK, PowerOK, AliveOK, ReplyOK, StrayOK, Fields
  <2> QED BY <2>1, <2>2, <2>3 DEF IInv
<1> QED BY <1>1, <1>2, <1>3, <1>4 DEF SetPower

LEMMA SetChannelKeeps ==
    ASSUME IInv, SetChannel
    PROVE  IInv'
<1> USE RadioAssumption, AdapterAssumption
    DEF Free, Unsure, SilvusOps, Unset, NoCall, NoRpc, Request, Requests, Plain,
        Replies, ReplyKinds, Reads, Writes, Resets, Enter, Send, Return, Refuse,
        Fail, Answered, Idle, radioVars, adapterVars, historyVars
<1>1. ASSUME NEW r \in ChannelRequests, SetChannelRefused(r[1], r[2])
      PROVE  IInv'
  <2> USE DEF SetChannelRefused
  <2>1. TypeOK'
    BY <1>1 DEF IInv, TypeOK, RadioTypeOK, Codes
  <2>2. CallOK' /\ StatusOK' /\ FreqOK'
    BY <1>1 DEF IInv, CallOK, StatusOK, FreqOK
  <2>3. PowerOK' /\ MaxOK' /\ BootOK'
    BY <1>1 DEF IInv, PowerOK, MaxOK, BootOK
  <2>4. AliveOK' /\ ReplyOK' /\ StrayOK'
    BY <1>1 DEF IInv, AliveOK, ReplyOK, StrayOK
  <2> QED BY <2>1, <2>2, <2>3, <2>4 DEF IInv
<1>2. ASSUME NEW r \in ChannelRequests, SetChannelBegin(r[1], r[2])
      PROVE  IInv'
  <2> USE DEF SetChannelBegin, Supported
  <2>1. TypeOK'
    <3>1. r[2] \in Nat
      OBVIOUS
    <3>2. /\ call' \in [op : SilvusOps \cup {"none", "connect"}, arg : Nat]
          /\ rpc' \in [phase : {"idle", "sent", "answered"},
                       req : Requests, reply : Replies]
      BY <1>2, <3>1
    <3> QED BY <1>2, <3>2 DEF IInv, TypeOK, RadioTypeOK, Codes
  <2>2. CallOK' /\ StatusOK' /\ FreqOK'
    BY <1>2 DEF IInv, TypeOK, CallOK, StatusOK, FreqOK
  <2>3. PowerOK' /\ MaxOK'
    BY <1>2 DEF IInv, CallOK, PowerOK, MaxOK
  <2>4. BootOK'
    BY <1>2 DEF IInv, CallOK, BootOK
  <2>5. AliveOK' /\ ReplyOK' /\ StrayOK'
    BY <1>2 DEF IInv, AliveOK, ReplyOK, StrayOK
  <2> QED BY <2>1, <2>2, <2>3, <2>4, <2>5 DEF IInv
<1>3. CASE SetChannelDone
  <2> USE DEF SetChannelDone, Settled, Good, CodeOf
  <2>1. rpc.reply.kind = "done" /\ rpc.req.arg = call.arg
    BY <1>3 DEF IInv, TypeOK, CallOK, ReplyOK
  <2>2. channels \in Seq(Nat)
    BY DEF IInv, TypeOK
  <2>3. /\ chan' \in 0..Len(channels)
        /\ channels[chan'] = call.arg
    BY <1>3, <2>2, ChannelOfIndex DEF IInv, TypeOK, CallOK
  <2>4. TypeOK'
    BY <1>3, <2>3 DEF IInv, TypeOK, RadioTypeOK, Statuses, Codes, Fields
  <2>5. CallOK' /\ StatusOK'
    BY <1>3 DEF IInv, TypeOK, CallOK, StatusOK
  <2>6. FreqOK'
    BY <1>3, <2>1, <2>3 DEF IInv, TypeOK, FreqOK, ReplyOK
  <2>7. BootOK'
    BY <1>3, <2>1 DEF IInv, TypeOK, RadioTypeOK, BootOK, ReplyOK
  <2>8. PowerOK' /\ MaxOK' /\ AliveOK' /\ ReplyOK' /\ StrayOK'
    BY <1>3 DEF IInv, PowerOK, MaxOK, AliveOK, ReplyOK, StrayOK
  <2> QED BY <2>4, <2>5, <2>6, <2>7, <2>8 DEF IInv
<1>4. CASE SetChannelFailed
  <2> USE DEF SetChannelFailed, Good, CodeOf, Touches
  <2>1. TypeOK'
    BY <1>4 DEF IInv, TypeOK, RadioTypeOK, Codes, Fields
  <2>2. CallOK' /\ StatusOK' /\ PowerOK' /\ MaxOK'
    BY <1>4 DEF IInv, CallOK, StatusOK, PowerOK, MaxOK
  <2>3. FreqOK' /\ BootOK'
    BY <1>4 DEF IInv, TypeOK, FreqOK, BootOK, Fields
  <2>4. AliveOK' /\ ReplyOK' /\ StrayOK'
    BY <1>4 DEF IInv, AliveOK, ReplyOK, StrayOK
  <2> QED BY <2>1, <2>2, <2>3, <2>4 DEF IInv
<1> QED BY <1>1, <1>2, <1>3, <1>4 DEF SetChannel
LEMMA RefreshKeeps ==
    ASSUME IInv, Refresh
    PROVE  IInv'
<1> USE RadioAssumption, AdapterAssumption
    DEF Free, Unsure, SilvusOps, Unset, NoCall, NoRpc, Request, Requests, Plain,
        Replies, ReplyKinds, Reads, Writes, Resets, Enter, Send, GoOn, Return,
        Fail, Answered, Idle, radioVars, adapterVars, historyVars
<1>1. CASE RefreshBegin
  BY <1>1 DEF RefreshBegin, IInv, TypeOK, RadioTypeOK, CallOK, StatusOK, FreqOK,
        PowerOK, MaxOK, BootOK, AliveOK, ReplyOK, StrayOK, Codes, Fields
<1>2. CASE RefreshFailed
  <2> USE DEF RefreshFailed, Good, CodeOf, Touches
  <2>1. TypeOK'
    BY <1>2 DEF IInv, TypeOK, RadioTypeOK, Codes, Fields
  <2>2. CallOK' /\ StatusOK' /\ AliveOK' /\ ReplyOK' /\ StrayOK'
    BY <1>2 DEF IInv, CallOK, StatusOK, AliveOK, ReplyOK, StrayOK
  <2>3. FreqOK' /\ PowerOK' /\ MaxOK' /\ BootOK'
    BY <1>2 DEF IInv, FreqOK, PowerOK, MaxOK, BootOK
  <2> QED BY <2>1, <2>2, <2>3 DEF IInv
<1>3. CASE RefreshPower
  <2> USE DEF RefreshPower, Settled, Good, CodeOf
  <2>1. power' \in Nat \cup {Unset}
    BY <1>3 DEF IInv, TypeOK
  <2>2. TypeOK'
    BY <1>3, <2>1 DEF IInv, TypeOK, RadioTypeOK, Fields
  <2>3. PowerOK'
    BY <1>3, WireDbmError DEF IInv, TypeOK, RadioTypeOK, PowerOK, ReplyOK
  <2>4. CallOK' /\ StatusOK' /\ FreqOK' /\ MaxOK' /\ BootOK'
    BY <1>3 DEF IInv, CallOK, StatusOK, FreqOK, MaxOK, BootOK
  <2>5. AliveOK' /\ ReplyOK' /\ StrayOK'
    BY <1>3 DEF IInv, TypeOK, AliveOK, ReplyOK, StrayOK
  <2> QED BY <2>2, <2>3, <2>4, <2>5 DEF IInv
<1>4. CASE RefreshFreq
  <2> USE DEF RefreshFreq, Settled, Good, CodeOf
  <2>1. channels \in Seq(Nat)
    BY DEF IInv, TypeOK
  <2>2. /\ chan' \in 0..Len(channels)
        /\ chan' # 0 =>
              channels[chan'] = rpc.reply.val /\ rpc.reply.kind = "value"
    BY <1>4, <2>1, ChannelOfIndex DEF IInv, TypeOK
  <2>3. TypeOK'
    BY <1>4, <2>2 DEF IInv, TypeOK, RadioTypeOK, Fields
  <2>4. FreqOK'
    BY <1>4, <2>2 DEF IInv, TypeOK, FreqOK, ReplyOK
  <2>5. CallOK' /\ StatusOK' /\ PowerOK' /\ MaxOK' /\ BootOK'
    BY <1>4 DEF IInv, CallOK, StatusOK, PowerOK, MaxOK, BootOK
  <2>6. AliveOK' /\ ReplyOK' /\ StrayOK'
    BY <1>4 DEF IInv, TypeOK, CallOK, AliveOK, ReplyOK, StrayOK
  <2> QED BY <2>3, <2>4, <2>5, <2>6 DEF IInv
<1>5. CASE RefreshFinished
  <2> USE DEF RefreshFinished, Settled, Probed, ManualNow
  <2>1. TypeOK'
    BY <1>5 DEF IInv, TypeOK, RadioTypeOK, Statuses, Codes, Fields
  <2>2. CallOK' /\ StatusOK'
    BY <1>5 DEF IInv, TypeOK, CallOK, StatusOK
  <2>3. MaxOK'
    BY <1>5 DEF IInv, TypeOK, RadioTypeOK, MaxOK, ReplyOK
  <2>4. BootOK'
    BY <1>5 DEF IInv, TypeOK, RadioTypeOK, CallOK, BootOK, AliveOK
  <2>5. FreqOK' /\ PowerOK' /\ AliveOK' /\ ReplyOK' /\ StrayOK'
    BY <1>5 DEF IInv, FreqOK, PowerOK, AliveOK, ReplyOK, StrayOK
  <2> QED BY <2>1, <2>2, <2>3, <2>4, <2>5 DEF IInv
<1> QED BY <1>1, <1>2, <1>3, <1>4, <1>5 DEF Refresh

\* The radio carries out the request of the call: only a write changes the
\* radio, and then the adapter is unsure of what it wrote until the call ends.
LEMMA RadioServesKeeps ==
    ASSUME IInv, RadioServes
    PROVE  IInv'
<1> USE RadioAssumption, AdapterAssumption
    DEF Free, Unsure, SilvusOps, radioVars, adapterVars, historyVars
<1> DEFINE q == rpc.req
           r == ReplyTo(q)
<1>1. q \in Requests /\ Serve(q) /\ RadioTypeOK
  BY DEF RadioServes, IInv, TypeOK
<1>2. /\ rpc.phase = "sent" /\ rpc'.phase = "answered"
      /\ rpc'.req = q /\ rpc'.reply = r
      /\ UNCHANGED <<adapterVars, call, outcome, stray, historyVars>>
  BY DEF RadioServes, IInv, TypeOK
<1>3. q.method \in Reads \cup {"power_dBm", "freq"}
  BY <1>2 DEF IInv, CallOK, TypeOK, Reads, Request
<1>4. /\ r \in Replies
      /\ q.method \in Writes => r.kind \in {"done", "unavailable", "invalid_range"}
      /\ q.method \in Reads => r.kind \in {"value", "unavailable", "invalid_range"}
      /\ r.kind # "done" => UNCHANGED radioVars
      /\ q.method = "freq" /\ r.kind = "done" =>
            freq' = q.arg /\ blackout' = SoftBoot
      /\ q.method = "power_dBm" /\ r.kind = "done" /\ ~maxPower => dBm' = q.arg
      /\ q.method = "read_max" /\ r.kind = "value" => maxPower = ~(r.val = 0)
      /\ q.method = "read_power" /\ r.kind = "value" => r.val = dBm
      /\ q.method = "read_freq" /\ r.kind = "value" => r.val = freq
      /\ r.kind \in {"value", "done"} /\ q.method # "freq" /\ q.method \notin Resets
            => blackout = 0 /\ blackout' = 0
  BY <1>1, ServeReply
<1>5. /\ RadioTypeOK'
      /\ q.method # "freq" => freq' = freq /\ blackout' = blackout
      /\ q.method # "power_dBm" => dBm' = dBm
      /\ maxPower' = maxPower
  BY <1>1, <1>3, ServeTouches DEF Hits, Touches, Reads
<1>6. TypeOK'
  <2>1. rpc' = [phase |-> "answered", req |-> q, reply |-> r]
    BY DEF RadioServes, IInv, TypeOK
  <2> QED BY <1>1, <1>2, <1>4, <1>5, <2>1 DEF IInv, TypeOK
<1>7. CallOK' /\ StatusOK' /\ StrayOK'
  BY <1>2 DEF IInv, CallOK, StatusOK, StrayOK
<1>8. FreqOK' /\ PowerOK' /\ MaxOK' /\ BootOK'
  <2>1. FreqOK'
    BY <1>2, <1>4, <1>5 DEF IInv, FreqOK
  <2>2. PowerOK'
    BY <1>2, <1>4, <1>5 DEF IInv, PowerOK
  <2>3. MaxOK'
    BY <1>2, <1>5 DEF IInv, MaxOK
  <2>4. BootOK'
    BY <1>2, <1>4, <1>5 DEF IInv, BootOK
  <2> QED BY <2>1, <2>2, <2>3, <2>4
<1>9. AliveOK'
  BY <1>2, <1>5 DEF IInv, AliveOK
<1>10. ReplyOK'
  BY <1>2, <1>3, <1>4, <1>5 DEF IInv, ReplyOK, MaxOK, CallOK, TypeOK, RadioTypeOK,
        Reads, Writes, Resets
<1> QED BY <1>6, <1>7, <1>8, <1>9, <1>10 DEF IInv

\* A request the radio gets from elsewhere changes only what it puts into
\* doubt and, during a call, among the fields disturbed.
LEMMA DisturbanceKeeps ==
    ASSUME IInv, NEW q \in Requests, Serve(q), Disturb(Hits(q)),
           UNCHANGED <<adapterVars, call, outcome, rpc>>, stray' \subseteq stray
    PROVE  IInv'
<1> USE RadioAssumption, AdapterAssumption
    DEF Free, Unsure, SilvusOps, adapterVars, Disturb
<1>1. /\ RadioTypeOK'
      /\ "freq" \notin Hits(q) => freq' = freq
      /\ "power" \notin Hits(q) => dBm' = dBm
      /\ "max" \notin Hits(q) => maxPower' = maxPower
      /\ "boot" \notin Hits(q) => blackout' = blackout
      /\ Hits(q) \subseteq Fields
  BY ServeTouches DEF IInv, TypeOK
<1>2. TypeOK'
  <2>1. stray' \subseteq Requests /\ doubt' \subseteq Fields /\ disturbed' \subseteq Fields
    BY <1>1 DEF IInv, TypeOK
  <2> QED BY <1>1, <2>1 DEF IInv, TypeOK
<1>3. CallOK' /\ StatusOK' /\ StrayOK'
  BY DEF IInv, CallOK, StatusOK, StrayOK
<1>4. FreqOK' /\ PowerOK' /\ MaxOK' /\ BootOK'
  BY <1>1 DEF IInv, FreqOK, PowerOK, MaxOK, BootOK
<1>5. AliveOK'
  BY <1>1 DEF IInv, CallOK, AliveOK
<1>6. ReplyOK'
  BY <1>1 DEF IInv, CallOK, ReplyOK
<1> QED BY <1>2, <1>3, <1>4, <1>5, <1>6 DEF IInv

\* A request that is given up may linger, and is as harmless as it was.
LEMMA Lingering ==
    ASSUME IInv, stray' \in MayLinger
    PROVE  stray' \subseteq Requests /\ StrayOK'
<1>1. stray' = stray \/ stray' = stray \cup {rpc.req}
  BY DEF MayLinger
<1>2. rpc.req \in Requests /\ InRange(rpc.req)
  BY RequestInRange DEF IInv, TypeOK
<1> QED BY <1>1, <1>2 DEF IInv, TypeOK, StrayOK, InRange
LEMMA EnvironmentKeeps ==
    ASSUME IInv, Environment
    PROVE  IInv'
<1> USE RadioAssumption, AdapterAssumption
    DEF Free, Unsure, SilvusOps, Unset, NoCall, NoRpc, Request, Requests, Plain,
        Replies, ReplyKinds, Reads, Writes, Resets, radioVars, adapterVars,
        historyVars, callVars
<1>1. CASE RadioServes
  BY <1>1, RadioServesKeeps
<1>2. CASE TimeOut
  <2> USE DEF TimeOut
  <2>1. stray' \subseteq Requests /\ StrayOK'
    BY <1>2, Lingering
  <2>2. TypeOK'
    BY <1>2, <2>1 DEF IInv, TypeOK, RadioTypeOK
  <2>3. CallOK' /\ StatusOK' /\ FreqOK'
    BY <1>2 DEF IInv, TypeOK, CallOK, StatusOK, FreqOK
  <2>4. PowerOK' /\ MaxOK'
    BY <1>2 DEF IInv, TypeOK, PowerOK, MaxOK
  <2>5. BootOK'
    BY <1>2 DEF IInv, TypeOK, BootOK
  <2>6. AliveOK' /\ ReplyOK'
    BY <1>2 DEF IInv, TypeOK, AliveOK, ReplyOK
  <2> QED BY <2>1, <2>2, <2>3, <2>4, <2>5, <2>6 DEF IInv
<1>3. CASE Garble
  <2>1. PICK k \in {"garbled", "no_result"} :
          /\ rpc' = [rpc EXCEPT !.reply = Plain(k)]
          /\ k = "no_result" => rpc.reply.kind = "value"
    BY <1>3 DEF Garble
  <2> USE DEF Garble
  <2>2. TypeOK'
    <3>1. rpc' \in [phase : {"idle", "sent", "answered"},
                    req : Requests, reply : Replies]
      BY <2>1 DEF IInv, TypeOK
    <3> QED BY <1>3, <3>1 DEF IInv, TypeOK, RadioTypeOK
  <2>3. /\ rpc'.phase = rpc.phase /\ rpc'.req = rpc.req
        /\ rpc'.reply.kind \in {"garbled", "no_result"}
    BY <2>1 DEF IInv, TypeOK
  <2>4. CallOK' /\ StatusOK'
    BY <1>3, <2>3 DEF IInv, CallOK, StatusOK
  <2>5. FreqOK' /\ MaxOK'
    BY <1>3, <2>3 DEF IInv, FreqOK, MaxOK
  <2>6. AliveOK' /\ StrayOK'
    BY <1>3, <2>3 DEF IInv, AliveOK, StrayOK
  <2>7. PowerOK'
    BY <1>3, <2>1 DEF IInv, TypeOK, PowerOK, ReplyOK
  <2>8. BootOK'
    BY <1>3, <2>1 DEF IInv, TypeOK, BootOK, ReplyOK
  <2>9. ReplyOK'
    BY <1>3, <2>1 DEF IInv, TypeOK, ReplyOK
  <2> QED BY <2>2, <2>4, <2>5, <2>6, <2>7, <2>8, <2>9 DEF IInv
<1>4. ASSUME NEW q \in stray, StrayServed(q)
      PROVE  IInv'
  BY <1>4, DisturbanceKeeps DEF StrayServed, IInv, TypeOK
<1>5. ASSUME NEW q \in Maintenance, Maintain(q)
      PROVE  IInv'
  BY <1>5, DisturbanceKeeps DEF Maintain
<1>6. CASE Restart
  <2> USE DEF Restart
  <2>1. stray' \subseteq Requests /\ StrayOK'
    BY <1>6, Lingering
  <2>2. /\ channels' \in {DefaultList, ProfileList} /\ channels' # <<>>
        /\ chan' \in 0..Len(channels')
        /\ RadioTypeOK'
    BY <1>6 DEF IInv, TypeOK, RadioTypeOK
  <2>3. rpc' \in [phase : {"idle", "sent", "answered"},
                  req : Requests, reply : Replies]
    BY <1>6
  <2>4. TypeOK'
    BY <1>6, <2>1, <2>2, <2>3 DEF IInv, TypeOK, Statuses, Codes, Fields
  <2>5. CallOK' /\ StatusOK' /\ FreqOK' /\ PowerOK' /\ MaxOK' /\ BootOK'
    BY <1>6 DEF CallOK, StatusOK, FreqOK, PowerOK, MaxOK, BootOK
  <2>6. AliveOK' /\ ReplyOK'
    BY <1>6 DEF AliveOK, ReplyOK
  <2> QED BY <2>1, <2>4, <2>5, <2>6 DEF IInv
<1>7. CASE Tick
  <2>1. TypeOK' /\ CallOK' /\ StatusOK' /\ FreqOK' /\ PowerOK' /\ MaxOK'
    BY <1>7 DEF Tick, Elapse, IInv, TypeOK, RadioTypeOK, CallOK, StatusOK,
          FreqOK, PowerOK, MaxOK
  <2>2. BootOK' /\ AliveOK' /\ ReplyOK' /\ StrayOK'
    BY <1>7 DEF Tick, Elapse, IInv, TypeOK, RadioTypeOK, BootOK, AliveOK,
          ReplyOK, StrayOK
  <2> QED BY <2>1, <2>2 DEF IInv
<1> QED BY <1>1, <1>2, <1>3, <1>4, <1>5, <1>6, <1>7 DEF Environment

\* Every step of the service, the radio, the link and the clock keeps IInv.
LEMMA Inductive == IInv /\ [Next]_vars => IInv'
<1> SUFFICES ASSUME IInv, [Next]_vars
             PROVE  IInv'
  OBVIOUS
<1>1. CASE Connect
  BY <1>1, ConnectKeeps
<1>2. ASSUME NEW op \in SilvusOps, RefuseRecovering(op)
      PROVE  IInv'
  BY <1>2, RefusalKeeps
<1>3. CASE SetPower
  BY <1>3, SetPowerKeeps
<1>4. CASE SetChannel
  BY <1>4, SetChannelKeeps
<1>5. CASE Refresh
  BY <1>5, RefreshKeeps
<1>6. CASE Environment
  BY <1>6, EnvironmentKeeps
<1>7. CASE UNCHANGED vars
  BY <1>7 DEF vars, radioVars, adapterVars, callVars, historyVars, Free, Unsure,
        IInv, TypeOK, RadioTypeOK, CallOK, StatusOK, FreqOK, PowerOK, MaxOK,
        BootOK, AliveOK, ReplyOK, StrayOK, InRange
<1> QED BY <1>1, <1>2, <1>3, <1>4, <1>5, <1>6, <1>7 DEF Next

LEMMA Invariance == Spec => []IInv
BY InitInv, Inductive, PTL DEF Spec

-----------------------------------------------------------------------------
(* What the service can rely on, for all values of the constants.          *)

\* Every variable of the adapter and of the radio keeps its type, and the
\* channel index is always an index of the current frequency list
\* (connect() swaps the list under it).
THEOREM TypeCorrect == Spec => []TypeOK
<1>1. IInv => TypeOK
  BY DEF IInv
<1> QED BY <1>1, Invariance, PTL

\* Between calls the channel index state() reports is the one of the radio's
\* frequency, unless a write got lost or somebody else retuned the radio since
\* the adapter last learnt it.
THEOREM ChannelIsTrue == Spec => []ChannelAgrees
<1>1. IInv => ChannelAgrees
  BY DEF IInv, CallOK, FreqOK, Unsure, ChannelAgrees
<1> QED BY <1>1, Invariance, PTL

\* So is the power, to the rounding of set_power: one the radio ignored in
\* max-power mode is never reported as applied.
THEOREM PowerIsTrue == Spec => []PowerAgrees
<1>1. IInv => PowerAgrees
  BY DEF IInv, CallOK, PowerOK, Unsure, PowerAgrees
<1> QED BY <1>1, Invariance, PTL

\* And the mode capabilities() reports, whatever else became of the call that
\* has read it.
THEOREM ModeIsTrue == Spec => []ManualAgrees
<1>1. IInv => ManualAgrees
  BY DEF IInv, MaxOK, ManualAgrees
<1> QED BY <1>1, Invariance, PTL

\* A reboot the adapter has caused and knows of never outlasts its window.
THEOREM WindowIsSound == Spec => []WindowCoversSoftBoot
<1>1. IInv => WindowCoversSoftBoot
  BY DEF IInv, TypeOK, RadioTypeOK, CallOK, BootOK, Unsure, Available,
         WindowCoversSoftBoot
<1> QED BY <1>1, Invariance, PTL

\* state() says Recovering as long as the window is open, whatever has failed
\* since it was opened.
THEOREM WindowIsShown == Spec => []StatusTracksWindow
<1>1. IInv => StatusTracksWindow
  BY DEF IInv, StatusOK, StatusTracksWindow
<1> QED BY <1>1, Invariance, PTL

\* No request in flight, and none given up on that may still arrive, carries a
\* power more than the rounding away from the allowed range.
THEOREM WireRange == Spec => []WirePowerInRange
<1>1. IInv => WirePowerInRange
  <2> SUFFICES ASSUME IInv, NEW q \in stray \cup {rpc.req}
               PROVE  InRange(q)
    BY DEF InRange, WirePowerInRange
  <2> QED BY RequestInRange DEF IInv, StrayOK
<1> QED BY <1>1, Invariance, PTL

\* set_power, set_channel and refresh_state send nothing, not even a later
\* request of a call begun a while ago, into a reboot the adapter knows of.
THEOREM GateHolds == Spec => NoDispatchIntoKnownReboot
<1> DEFINE A == Dispatches(Reads \cup Writes) /\ call'.op \in SilvusOps
                  /\ "boot" \notin doubt => Available
<1>1. IInv /\ [Next]_vars => [A]_vars
  <2> SUFFICES ASSUME IInv, Next, Dispatches(Reads \cup Writes),
                      call'.op \in SilvusOps, "boot" \notin doubt
               PROVE  Available
    OBVIOUS
  <2>1. rpc' # rpc /\ rpc'.phase = "sent"
    BY DEF Dispatches
  <2>2. \/ \E p \in PowerRequests : SetPowerBegin(p)
        \/ SetPowerProbed
        \/ \E r \in ChannelRequests : SetChannelBegin(r[1], r[2])
        \/ RefreshBegin \/ RefreshPower \/ RefreshFreq
    <3>1. ~Environment
      <4>1. ~RadioServes
        BY <2>1 DEF RadioServes, IInv, TypeOK
      <4>2. ~TimeOut
        BY <2>1 DEF TimeOut, IInv, TypeOK
      <4>3. ~Garble
        BY <2>1 DEF Garble, IInv, TypeOK
      <4>4. ~Restart
        BY <2>1 DEF Restart, NoRpc
      <4>5. \A q \in stray \cup Maintenance : ~StrayServed(q) /\ ~Maintain(q)
        BY <2>1 DEF StrayServed, Maintain, callVars
      <4>6. ~Tick
        BY <2>1 DEF Tick, callVars
      <4> QED BY <4>1, <4>2, <4>3, <4>4, <4>5, <4>6 DEF Environment
    <3>2. ~Connect
      BY DEF Connect, ConnectBegin, ConnectFailed, ConnectProfiles,
            ConnectFinished, Enter, GoOn, Fail, Return, NoCall, Answered, SilvusOps
    <3>3. /\ \A op \in SilvusOps : ~RefuseRecovering(op)
          /\ \A r \in ChannelRequests : ~SetChannelRefused(r[1], r[2])
      BY <2>1 DEF RefuseRecovering, SetChannelRefused, Refuse
    <3>4. /\ ~SetPowerDone /\ ~SetPowerFailed
          /\ ~SetChannelDone /\ ~SetChannelFailed
          /\ ~RefreshFailed /\ ~RefreshFinished
      BY <2>1 DEF SetPowerDone, SetPowerFailed, SetChannelDone, SetChannelFailed,
            RefreshFailed, RefreshFinished, Fail, Return, NoRpc
    <3> QED BY <3>1, <3>2, <3>3, <3>4 DEF Next, SetPower, SetChannel, Refresh
  <2>3. window = 0 /\ ~Unsure("freq")
    BY <2>2 DEF IInv, CallOK, SetPowerBegin, SetPowerProbed, SetChannelBegin,
          RefreshBegin, RefreshPower, RefreshFreq, Idle, Answered, Free, Unsure,
          SilvusOps
  <2> QED BY <2>3 DEF IInv, TypeOK, RadioTypeOK, BootOK, Available
<1> QED BY <1>1, Invariance, PTL DEF Spec, NoDispatchIntoKnownReboot
=============================================================================
