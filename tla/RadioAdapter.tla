---------------------------- MODULE RadioAdapter ----------------------------
(***************************************************************************)
(* IRadioAdapter: the values an adapter reports and what each of its       *)
(* operations may do to them, as relations between the report before and   *)
(* the report after.  No variables: AdapterContract makes a state machine  *)
(* of these relations, which SilvusAdapter implements, and RadioService    *)
(* calls adapters of which it knows no more than this.                     *)
(***************************************************************************)
EXTENDS Integers, Sequences

Statuses == {"offline", "ready", "recovering"}
Codes == {"none", "Ok", "InvalidRange", "Busy", "Unavailable", "InternalError"}
SilvusOps == {"set_power", "set_channel", "refresh_state"}
Unset == -1  \* an empty std::optional<double>

\* Mutant: an index that counts from 1 twice.
ChannelOf_Mutant(list, f) ==
    IF \E i \in DOMAIN list : list[i] = f
    THEN 1 + CHOOSE i \in DOMAIN list : list[i] = f
    ELSE 0

\* findChannelIndex: 0 when the list has no such frequency.
ChannelOf(list, f) ==
    IF \E i \in DOMAIN list : list[i] = f
    THEN CHOOSE i \in DOMAIN list : list[i] = f
    ELSE 0

\* std::round of a power, in tenths of a dBm, to the whole dBm of the wire and
\* of the northbound side.
WireDbm(p) == (p + 5) \div 10

(***************************************************************************)
(* A report is what capabilities(), state() and the recovering gate show:  *)
(*   [channels, manual, power, chan, status, gate]                         *)
(* with chan = 0 and power = Unset for empty optionals.                    *)
(***************************************************************************)
FreshReport(list) ==
    [channels |-> list, manual |-> TRUE, power |-> Unset, chan |-> 0,
     status |-> "offline", gate |-> "open"]

Report(a) ==
    /\ DOMAIN a = {"channels", "manual", "power", "chan", "status", "gate"}
    /\ a.channels # <<>>
    /\ a.chan \in 0..Len(a.channels)
    /\ a.power = Unset \/ a.power \in Nat
    /\ a.manual \in BOOLEAN
    /\ a.status \in Statuses
    /\ a.gate \in {"open", "shut"}

\* b is a where only the fields in S may have changed.
SameBut(a, b, S) == \A f \in DOMAIN a \ S : b[f] = a[f]

\* What an operation may change when it does not succeed, and in the course
\* of it when it does.
May(op) ==
    IF op = "connect" THEN {"channels"}
    ELSE IF op = "set_power" THEN {"manual"}
    ELSE IF op = "refresh_state" THEN {"power", "chan", "manual"}
    ELSE {}

Learns(op, a, b) == Report(b) /\ SameBut(a, b, May(op))

Connected(a, b) ==
    /\ SameBut(a, b, {"channels", "manual", "status", "gate"})
    /\ b.status = "ready" /\ b.gate = "open"

PowerSet(p, a, b) ==
    /\ SameBut(a, b, {"manual", "power", "status"})
    /\ b.power = p /\ b.status = "ready"

ChannelSet(f, a, b) ==
    /\ SameBut(a, b, {"chan", "status", "gate"})
    /\ b.chan = ChannelOf(a.channels, f)
    /\ b.status = "recovering" /\ b.gate = "shut"

Refreshed(a, b) ==
    /\ SameBut(a, b, {"power", "chan", "manual", "status", "gate"})
    /\ b.status = "ready" /\ b.gate = "open"

\* The effect of a whole call of op with argument arg that returns code.
Effect(op, arg, a, b, code) ==
    /\ Report(b)
    /\ code \in Codes \ {"none"}
    /\ \/ code # "Ok" /\ SameBut(a, b, May(op))
       \/ code = "Ok" /\ op = "connect" /\ Connected(a, b)
       \/ code = "Ok" /\ op = "set_power" /\ PowerSet(arg, a, b)
       \/ code = "Ok" /\ op = "set_channel" /\ ChannelSet(arg, a, b)
       \/ code = "Ok" /\ op = "refresh_state" /\ Refreshed(a, b)

\* A call refused before it does anything: the gate is shut, or the argument
\* of set_channel is out of range.
Refusal(op, a, b, code) ==
    \/ /\ a.gate = "shut" /\ code = "Busy"
       /\ b = [a EXCEPT !.status = "recovering"]
    \/ /\ a.gate = "open" /\ op = "set_channel" /\ code = "InvalidRange"
       /\ b = a

\* A call as its caller sees it.
Call(op, arg, a, b, code) ==
    IF a.gate = "shut" THEN Refusal(op, a, b, code) ELSE Effect(op, arg, a, b, code)
=============================================================================
