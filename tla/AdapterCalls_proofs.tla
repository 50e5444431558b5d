------------------------- MODULE AdapterCalls_proofs -------------------------
(***************************************************************************)
(* A call of AdapterContract begins, lets what it learns be seen, and      *)
(* ends; RadioService takes a call for one step.  Both are right: a caller *)
(* who waits for his call sees one step from the report it began with to   *)
(* the report it ends with, whatever was stored in between.                *)
(*                                                                         *)
(* The proof adds the report a call began with to the contract, a history  *)
(* variable, and shows that AtomicAdapter is implemented by what is        *)
(* reported between calls.                                                 *)
(***************************************************************************)
EXTENDS AdapterContract, TLAPS

VARIABLE before    \* the report when the call under way began

callsVars == <<contractVars, before>>

CallsInit == Init /\ before = report

CallsNext ==
    /\ Next
    /\ before' = IF Free /\ ~Free' THEN report ELSE before

CallsSpec == CallsInit /\ [][CallsNext]_callsVars

\* The report a caller goes by.
Known == IF Free THEN report ELSE before

Atomic == INSTANCE AtomicAdapter WITH report <- Known, Args <- Nat

-----------------------------------------------------------------------------
(* The invariant.                                                          *)

Fields == {"channels", "manual", "power", "chan", "status", "gate"}

\* A call under way was begun with the gate open, in its turn, and has changed
\* no more of the report than it may when it fails.
UnderWay ==
    ~Free =>
        /\ call.op \in (IF started THEN SilvusOps ELSE {"connect"})
        /\ call.arg \in Nat
        /\ before.gate = "open"
        /\ SameBut(before, report, May(call.op))

CallsInv ==
    /\ started \in BOOLEAN
    /\ DOMAIN report = Fields /\ DOMAIN before = Fields
    /\ UnderWay

-----------------------------------------------------------------------------
(* Lemmas about reports.                                                   *)

LEMMA FreshFields == DOMAIN FreshReport(DefaultList) = Fields
BY DEF FreshReport, Fields

\* What a call learns adds up.
LEMMA SameButTrans ==
    ASSUME NEW a, NEW b, NEW c, NEW S, DOMAIN a = Fields, DOMAIN b = Fields,
           SameBut(a, b, S), SameBut(b, c, S)
    PROVE  SameBut(a, c, S)
BY DEF SameBut

\* The effect of the end of a call is the effect of the whole call, when what
\* it has changed on the way is no more than it may.
LEMMA WholeEffect ==
    ASSUME NEW a, NEW b, NEW c, DOMAIN a = Fields, DOMAIN b = Fields,
           NEW op, NEW arg, NEW code,
           SameBut(a, b, May(op)), Effect(op, arg, b, c, code)
    PROVE  Effect(op, arg, a, c, code)
<1>1. CASE code # "Ok" /\ SameBut(b, c, May(op))
  BY <1>1, SameButTrans DEF Effect
<1>2. CASE code = "Ok" /\ op = "connect" /\ Connected(b, c)
  BY <1>2 DEF Effect, Connected, SameBut, May, Fields
<1>3. CASE code = "Ok" /\ op = "set_power" /\ PowerSet(arg, b, c)
  BY <1>3 DEF Effect, PowerSet, SameBut, May, Fields
<1>4. CASE code = "Ok" /\ op = "set_channel" /\ ChannelSet(arg, b, c)
  BY <1>4 DEF Effect, ChannelSet, SameBut, May, Fields
<1>5. CASE code = "Ok" /\ op = "refresh_state" /\ Refreshed(b, c)
  BY <1>5 DEF Effect, Refreshed, SameBut, May, Fields
<1> QED BY <1>1, <1>2, <1>3, <1>4, <1>5 DEF Effect

-----------------------------------------------------------------------------

LEMMA CallsInductive == CallsInv /\ [CallsNext]_callsVars => CallsInv'
<1> SUFFICES ASSUME CallsInv, [CallsNext]_callsVars
             PROVE  CallsInv'
  OBVIOUS
<1> USE DEF CallsInv
<1>1. CASE UNCHANGED callsVars
  BY <1>1 DEF callsVars, contractVars, UnderWay, Free
<1>2. CASE CallsNext
  <2>1. before' = IF Free /\ ~Free' THEN report ELSE before
    BY <1>2 DEF CallsNext
  <2>2. DOMAIN before' = Fields
    BY <2>1
  <2>3. CASE Begin
    <3>1. Free /\ before' = report /\ report' = report /\ report.gate = "open" /\ ~Free'
      BY <2>1, <2>3 DEF Begin, Free, SilvusOps
    <3> QED BY <2>2, <2>3, <3>1 DEF Begin, UnderWay, SameBut
  <2>4. CASE Refuse
    <3>1. DOMAIN report' = Fields /\ Free' /\ started' = started
      BY <2>4 DEF Refuse, Refusal, Free
    <3> QED BY <2>2, <3>1 DEF UnderWay
  <2>5. CASE Work
    <3>1. DOMAIN report' = Fields /\ SameBut(report, report', May(call.op))
      BY <2>5 DEF Work, Learns, Report, Fields
    <3>2. before' = before /\ call' = call /\ started' = started /\ ~Free
      BY <2>1, <2>5 DEF Work, Free
    <3>3. SameBut(before, report', May(call.op))
      BY <3>1, <3>2, SameButTrans DEF UnderWay
    <3> QED BY <2>2, <3>1, <3>2, <3>3 DEF UnderWay
  <2>6. CASE End \/ Crash
    <3>1. DOMAIN report' = Fields
      BY <2>6, FreshFields DEF End, Effect, Report, Fields, Crash
    <3>2. Free'
      BY <2>6 DEF End, Crash, NoCall, Free
    <3>3. started' \in BOOLEAN
      BY <2>6 DEF End, Crash
    <3> QED BY <2>2, <3>1, <3>2, <3>3 DEF UnderWay
  <2>7. CASE GateOpens
    <3>1. /\ DOMAIN report' = Fields
          /\ \A f \in Fields \ {"gate"} : report'[f] = report[f]
          /\ report'.gate = "open"
      BY <2>7 DEF GateOpens, Fields
    <3>2. before' = before /\ call' = call /\ started' = started
      BY <2>1, <2>7 DEF GateOpens, Free
    <3>3. ~Free => SameBut(before, report', May(call.op))
      BY <3>1 DEF UnderWay, SameBut, Fields
    <3> QED BY <2>2, <3>1, <3>2, <3>3 DEF UnderWay, Free
  <2> QED BY <1>2, <2>3, <2>4, <2>5, <2>6, <2>7 DEF CallsNext, Next
<1> QED BY <1>1, <1>2

LEMMA CallsInvariance == CallsSpec => []CallsInv
<1>1. CallsInit => CallsInv
  <2> SUFFICES ASSUME CallsInit
               PROVE  CallsInv
    OBVIOUS
  <2>1. report = FreshReport(DefaultList) /\ before = report /\ started = FALSE /\ Free
    BY DEF CallsInit, Init, Free, NoCall
  <2> QED BY <2>1, FreshFields DEF CallsInv, UnderWay
<1> QED BY <1>1, CallsInductive, PTL DEF CallsSpec

\* AtomicAdapter speaks of calls in the words of RadioAdapter too.
LEMMA SameWords ==
    /\ Atomic!FreshReport(DefaultList) = FreshReport(DefaultList)
    /\ Atomic!Codes = Codes /\ Atomic!SilvusOps = SilvusOps
    /\ \A op, arg, a, b, code :
          /\ Effect(op, arg, a, b, code) => Atomic!Effect(op, arg, a, b, code)
          /\ Call(op, arg, a, b, code) => Atomic!Call(op, arg, a, b, code)
<1>1. /\ Atomic!FreshReport(DefaultList) = FreshReport(DefaultList)
      /\ Atomic!Codes = Codes /\ Atomic!SilvusOps = SilvusOps
      /\ Atomic!Statuses = Statuses /\ Atomic!Unset = Unset
  BY DEF Atomic!FreshReport, FreshReport, Atomic!Codes, Codes, Atomic!SilvusOps,
         SilvusOps, Atomic!Statuses, Statuses, Atomic!Unset, Unset
<1>2. /\ \A op : Atomic!May(op) = May(op)
      /\ \A a, b, S : Atomic!SameBut(a, b, S) <=> SameBut(a, b, S)
      /\ \A a : Atomic!Report(a) <=> Report(a)
      /\ \A list, f : Atomic!ChannelOf(list, f) = ChannelOf(list, f)
  BY <1>1 DEF Atomic!May, May, Atomic!SameBut, SameBut, Atomic!Report, Report,
         Atomic!ChannelOf, ChannelOf
<1>3. ASSUME NEW op, NEW arg, NEW a, NEW b, NEW code, Effect(op, arg, a, b, code)
      PROVE  Atomic!Effect(op, arg, a, b, code)
  <2>1. /\ Connected(a, b) => Atomic!Connected(a, b)
        /\ PowerSet(arg, a, b) => Atomic!PowerSet(arg, a, b)
        /\ ChannelSet(arg, a, b) => Atomic!ChannelSet(arg, a, b)
        /\ Refreshed(a, b) => Atomic!Refreshed(a, b)
    BY <1>2 DEF Connected, Atomic!Connected, PowerSet, Atomic!PowerSet, ChannelSet,
           Atomic!ChannelSet, Refreshed, Atomic!Refreshed
  <2> QED BY <1>1, <1>2, <1>3, <2>1 DEF Effect, Atomic!Effect
<1>4. ASSUME NEW op, NEW arg, NEW a, NEW b, NEW code, Call(op, arg, a, b, code)
      PROVE  Atomic!Call(op, arg, a, b, code)
  BY <1>3, <1>4 DEF Call, Atomic!Call, Refusal, Atomic!Refusal
<1> QED BY <1>1, <1>3, <1>4

-----------------------------------------------------------------------------
(* What a caller sees.                                                     *)

\* The end of a call, from the report the call began with.
LEMMA EndIsWhole ==
    ASSUME CallsInv, End
    PROVE  /\ Effect(call.op, call.arg, before, report', outcome')
           /\ call.op \in (IF started THEN SilvusOps ELSE {"connect"})
           /\ call.arg \in Nat /\ before.gate = "open"
<1>1. /\ call.op \in (IF started THEN SilvusOps ELSE {"connect"})
      /\ call.arg \in Nat /\ before.gate = "open"
      /\ SameBut(before, report, May(call.op))
      /\ DOMAIN report = Fields /\ DOMAIN before = Fields
  BY DEF CallsInv, UnderWay, End
<1>2. Effect(call.op, call.arg, report, report', outcome')
  BY DEF End
<1> QED BY <1>1, <1>2, WholeEffect

\* A call that returns has done, from its beginning to its end, what
\* IRadioAdapter says of its operation and of the code it returned, and was
\* begun with the gate open: whatever it stored on the way and whether or not
\* it was read there.
CallsAreWhole ==
    [][~Free /\ Free' /\ outcome' # "none" =>
          /\ before.gate = "open"
          /\ Effect(call.op, call.arg, before, report', outcome')]_callsVars

\* So it is for every adapter that keeps the contract, in any interleaving of
\* its calls with readers, the clock of the gate and the end of the process.
THEOREM WholeCalls == CallsSpec => CallsAreWhole
<1>1. CallsInv /\ [CallsNext]_callsVars /\ ~Free /\ Free' /\ outcome' # "none" =>
        /\ before.gate = "open"
        /\ Effect(call.op, call.arg, before, report', outcome')
  <2> SUFFICES ASSUME CallsInv, [CallsNext]_callsVars, ~Free, Free', outcome' # "none"
               PROVE  End
    BY EndIsWhole
  <2>1. Next
    BY DEF CallsNext, callsVars, contractVars, Free
  <2> QED BY <2>1 DEF Next, Begin, Refuse, Work, GateOpens, Crash, Free
<1> QED BY <1>1, CallsInvariance, PTL DEF CallsSpec, CallsAreWhole

\* To a caller who waits for its calls, an adapter that keeps AdapterContract
\* is an AtomicAdapter: what RadioService takes for one step is one.
THEOREM CallsAreSteps == CallsSpec => Atomic!Spec
<1>1. CallsInit => Atomic!Init
  BY SameWords DEF CallsInit, Init, Atomic!Init, Known, Free, NoCall
<1>2. CallsInv /\ [CallsNext]_callsVars => [Atomic!Next]_(Atomic!atomicVars)
  <2> SUFFICES ASSUME CallsInv, [CallsNext]_callsVars
               PROVE  Atomic!Next \/ UNCHANGED Atomic!atomicVars
    OBVIOUS
  <2> USE DEF Atomic!atomicVars, Known
  <2>1. CASE UNCHANGED callsVars
    BY <2>1 DEF callsVars, contractVars, Free
  <2>2. CASE CallsNext
    <3>1. before' = IF Free /\ ~Free' THEN report ELSE before
      BY <2>2 DEF CallsNext
    <3>2. CASE Begin \/ Work
      <4>1. UNCHANGED started /\ ~Free'
        BY <3>2 DEF Begin, Work, Free, SilvusOps
      <4>2. Free => report' = report
        BY <3>2 DEF Begin, Work
      <4>3. Known' = Known
        BY <3>1, <4>1, <4>2
      <4> QED BY <4>1, <4>3
    <3>3. CASE Refuse
      <4>1. PICK op \in SilvusOps : Refusal(op, report, report', outcome')
        BY <3>3 DEF Refuse
      <4>2. Free /\ Free' /\ started /\ UNCHANGED started
        BY <3>3 DEF Refuse, Free
      <4>3. CASE report.gate = "shut"
        <5>1. Call(op, 0, report, report', outcome') /\ outcome' \in Codes
          BY <4>1, <4>3 DEF Call, Refusal, Codes
        <5>2. Atomic!Command
          BY <4>2, <5>1, SameWords DEF Atomic!Command
        <5> QED BY <5>2 DEF Atomic!Next
      <4>4. CASE report.gate # "shut"
        BY <4>1, <4>2, <4>4 DEF Refusal
      <4> QED BY <4>3, <4>4
    <3>4. CASE End
      <4>1. ~Free /\ Free' /\ started' = TRUE
        BY <3>4 DEF End, Free, NoCall
      <4>2. Known = before /\ Known' = report'
        BY <4>1
      <4>3. /\ Effect(call.op, call.arg, Known, Known', outcome')
            /\ call.op \in (IF started THEN SilvusOps ELSE {"connect"})
            /\ call.arg \in Nat /\ Known.gate = "open"
        BY <3>4, <4>2, EndIsWhole
      <4>4. outcome' \in Codes
        BY <4>3 DEF Effect
      <4> HIDE DEF Known
      <4>5. CASE started
        <5>1. Call(call.op, call.arg, Known, Known', outcome')
          BY <4>3 DEF Call
        <5>2. started' = started
          BY <4>1, <4>5 DEF CallsInv
        <5>3. Atomic!Command
          BY <4>3, <4>4, <4>5, <5>1, <5>2, SameWords DEF Atomic!Command
        <5> QED BY <5>3 DEF Atomic!Next
      <4>6. CASE ~started
        <5>1. Effect("connect", 0, Known, Known', outcome')
          BY <4>3, <4>6 DEF Effect
        <5>2. Atomic!Connect
          BY <4>1, <4>4, <4>6, <5>1, SameWords DEF Atomic!Connect
        <5> QED BY <5>2 DEF Atomic!Next
      <4> QED BY <4>5, <4>6
    <3>5. CASE GateOpens
      <4>1. UNCHANGED started /\ Free' = Free /\ before' = before
        BY <3>1, <3>5 DEF GateOpens, Free
      <4>2. CASE Free
        <5>1. Atomic!GateOpens
          BY <3>5, <4>1, <4>2 DEF GateOpens, Atomic!GateOpens
        <5> QED BY <5>1 DEF Atomic!Next
      <4>3. CASE ~Free
        BY <4>1, <4>3
      <4> QED BY <4>2, <4>3
    <3>6. CASE Crash
      <4>1. Known' = FreshReport(DefaultList) /\ started' = FALSE
        BY <3>6 DEF Crash, Free, NoCall
      <4>2. Atomic!Crash
        BY <4>1, SameWords DEF Atomic!Crash
      <4> QED BY <4>2 DEF Atomic!Next
    <3> QED BY <2>2, <3>2, <3>3, <3>4, <3>5, <3>6 DEF CallsNext, Next
  <2> QED BY <2>1, <2>2
<1> QED BY <1>1, <1>2, CallsInvariance, PTL DEF CallsSpec, Atomic!Spec
=============================================================================
