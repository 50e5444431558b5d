----------------------- MODULE SilvusRefinement_proofs -----------------------
(***************************************************************************)
(* SilvusAdapter implements AdapterContract: every step of the adapter,    *)
(* the radio and the link is a step of the contract or none that a caller  *)
(* can see.                                                                *)
(***************************************************************************)
EXTENDS SilvusAdapter_proofs

\* What the adapter shows is a report: its channel is one of its list.
LEMMA ReportNowOK ==
    ASSUME IInv'
    PROVE  Contract!Report(ReportNow')
BY DEF IInv, TypeOK, ReportNow, Contract!Report, Contract!Unset, Unset,
       Contract!Statuses, Statuses

\* A call that goes on, and has learnt no more than its operation may.
LEMMA LearningIsWork ==
    ASSUME ~Free, UNCHANGED <<call, outcome, started>>,
           Contract!Report(ReportNow'),
           Contract!SameBut(ReportNow, ReportNow', Contract!May(call.op))
    PROVE  Contract!Next
BY DEF Contract!Next, Contract!Work, Contract!Free, Free, Contract!Learns

\* A call that ends without success, and has learnt no more than it may.
LEMMA FailureIsEnd ==
    ASSUME ~Free, started', NEW code \in Contract!Codes \ {"none", "Ok"}, Return(code),
           Contract!Report(ReportNow'),
           Contract!SameBut(ReportNow, ReportNow', Contract!May(call.op))
    PROVE  Contract!Next
BY DEF Contract!Next, Contract!End, Contract!Free, Free, Contract!Effect, Return,
       NoCall, Contract!NoCall

-----------------------------------------------------------------------------
(* The steps.  Every one keeps IInv, so what is shown after it is a report. *)

\* connect(): a refused or lost answer leaves the report as it is or with the
\* new frequency list, success makes it ready with the gate open.
LEMMA ConnectRefines ==
    ASSUME IInv, Contract!Report(ReportNow'), Connect
    PROVE  Contract!Next
<1> USE DEF Answered, radioVars, adapterVars
<1>1. CASE ConnectBegin
  <2>1. window = 0
    BY <1>1 DEF ConnectBegin, IInv, CallOK
  <2>2. Contract!Begin
    BY <1>1, <2>1 DEF ConnectBegin, Enter, Contract!Begin, Contract!Free, Free,
          ReportNow
  <2> QED BY <2>2 DEF Contract!Next
<1>2. CASE ConnectFailed
  <2>1. PICK code \in {"Unavailable", "InternalError", "InvalidRange"} : Return(code)
    BY <1>2 DEF ConnectFailed, Fail, CodeOf, Good
  <2>2. ~Free /\ started' /\ ReportNow' = ReportNow
    BY <1>2 DEF ConnectFailed, Free, ReportNow
  <2>3. Contract!SameBut(ReportNow, ReportNow', Contract!May(call.op))
    BY <2>2 DEF Contract!SameBut
  <2> QED BY <2>1, <2>2, <2>3, FailureIsEnd DEF Contract!Codes
<1>3. CASE ConnectProfiles
  <2>1. Contract!SameBut(ReportNow, ReportNow', Contract!May(call.op))
    BY <1>3 DEF ConnectProfiles, ReportNow, Contract!SameBut, Contract!May
  <2> QED BY <1>3, <2>1, LearningIsWork DEF ConnectProfiles, GoOn, Free
<1>4. CASE ConnectFinished
  <2>1. Contract!Connected(ReportNow, ReportNow')
    BY <1>4 DEF ConnectFinished, ReportNow, Contract!Connected, Contract!SameBut
  <2>2. Contract!End
    BY <1>4, <2>1 DEF ConnectFinished, Return, NoCall, Contract!NoCall,
          Contract!End, Contract!Free, Contract!Effect, Contract!Codes
  <2> QED BY <2>2 DEF Contract!Next
<1> QED BY <1>1, <1>2, <1>3, <1>4 DEF Connect

\* Busy while the window is open: the status says recovering, the rest stays.
LEMMA RefusalRefines ==
    ASSUME IInv, NEW op \in SilvusOps, RefuseRecovering(op)
    PROVE  Contract!Next
<1>1. window > 0 /\ status' = "recovering" /\ outcome' = "Busy"
      /\ UNCHANGED <<channels, manual, power, chan, window, started, call>>
  BY DEF RefuseRecovering, Refuse
<1>2. op \in Contract!SilvusOps /\ Contract!Refusal(op, ReportNow, ReportNow', outcome')
  BY <1>1 DEF ReportNow, Contract!Refusal, SilvusOps, Contract!SilvusOps
<1>3. Contract!Refuse
  BY <1>2 DEF RefuseRecovering, Refuse, Idle, Free, Contract!Refuse, Contract!Free
<1> QED BY <1>3 DEF Contract!Next

\* set_power: refused by the mode or the range, refused by the radio, or done.
LEMMA SetPowerRefines ==
    ASSUME IInv, Contract!Report(ReportNow'), SetPower
    PROVE  Contract!Next
<1> USE DEF Answered, radioVars, adapterVars
<1>1. ASSUME NEW p \in PowerRequests, SetPowerBegin(p)
      PROVE  Contract!Next
  <2>1. Contract!Begin
    BY <1>1, AdapterAssumption DEF SetPowerBegin, Idle, Enter, SilvusOps, Contract!SilvusOps,
          Contract!Begin, Contract!Free, Free, ReportNow
  <2> QED BY <2>1 DEF Contract!Next
<1>2. CASE SetPowerProbed
  <2>1. Contract!SameBut(ReportNow, ReportNow', Contract!May(call.op)) /\ ~Free
    BY <1>2 DEF SetPowerProbed, ReportNow, Contract!SameBut, Contract!May, Free
  <2>2. ASSUME NEW code \in {"Busy", "InvalidRange"}, Return(code)
        PROVE  Contract!Next
    <3>1. started'
      BY <1>2 DEF SetPowerProbed, IInv, CallOK, SilvusOps
    <3> QED BY <2>1, <2>2, <3>1, FailureIsEnd DEF Contract!Codes
  <2>3. ASSUME NEW q, GoOn(q)
        PROVE  Contract!Next
    BY <1>2, <2>1, <2>3, LearningIsWork DEF SetPowerProbed, GoOn
  <2> QED BY <1>2, <2>2, <2>3 DEF SetPowerProbed
<1>3. CASE SetPowerDone
  <2>1. Contract!PowerSet(call.arg, ReportNow, ReportNow')
    BY <1>3 DEF SetPowerDone, ReportNow, Contract!PowerSet, Contract!SameBut
  <2>2. started'
    BY <1>3 DEF SetPowerDone, IInv, CallOK, SilvusOps
  <2>3. Contract!End
    BY <1>3, <2>1, <2>2 DEF SetPowerDone, Return, NoCall,
          Contract!NoCall, Contract!End, Contract!Free, Contract!Effect,
          Contract!Codes
  <2> QED BY <2>3 DEF Contract!Next
<1>4. CASE SetPowerFailed
  <2>1. PICK code \in {"Unavailable", "InternalError", "InvalidRange"} : Return(code)
    BY <1>4 DEF SetPowerFailed, Fail, CodeOf, Good
  <2>2. ~Free /\ started' /\ ReportNow' = ReportNow
    BY <1>4 DEF SetPowerFailed, Free, ReportNow, IInv, CallOK, SilvusOps
  <2>3. Contract!SameBut(ReportNow, ReportNow', Contract!May(call.op))
    BY <2>2 DEF Contract!SameBut
  <2> QED BY <2>1, <2>2, <2>3, FailureIsEnd DEF Contract!Codes
<1> QED BY <1>1, <1>2, <1>3, <1>4 DEF SetPower

\* set_channel: refused, failed, or done and recovering.
LEMMA SetChannelRefines ==
    ASSUME IInv, Contract!Report(ReportNow'), SetChannel
    PROVE  Contract!Next
<1> USE DEF Answered, radioVars, adapterVars
<1>1. ASSUME NEW r \in ChannelRequests, SetChannelRefused(r[1], r[2])
      PROVE  Contract!Next
  <2>1. Contract!Refusal("set_channel", ReportNow, ReportNow', outcome')
    BY <1>1 DEF SetChannelRefused, Refuse, ReportNow, Contract!Refusal
  <2>2. Contract!Refuse
    BY <1>1, <2>1 DEF SetChannelRefused, Refuse, Idle, Free, Contract!Free,
          Contract!Refuse, Contract!SilvusOps
  <2> QED BY <2>2 DEF Contract!Next
<1>2. ASSUME NEW r \in ChannelRequests, SetChannelBegin(r[1], r[2])
      PROVE  Contract!Next
  <2>1. Contract!Begin
    BY <1>2, AdapterAssumption DEF SetChannelBegin, Idle, Enter, SilvusOps, Contract!SilvusOps,
          Contract!Begin, Contract!Free, Free, ReportNow
  <2> QED BY <2>1 DEF Contract!Next
<1>3. CASE SetChannelDone
  <2>1. started' /\ RecoveryWindow > 0
    BY <1>3, AdapterAssumption DEF SetChannelDone, IInv, CallOK, SilvusOps
  <2>2. Contract!ChannelSet(call.arg, ReportNow, ReportNow')
    BY <1>3, <2>1 DEF SetChannelDone, ReportNow, Contract!ChannelSet,
          Contract!SameBut, ChannelOf, Contract!ChannelOf
  <2>3. Contract!End
    BY <1>3, <2>1, <2>2 DEF SetChannelDone, Return, NoCall,
          Contract!NoCall, Contract!End, Contract!Free, Contract!Effect,
          Contract!Codes
  <2> QED BY <2>3 DEF Contract!Next
<1>4. CASE SetChannelFailed
  <2>1. PICK code \in {"Unavailable", "InternalError", "InvalidRange"} : Return(code)
    BY <1>4 DEF SetChannelFailed, Fail, CodeOf, Good
  <2>2. ~Free /\ started' /\ ReportNow' = ReportNow
    BY <1>4 DEF SetChannelFailed, Free, ReportNow, IInv, CallOK, SilvusOps
  <2>3. Contract!SameBut(ReportNow, ReportNow', Contract!May(call.op))
    BY <2>2 DEF Contract!SameBut
  <2> QED BY <2>1, <2>2, <2>3, FailureIsEnd DEF Contract!Codes
<1> QED BY <1>1, <1>2, <1>3, <1>4 DEF SetChannel

\* refresh_state: what it has read shows up as it goes; the status only at
\* its end.
LEMMA RefreshRefines ==
    ASSUME IInv, Contract!Report(ReportNow'), Refresh
    PROVE  Contract!Next
<1> USE DEF Answered, radioVars, adapterVars
<1>1. CASE RefreshBegin
  <2>1. Contract!Begin
    BY <1>1 DEF RefreshBegin, Idle, Enter, SilvusOps, Contract!SilvusOps,
          Contract!Begin, Contract!Free, Free, ReportNow
  <2> QED BY <2>1 DEF Contract!Next
<1>2. CASE RefreshFailed
  <2>1. PICK code \in {"Unavailable", "InternalError", "InvalidRange"} : Return(code)
    BY <1>2 DEF RefreshFailed, Fail, CodeOf, Good
  <2>2. ~Free /\ started' /\ ReportNow' = ReportNow
    BY <1>2 DEF RefreshFailed, Free, ReportNow, IInv, CallOK, SilvusOps
  <2>3. Contract!SameBut(ReportNow, ReportNow', Contract!May(call.op))
    BY <2>2 DEF Contract!SameBut
  <2> QED BY <2>1, <2>2, <2>3, FailureIsEnd DEF Contract!Codes
<1>3. CASE RefreshPower \/ RefreshFreq
  <2>1. Contract!SameBut(ReportNow, ReportNow', Contract!May(call.op))
    BY <1>3 DEF RefreshPower, RefreshFreq, ReportNow, Contract!SameBut, Contract!May
  <2> QED BY <1>3, <2>1, LearningIsWork DEF RefreshPower, RefreshFreq,
            GoOn, Free
<1>4. CASE RefreshFinished
  <2>1. Contract!Refreshed(ReportNow, ReportNow')
    BY <1>4 DEF RefreshFinished, ReportNow, Contract!Refreshed, Contract!SameBut
  <2>2. started'
    BY <1>4 DEF RefreshFinished, IInv, CallOK, SilvusOps
  <2>3. Contract!End
    BY <1>4, <2>1, <2>2 DEF RefreshFinished, Return, NoCall,
          Contract!NoCall, Contract!End, Contract!Free, Contract!Effect,
          Contract!Codes
  <2> QED BY <2>3 DEF Contract!Next
<1> QED BY <1>1, <1>2, <1>3, <1>4 DEF Refresh

\* The radio, the link and the other masters show a caller nothing; a restart
\* is the contract's crash, and the clock may open the gate.
LEMMA EnvironmentRefines ==
    ASSUME IInv, Environment
    PROVE  Contract!Next \/ UNCHANGED Contract!contractVars
<1> USE DEF Contract!contractVars, ReportNow
<1>1. CASE RadioServes \/ TimeOut \/ Garble
  BY <1>1 DEF RadioServes, TimeOut, Garble, adapterVars
<1>2. ASSUME NEW q, StrayServed(q) \/ Maintain(q)
      PROVE  UNCHANGED Contract!contractVars
  BY <1>2 DEF StrayServed, Maintain, adapterVars, callVars
<1>3. CASE Restart
  <2>1. Contract!Crash
    BY <1>3 DEF Restart, Contract!Crash, Contract!FreshReport, Contract!NoCall,
          NoCall, Unset, Contract!Unset
  <2> QED BY <2>1 DEF Contract!Next
<1>4. CASE Tick
  <2>1. window' = 0 \/ (window' > 0 <=> window > 0)
    BY <1>4 DEF Tick, Elapse, IInv, TypeOK
  <2>2. CASE window' > 0 <=> window > 0
    BY <1>4, <2>2 DEF Tick, callVars
  <2>3. CASE window' = 0
    <3>1. Contract!GateOpens
      BY <1>4, <2>3 DEF Tick, callVars, Contract!GateOpens
    <3> QED BY <3>1 DEF Contract!Next
  <2> QED BY <2>1, <2>2, <2>3
<1> QED BY <1>1, <1>2, <1>3, <1>4 DEF Environment

-----------------------------------------------------------------------------

\* Whatever the radio, the link and the radio's other masters do, callers of
\* the operations see what AdapterContract promises: RadioService is built on
\* no more than that.
THEOREM KeepsPromise == Spec => Promise
<1>1. Init => Contract!Init
  BY DEF Init, AdapterInit, Contract!Init, ReportNow, Contract!FreshReport, NoCall,
         Contract!NoCall, Unset, Contract!Unset
<1>2. IInv /\ [Next]_vars => [Contract!Next]_Contract!contractVars
  <2> SUFFICES ASSUME IInv, [Next]_vars
               PROVE  Contract!Next \/ UNCHANGED Contract!contractVars
    OBVIOUS
  <2>1. Contract!Report(ReportNow')
    BY Inductive, ReportNowOK
  <2>2. CASE UNCHANGED vars
    BY <2>2 DEF vars, adapterVars, callVars, Contract!contractVars, ReportNow
  <2>3. CASE Next
    BY <2>1, <2>3, ConnectRefines, RefusalRefines, SetPowerRefines,
       SetChannelRefines, RefreshRefines, EnvironmentRefines DEF Next
  <2> QED BY <2>2, <2>3
<1> QED BY <1>1, <1>2, Invariance, PTL DEF Spec, Promise, Contract!Spec

-----------------------------------------------------------------------------
(* The whole chain.                                                        *)

VARIABLE before    \* the report when the call under way began

Calls == INSTANCE AdapterCalls_proofs WITH report <- ReportNow

\* The adapter, with that report kept.
KeepingSpec ==
    /\ Spec /\ before = ReportNow
    /\ [][before' = IF Free /\ ~Free' THEN ReportNow ELSE before]_<<vars, before>>

\* AdapterCalls_proofs speaks of the same contract.
LEMMA SameContract == (Contract!Init => Calls!Init) /\ (Contract!Next => Calls!Next)
<1> USE DEF Contract!NoCall, Calls!NoCall, Contract!Free, Calls!Free,
            Contract!FreshReport, Calls!FreshReport, Contract!Unset, Calls!Unset,
            Contract!SilvusOps, Calls!SilvusOps, Contract!Codes, Calls!Codes,
            Contract!Statuses, Calls!Statuses, Contract!SameBut, Calls!SameBut,
            Contract!May, Calls!May, Contract!Report, Calls!Report
<1>1. Contract!Init => Calls!Init
  BY DEF Contract!Init, Calls!Init
<1>2. Contract!Begin => Calls!Begin
  BY DEF Contract!Begin, Calls!Begin
<1>3. Contract!Refuse => Calls!Refuse
  BY DEF Contract!Refuse, Calls!Refuse, Contract!Refusal, Calls!Refusal
<1>4. Contract!Work => Calls!Work
  BY DEF Contract!Work, Calls!Work, Contract!Learns, Calls!Learns
<1>5. Contract!End => Calls!End
  BY DEF Contract!End, Calls!End, Contract!Effect, Calls!Effect, Contract!Connected,
         Calls!Connected, Contract!PowerSet, Calls!PowerSet, Contract!ChannelSet,
         Calls!ChannelSet, Contract!ChannelOf, Calls!ChannelOf, Contract!Refreshed,
         Calls!Refreshed
<1>6. (Contract!GateOpens => Calls!GateOpens) /\ (Contract!Crash => Calls!Crash)
  BY DEF Contract!GateOpens, Calls!GateOpens, Contract!Crash, Calls!Crash
<1> QED BY <1>1, <1>2, <1>3, <1>4, <1>5, <1>6 DEF Contract!Next, Calls!Next

\* Whatever the radio, the link and the radio's other masters do, to a caller
\* that waits for its calls the adapter is an AtomicAdapter.
THEOREM SilvusIsAtomic == KeepingSpec => Calls!Atomic!Spec
<1>1. KeepingSpec => Calls!CallsSpec
  <2>1. Contract!Init /\ before = ReportNow => Calls!CallsInit
    BY SameContract DEF Calls!CallsInit
  <2>2. /\ [Contract!Next]_(Contract!contractVars)
        /\ [before' = IF Free /\ ~Free' THEN ReportNow ELSE before]_<<vars, before>>
        => [Calls!CallsNext]_(Calls!callsVars)
    <3> DEFINE kept == before' = IF Free /\ ~Free' THEN ReportNow ELSE before
    <3> SUFFICES ASSUME [Contract!Next]_(Contract!contractVars), [kept]_<<vars, before>>
                 PROVE  Calls!CallsNext \/ UNCHANGED Calls!callsVars
      OBVIOUS
    <3>1. CASE UNCHANGED <<vars, before>>
      BY <3>1 DEF vars, adapterVars, callVars, ReportNow, Calls!callsVars,
            Calls!contractVars
    <3>2. CASE kept /\ Contract!Next
      BY <3>2, SameContract DEF Calls!CallsNext, Calls!Free, Free
    <3>3. CASE kept /\ UNCHANGED Contract!contractVars
      BY <3>3 DEF Contract!contractVars, Calls!callsVars, Calls!contractVars, Free
    <3> QED BY <3>1, <3>2, <3>3
  <2> QED BY <2>1, <2>2, KeepsPromise, PTL DEF KeepingSpec, Promise, Contract!Spec,
             Calls!CallsSpec
<1> QED BY <1>1, Calls!CallsAreSteps
=============================================================================
