------------------------- MODULE RadioService_proofs -------------------------
(***************************************************************************)
(* Proofs about RadioService, for any number of radios, any requests, any  *)
(* size of the ring and any adapters that keep to RadioAdapter.            *)
(***************************************************************************)
EXTENDS RadioService, SequenceTheorems, FiniteSetTheorems, TLAPS

-----------------------------------------------------------------------------
(* The inductive invariant.                                                *)

\* No request is handled before the radios have been connected, and nothing
\* is told of one.
PhaseOK ==
    phase = "starting" =>
        /\ handler.step = "idle" /\ reply = "none"
        /\ \A i \in DOMAIN ring : ring[i].tag # "state"

\* A command that has reached its adapter carries a power or an index of the
\* frequency list, and is not answered yet.
HandlerOK ==
    handler.step # "idle" =>
        /\ reply = "none"
        /\ handler.post.kind \in {"power", "channel"}
        /\ handler.post.kind = "power" => handler.arg \in Nat
        /\ handler.post.kind = "channel" => handler.arg \in DOMAIN handler.list

\* Once the adapter has returned Ok it reports what the command asked for.
DoneOK ==
    handler.step \in {"publishing", "recording"} =>
        LET a == adapters[handler.post.id]
        IN  IF handler.post.kind = "power" THEN a.power = handler.arg
            ELSE a.chan = handler.arg

IInv ==
    /\ TypeOK
    /\ PhaseOK
    /\ HandlerOK
    /\ DoneOK
    /\ GateIsShown
    /\ LastStateIsCurrent
    /\ OkIsTrue

-----------------------------------------------------------------------------
(* Lemmas about the operators.                                             *)

\* findChannelIndex of the frequency at an index is that index again when no
\* frequency is in the list twice.
LEMMA IndexAgain ==
    ASSUME NEW list, NoTwice(list), NEW i \in DOMAIN list
    PROVE  ChannelOf(list, list[i]) = i
BY DEF ChannelOf, NoTwice

\* findChannelIndex returns an index of the list, or 0.
LEMMA IndexOrNone ==
    ASSUME NEW list, NEW f, ChannelOf(list, f) # 0
    PROVE  ChannelOf(list, f) \in DOMAIN list
<1>1. \E i \in DOMAIN list : list[i] = f
  BY DEF ChannelOf
<1>2. (CHOOSE i \in DOMAIN list : list[i] = f) \in DOMAIN list
  BY <1>1
<1> QED BY <1>1, <1>2 DEF ChannelOf

\* What a call may do to a report whose gate is shown as recovering.
LEMMA CallEffect ==
    ASSUME NEW op \in {"set_power", "set_channel"}, NEW arg, NEW a, NEW b, NEW code,
           Report(a), a.gate = "shut" => a.status = "recovering",
           Call(op, arg, a, b, code)
    PROVE  /\ Report(b)
           /\ b.channels = a.channels
           /\ b.gate = "shut" => b.status = "recovering"
           /\ code # "none"
           /\ code # "Ok" => /\ b.status = a.status /\ b.power = a.power
                             /\ b.chan = a.chan
           /\ code = "Ok" => IF op = "set_power" THEN b.power = arg
                             ELSE b.chan = ChannelOf(a.channels, arg)
<1> USE DEF Report, Unset
<1>1. CASE a.gate = "shut"
  BY <1>1 DEF Call, Refusal
<1>2. CASE a.gate = "open"
  <2>1. Effect(op, arg, a, b, code)
    BY <1>2 DEF Call
  <2>2. CASE code # "Ok" /\ SameBut(a, b, May(op))
    BY <1>2, <2>1, <2>2 DEF Effect, SameBut, May, Codes
  <2>3. CASE code = "Ok" /\ op = "set_power" /\ PowerSet(arg, a, b)
    BY <1>2, <2>1, <2>3 DEF Effect, SameBut, PowerSet
  <2>4. CASE code = "Ok" /\ op = "set_channel" /\ ChannelSet(arg, a, b)
    BY <1>2, <2>1, <2>4 DEF Effect, SameBut, ChannelSet
  <2> QED BY <2>1, <2>2, <2>3, <2>4 DEF Effect
<1> QED BY <1>1, <1>2

-----------------------------------------------------------------------------
(* The ring.                                                               *)

\* What the ring keeps of s: the end of it.
LEMMA KeptIsEnd ==
    ASSUME NEW S, NEW s \in Seq(S)
    PROVE  /\ Kept(s) \in Seq(S)
           /\ Len(Kept(s)) = IF Len(s) > RingSize THEN RingSize ELSE Len(s)
           /\ \A i \in 1..Len(Kept(s)) : Kept(s)[i] = s[i + Len(s) - Len(Kept(s))]
<1>1. Len(s) \in Nat /\ RingSize \in Nat
  BY ServiceAssumption
<1>2. CASE Len(s) <= RingSize
  BY <1>1, <1>2 DEF Kept
<1>3. CASE Len(s) > RingSize
  <2> DEFINE k == [i \in 1..RingSize |-> s[i + Len(s) - RingSize]]
  <2>1. \A i \in 1..RingSize : i + Len(s) - RingSize \in 1..Len(s)
    BY <1>1, <1>3
  <2>2. \A i \in 1..RingSize : s[i + Len(s) - RingSize] \in S
    BY <2>1, ElementOfSeq
  <2>3. k \in [1..RingSize -> S]
    BY <2>2
  <2>4. k \in Seq(S) /\ Len(k) = RingSize
    <3> HIDE DEF k
    <3>1. k \in Seq(S)
      BY <1>1, <2>3, SeqDef
    <3> QED BY <1>1, <2>3, <3>1, LenProperties
  <2>5. Kept(s) = k
    BY <1>1, <1>3 DEF Kept
  <2> HIDE DEF k
  <2>6. \A i \in 1..RingSize : k[i] = s[i + Len(s) - RingSize]
    BY DEF k
  <2> QED BY <1>1, <1>3, <2>4, <2>5, <2>6
<1> QED BY <1>1, <1>2, <1>3

\* The ring after Publish: the end of what was in it and of what is new.
LEMMA PublishKeeps ==
    ASSUME TypeOK, NEW es \in Seq(Events), Len(es) <= RingSize, Publish(es)
    PROVE  /\ ring' \in Seq(Events) /\ Len(ring') <= RingSize
           /\ Len(es) <= Len(ring') /\ Len(ring') <= Len(ring) + Len(es)
           /\ \A i \in 1..Len(ring') :
                 ring'[i] = (ring \o es)[i + Len(ring) + Len(es) - Len(ring')]
           /\ unseen' \in {Lost, Never} \cup 0..(RingSize + 1)
           /\ connected' => unseen' \in 0..Len(ring')
<1> DEFINE s == ring \o es
<1>1. ring \in Seq(Events) /\ Len(ring) \in Nat /\ Len(es) \in Nat
      /\ RingSize \in Nat /\ RingSize > 1 /\ Len(ring) <= RingSize
  BY ServiceAssumption DEF TypeOK
<1>2. s \in Seq(Events) /\ Len(s) = Len(ring) + Len(es)
  BY <1>1, ConcatProperties
<1>3. ring' = Kept(s)
  BY DEF Publish
<1> HIDE DEF s
<1>4. /\ ring' \in Seq(Events)
      /\ Len(ring') = IF Len(s) > RingSize THEN RingSize ELSE Len(s)
      /\ \A i \in 1..Len(ring') : ring'[i] = s[i + Len(s) - Len(ring')]
  BY <1>2, <1>3, KeptIsEnd
<1>5. /\ unseen' \in {Lost, Never} \cup 0..(RingSize + 1)
      /\ connected' => unseen' \in 0..Len(ring')
  <2>1. unseen \in {-1, -2} \cup 0..(RingSize + 1) /\ (connected => unseen \in 0..Len(ring))
    BY DEF TypeOK, Lost, Never
  <2>2. unseen' = IF unseen \in {-1, -2} THEN unseen
                  ELSE IF unseen + Len(es) <= RingSize + 1 THEN unseen + Len(es)
                  ELSE RingSize + 1
    BY DEF Publish, AtMost, Lost, Never
  <2>3. connected' <=> (connected /\ unseen + Len(es) <= RingSize)
    BY DEF Publish
  <2> QED BY <1>1, <1>2, <1>4, <2>1, <2>2, <2>3 DEF Lost, Never
<1>6. Len(ring') <= RingSize /\ Len(es) <= Len(ring') /\ Len(ring') <= Len(s)
  BY <1>1, <1>2, <1>4
<1>7. ASSUME NEW i \in 1..Len(ring')
      PROVE  ring'[i] = s[i + Len(ring) + Len(es) - Len(ring')]
  <2>1. i + Len(s) - Len(ring') = i + Len(ring) + Len(es) - Len(ring')
    BY <1>1, <1>2, <1>4
  <2> QED BY <1>4, <2>1
<1> QED BY <1>2, <1>4, <1>5, <1>6, <1>7 DEF s

\* The ring after Publish, entry by entry: d entries have been pushed out.
LEMMA ShiftedRing ==
    ASSUME TypeOK, NEW es \in Seq(Events), Len(es) <= RingSize, Publish(es)
    PROVE  LET d == Len(ring) + Len(es) - Len(ring')
           IN  /\ Len(es) \in Nat /\ Len(ring) \in Nat /\ Len(ring') \in Nat
               /\ d \in Nat /\ Len(es) <= Len(ring')
               /\ DOMAIN ring = 1..Len(ring) /\ DOMAIN ring' = 1..Len(ring')
               /\ \A n \in 1..Len(ring') :
                     ring'[n] = IF n + d <= Len(ring) THEN ring[n + d]
                                ELSE es[n + d - Len(ring)]
<1> DEFINE d == Len(ring) + Len(es) - Len(ring')
<1>1. /\ ring \in Seq(Events) /\ ring' \in Seq(Events)
      /\ Len(es) \in Nat /\ Len(ring) \in Nat /\ Len(ring') \in Nat
      /\ Len(es) <= Len(ring') /\ Len(ring') <= Len(ring) + Len(es)
      /\ DOMAIN ring = 1..Len(ring) /\ DOMAIN ring' = 1..Len(ring')
  BY PublishKeeps, LenProperties DEF TypeOK
<1>2. ASSUME NEW n \in 1..Len(ring')
      PROVE  ring'[n] = IF n + d <= Len(ring) THEN ring[n + d]
                        ELSE es[n + d - Len(ring)]
  <2>1. ring'[n] = (ring \o es)[n + d]
    <3>1. ring'[n] = (ring \o es)[n + Len(ring) + Len(es) - Len(ring')]
      BY PublishKeeps
    <3>2. n + Len(ring) + Len(es) - Len(ring') = n + d
      BY <1>1
    <3> QED BY <3>1, <3>2
  <2>2. n + d \in 1..(Len(ring) + Len(es))
    BY <1>1
  <2> QED BY <1>1, <2>1, <2>2, ConcatProperties
<1> QED BY <1>1, <1>2

IsState(e, r) == e.tag = "state" /\ e.radio = r

\* Events that tell nothing of r leave the last word on r to what was there.
LEMMA LastStateStays ==
    ASSUME TypeOK, NEW es \in Seq(Events), Len(es) <= RingSize, Publish(es),
           NEW r, \A k \in 1..Len(es) : ~IsState(es[k], r),
           NEW i \in LastOf(r)'
    PROVE  \E k \in LastOf(r) : ring'[i] = ring[k]
<1> DEFINE d == Len(ring) + Len(es) - Len(ring')
<1>1. /\ Len(es) \in Nat /\ Len(ring) \in Nat /\ Len(ring') \in Nat
      /\ Len(es) <= Len(ring') /\ Len(ring') <= Len(ring) + Len(es)
      /\ DOMAIN ring = 1..Len(ring) /\ DOMAIN ring' = 1..Len(ring')
  BY ShiftedRing
<1>2. \A n \in 1..Len(ring') :
         ring'[n] = IF n + d <= Len(ring) THEN ring[n + d]
                    ELSE es[n + d - Len(ring)]
  BY ShiftedRing
<1>3. /\ i \in 1..Len(ring') /\ IsState(ring'[i], r)
      /\ \A j \in StatesOf(r)' : j <= i
  BY <1>1 DEF LastOf, StatesOf, IsState
<1>4. i + d <= Len(ring)
  <2> SUFFICES ASSUME i + d > Len(ring)
               PROVE  FALSE
    BY <1>1, <1>3
  <2>1. i + d - Len(ring) \in 1..Len(es)
    BY <1>1, <1>3
  <2>2. ring'[i] = es[i + d - Len(ring)]
    BY <1>1, <1>2, <1>3
  <2> QED BY <1>3, <2>1, <2>2
<1>5. i + d \in StatesOf(r) /\ ring'[i] = ring[i + d]
  BY <1>1, <1>2, <1>3, <1>4 DEF StatesOf, IsState
<1>6. ASSUME NEW j \in StatesOf(r)
      PROVE  j <= i + d
  <2> SUFFICES ASSUME j > i + d
               PROVE  FALSE
    BY <1>1, <1>3 DEF StatesOf
  <2>1. j \in 1..Len(ring) /\ IsState(ring[j], r)
    BY <1>1 DEF StatesOf, IsState
  <2>2. j - d \in 1..Len(ring') /\ j - d > i /\ (j - d) + d = j
    BY <1>1, <1>3, <2>1
  <2>3. ring'[j - d] = ring[j]
    BY <1>1, <1>2, <2>1, <2>2
  <2>4. j - d \in StatesOf(r)'
    BY <1>1, <2>1, <2>2, <2>3 DEF StatesOf, IsState
  <2> QED BY <1>3, <2>2, <2>4
<1> QED BY <1>5, <1>6 DEF LastOf

\* A state event of r that comes last is the last word on r.
LEMMA LastStateIsNew ==
    ASSUME TypeOK, NEW es \in Seq(Events), Len(es) <= RingSize, Len(es) > 0,
           Publish(es), NEW r, IsState(es[Len(es)], r),
           NEW i \in LastOf(r)'
    PROVE  ring'[i] = es[Len(es)]
<1>1. /\ ring \in Seq(Events) /\ ring' \in Seq(Events)
      /\ Len(es) \in Nat /\ Len(ring) \in Nat /\ Len(ring') \in Nat
      /\ Len(es) <= Len(ring')
      /\ DOMAIN ring' = 1..Len(ring')
  BY PublishKeeps, LenProperties DEF TypeOK
<1>2. Len(ring') \in 1..Len(ring')
  BY <1>1
<1>3. ring'[Len(ring')] = (ring \o es)[Len(ring') + Len(ring) + Len(es) - Len(ring')]
  BY <1>2, PublishKeeps
<1>4. Len(ring') + Len(ring) + Len(es) - Len(ring') = Len(ring) + Len(es)
  BY <1>1
<1>5. (ring \o es)[Len(ring) + Len(es)] = es[Len(es)]
  BY <1>1, ConcatProperties
<1>6. ring'[Len(ring')] = es[Len(es)]
  BY <1>3, <1>4, <1>5
<1>7. Len(ring') \in StatesOf(r)'
  BY <1>1, <1>2, <1>6 DEF StatesOf, IsState
<1>8. Len(ring') <= i
  BY <1>7 DEF LastOf
<1>9. i \in 1..Len(ring')
  BY <1>1 DEF LastOf, StatesOf
<1>10. i = Len(ring')
  <2>1. \A a \in Nat : \A b \in 1..a : a <= b => b = a
    OBVIOUS
  <2> QED BY <1>1, <1>8, <1>9, <2>1
<1> QED BY <1>6, <1>10

-----------------------------------------------------------------------------
(* Types of what is shown and told.                                        *)

\* Both lists are sequences of frequencies in which none is twice.
LEMMA Lists ==
    ASSUME NEW list \in {DefaultList, ProfileList}
    PROVE  /\ list \in Seq(Nat) /\ NoTwice(list)
           /\ Len(list) \in Nat /\ DOMAIN list = 1..Len(list)
           /\ \A i \in DOMAIN list : list[i] \in Nat
<1>1. list \in Seq(Nat \ {0}) /\ NoTwice(list)
  BY ServiceAssumption
<1>2. list \in Seq(Nat)
  BY <1>1, SeqMonotonic
<1> QED BY <1>1, <1>2, LenProperties, ElementOfSeq

\* What is shown of an adapter.
LEMMA ViewTypes ==
    ASSUME NEW a, Report(a), a.channels \in {DefaultList, ProfileList}
    PROVE  /\ View(a) \in Views
           /\ Shown(a.status) \in Shows /\ ShownPower(a.power) \in Int
           /\ a.chan \in Nat
           /\ \A i \in Nat : ShownFreq(a.channels, i) \in Nat
<1>1. \A i \in Nat : ShownFreq(a.channels, i) \in Nat
  BY Lists DEF ShownFreq
<1>2. a.chan \in Nat
  BY Lists DEF Report
<1>3. Shown(a.status) \in Shows
  BY DEF Shown, Shows
<1>4. ShownPower(a.power) \in Int
  BY DEF Report, ShownPower, WireDbm, Unset
<1> QED BY <1>1, <1>2, <1>3, <1>4 DEF View, Views

-----------------------------------------------------------------------------
(* The invariant holds initially and every action keeps it.                *)

\* A process that has just come up.
LEMMA FreshOK ==
    LET a == FreshReport(DefaultList)
    IN  Report(a) /\ a.channels = DefaultList /\ a.gate = "open"
BY ServiceAssumption, Lists DEF FreshReport, Report, Statuses

LEMMA InitInv == Init => IInv
<1> SUFFICES ASSUME Init
             PROVE  IInv
  OBVIOUS
<1>1. TypeOK
  BY ServiceAssumption, FreshOK DEF Init, TypeOK, Idle
<1>2. PhaseOK /\ HandlerOK /\ DoneOK /\ OkIsTrue
  BY DEF Init, Idle, PhaseOK, HandlerOK, DoneOK, OkIsTrue
<1>3. GateIsShown
  BY FreshOK DEF Init, GateIsShown
<1>4. LastStateIsCurrent
  BY DEF Init, LastStateIsCurrent, LastOf, StatesOf
<1> QED BY <1>1, <1>2, <1>3, <1>4 DEF IInv

LEMMA RestartKeeps ==
    ASSUME IInv, Restart
    PROVE  IInv'
<1>1. TypeOK'
  BY ServiceAssumption, FreshOK DEF Restart, IInv, TypeOK, Idle
<1>2. PhaseOK' /\ HandlerOK' /\ DoneOK' /\ OkIsTrue'
  BY DEF Restart, Idle, PhaseOK, HandlerOK, DoneOK, OkIsTrue
<1>3. GateIsShown'
  BY FreshOK DEF Restart, GateIsShown
<1>4. LastStateIsCurrent'
  BY DEF Restart, LastStateIsCurrent, LastOf, StatesOf
<1> QED BY <1>1, <1>2, <1>3, <1>4 DEF IInv

\* connect() of a radio: nothing has been told of it yet.
LEMMA ConnectRadioKeeps ==
    ASSUME IInv, NEW r \in Radios, ConnectRadio(r)
    PROVE  IInv'
<1> USE DEF ConnectRadio, handlerVars, hubVars
<1>1. PICK b \in Reports(adapters[r], {}, {}), code \in Codes :
         /\ Effect("connect", 0, adapters[r], b, code)
         /\ adapters' = [adapters EXCEPT ![r] = b]
  OBVIOUS
<1>2. Report(b) /\ b.channels \in {DefaultList, ProfileList}
  BY <1>1 DEF Effect, Reports, IInv, TypeOK
<1>3. b.gate = "shut" => b.status = "recovering"
  <2> DEFINE a == adapters[r]
  <2>1. /\ {"gate", "status"} \subseteq DOMAIN a
        /\ a.gate = "shut" => a.status = "recovering"
    BY DEF IInv, TypeOK, Report, GateIsShown
  <2>2. SameBut(a, b, {"channels"}) \/ Connected(a, b)
    BY <1>1 DEF Effect, May
  <2>3. CASE SameBut(a, b, {"channels"})
    <3>1. b.gate = a.gate /\ b.status = a.status
      BY <2>1, <2>3 DEF SameBut
    <3> QED BY <2>1, <3>1
  <2>4. CASE Connected(a, b)
    BY <2>4 DEF Connected
  <2> QED BY <2>2, <2>3, <2>4
<1>4. DOMAIN adapters = Radios
  BY DEF IInv, TypeOK
<1>5. handler.step = "idle" /\ reply = "none" /\ \A q \in Radios : StatesOf(q) = {}
  BY DEF IInv, PhaseOK, StatesOf
<1>6. TypeOK'
  BY <1>1, <1>2, <1>4, <1>5 DEF IInv, TypeOK
<1>7. PhaseOK' /\ HandlerOK' /\ DoneOK' /\ OkIsTrue'
  BY <1>5 DEF IInv, PhaseOK, HandlerOK, DoneOK, OkIsTrue
<1>8. GateIsShown'
  BY <1>1, <1>3, <1>4 DEF IInv, GateIsShown
<1>9. LastStateIsCurrent'
  BY <1>5 DEF LastStateIsCurrent, LastOf, StatesOf
<1> QED BY <1>6, <1>7, <1>8, <1>9 DEF IInv

LEMMA OpenGatewayKeeps ==
    ASSUME IInv, OpenGateway
    PROVE  IInv'
BY DEF adapterVars, handlerVars, hubVars, OpenGateway, IInv, TypeOK, PhaseOK,
       HandlerOK, DoneOK, OkIsTrue, GateIsShown, LastStateIsCurrent, LastOf,
       StatesOf

\* Requests the gateway refuses, radios it selects, commands that end before
\* the adapter: nothing an adapter reports changes.
LEMMA HandlersKeep ==
    ASSUME IInv, NEW q \in Posts,
           GatewayRefuses(q) \/ SelectRadio(q) \/ OrchestratorRefuses(q)
    PROVE  IInv'
<1> USE DEF adapterVars, handlerVars, hubVars
<1>1. CASE GatewayRefuses(q)
  <2>1. reply' # "Ok"
    BY <1>1, ServiceAssumption DEF GatewayRefuses, GatewayCode, Grants
  <2> QED BY <1>1, <2>1 DEF GatewayRefuses, Accepting, Idle, IInv, TypeOK, PhaseOK,
            HandlerOK, DoneOK, OkIsTrue, GateIsShown, LastStateIsCurrent, LastOf, StatesOf
<1>2. CASE SelectRadio(q)
  <2> USE DEF SelectRadio, Accepting, Answer, Idle
  <2>1. TypeOK'
    BY <1>2 DEF IInv, TypeOK
  <2>2. OkIsTrue'
    BY <1>2 DEF OkIsTrue, Action, AuditCode
  <2>3. PhaseOK' /\ HandlerOK' /\ DoneOK' /\ GateIsShown' /\ LastStateIsCurrent'
    BY <1>2 DEF IInv, PhaseOK, HandlerOK, DoneOK, GateIsShown, LastStateIsCurrent,
          LastOf, StatesOf
  <2> QED BY <2>1, <2>2, <2>3 DEF IInv
<1>3. CASE OrchestratorRefuses(q)
  <2> USE DEF OrchestratorRefuses, Accepting, Answer, Idle
  <2>1. reply' # "Ok"
    BY <1>3 DEF OrchestratorCode
  <2> QED BY <1>3, <2>1 DEF IInv, TypeOK, PhaseOK, HandlerOK, DoneOK, OkIsTrue,
            GateIsShown, LastStateIsCurrent, LastOf, StatesOf
<1> QED BY <1>1, <1>2, <1>3

\* The gateway's checks make an index of the frequency list out of every
\* channel request they let through.
LEMMA CallAdapterKeeps ==
    ASSUME IInv, NEW q \in Posts, CallAdapter(q)
    PROVE  IInv'
<1> USE DEF CallAdapter, Accepting, adapterVars, hubVars
<1>1. q.id \in Radios
  BY DEF OrchestratorCode
<1>2. ListOf(q) \in {DefaultList, ProfileList}
  BY <1>1 DEF IInv, TypeOK, ListOf
<1>3. q.kind = "power" => Arg(q) \in Nat
  BY ServiceAssumption DEF OrchestratorCode, Arg
<1>4. q.kind = "channel" => Arg(q) \in DOMAIN ListOf(q)
  <2> SUFFICES ASSUME q.kind = "channel"
               PROVE  Arg(q) \in DOMAIN ListOf(q)
    OBVIOUS
  <2>1. ~Malformed(q) /\ ~OutOfRange(q)
    BY ServiceAssumption DEF GatewayCode, Grants
  <2>2. CASE q.y # 0
    BY <2>1, <2>2, IndexOrNone DEF OutOfRange, Arg
  <2>3. CASE q.y = 0
    BY <2>1, <2>3 DEF Malformed, OutOfRange, Arg
  <2> QED BY <2>2, <2>3
<1>5. Arg(q) \in Int
  BY <1>2, <1>3, <1>4, Lists
<1>6. TypeOK'
  <2>1. handler' \in [step : {"idle", "calling", "publishing", "recording"},
                      post : Posts \cup {NoPost}, arg : Int, list : Seq(Nat)]
    BY <1>2, <1>5, Lists
  <2>2. handler'.post.id \in Radios /\ handler'.list = adapters'[handler'.post.id].channels
    BY <1>1 DEF ListOf
  <2> QED BY <2>1, <2>2 DEF IInv, TypeOK
<1>7. PhaseOK' /\ HandlerOK' /\ DoneOK' /\ OkIsTrue'
  BY <1>3, <1>4 DEF IInv, PhaseOK, HandlerOK, DoneOK, OkIsTrue
<1>8. GateIsShown' /\ LastStateIsCurrent'
  BY DEF IInv, GateIsShown, LastStateIsCurrent, LastOf, StatesOf, Idle
<1> QED BY <1>6, <1>7, <1>8 DEF IInv

\* The adapter comes back: with success and what was asked for, or without
\* anything a subscriber is told of having changed.
LEMMA AdapterReturnsKeeps ==
    ASSUME IInv, AdapterReturns
    PROVE  IInv'
<1> USE DEF AdapterReturns, hubVars
<1> DEFINE id == handler.post.id
           a == adapters[id]
<1>1. PICK b \in Reports(a, {handler.arg}, {handler.arg}), code \in Codes :
         /\ Invoke(a, b, code)
         /\ adapters' = [adapters EXCEPT ![id] = b]
         /\ \/ /\ code = "Ok"
               /\ handler' = [handler EXCEPT !.step = "publishing"]
               /\ UNCHANGED <<reply, audit>>
            \/ /\ code # "Ok"
               /\ Answer(handler.post, handler.arg, code)
  OBVIOUS
<1>2. /\ id \in Radios /\ DOMAIN adapters = Radios
      /\ Report(a) /\ a.channels \in {DefaultList, ProfileList}
      /\ handler.list = a.channels
      /\ a.gate = "shut" => a.status = "recovering"
      /\ handler.post.kind \in {"power", "channel"} /\ reply = "none"
      /\ handler.post.kind = "channel" => handler.arg \in DOMAIN handler.list
  BY DEF IInv, TypeOK, HandlerOK, GateIsShown
<1> HIDE DEF id, a
<1>3. /\ Report(b) /\ b.channels = a.channels
      /\ b.gate = "shut" => b.status = "recovering"
      /\ code # "Ok" => b.status = a.status /\ b.power = a.power /\ b.chan = a.chan
      /\ code = "Ok" => IF handler.post.kind = "power" THEN b.power = handler.arg
                        ELSE b.chan = handler.arg
  <2>1. CASE handler.post.kind = "power"
    BY <1>1, <1>2, <2>1, CallEffect DEF Invoke
  <2>2. CASE handler.post.kind = "channel"
    <3>1. ChannelOf(a.channels, handler.list[handler.arg]) = handler.arg
      BY <1>2, <2>2, Lists, IndexAgain
    <3>2. Call("set_channel", handler.list[handler.arg], a, b, code)
      BY <1>1, <2>2 DEF Invoke
    <3> QED BY <1>2, <2>2, <3>1, <3>2, CallEffect
  <2> QED BY <1>2, <2>1, <2>2
<1>4. /\ adapters'[id] = b
      /\ \A r \in Radios \ {id} : adapters'[r] = adapters[r]
      /\ DOMAIN adapters' = Radios
  BY <1>1, <1>2
<1>5. /\ handler \in [step : {"idle", "calling", "publishing", "recording"},
                      post : Posts \cup {NoPost}, arg : Int, list : Seq(Nat)]
      /\ phase # "starting"
  BY DEF IInv, TypeOK, PhaseOK
<1>6. \A r \in Radios : /\ Report(adapters'[r])
                        /\ adapters'[r].channels \in {DefaultList, ProfileList}
  BY <1>2, <1>3, <1>4 DEF IInv, TypeOK
<1>7. GateIsShown'
  BY <1>3, <1>4 DEF IInv, GateIsShown
<1>8. CASE code = "Ok"
  <2>1. handler' = [handler EXCEPT !.step = "publishing"] /\ reply' = "none"
    BY <1>1, <1>2, <1>8
  <2>2. /\ handler'.step = "publishing" /\ handler'.post = handler.post
        /\ handler'.arg = handler.arg /\ handler'.list = handler.list
        /\ handler' \in [step : {"idle", "calling", "publishing", "recording"},
                         post : Posts \cup {NoPost}, arg : Int, list : Seq(Nat)]
    BY <1>5, <2>1
  <2>3. TypeOK'
    BY <1>2, <1>3, <1>4, <1>6, <2>2 DEF IInv, TypeOK, id
  <2>4. PhaseOK' /\ HandlerOK' /\ DoneOK' /\ OkIsTrue'
    BY <1>2, <1>3, <1>4, <1>5, <1>8, <2>1, <2>2
       DEF IInv, PhaseOK, HandlerOK, DoneOK, OkIsTrue, id
  <2>5. LastStateIsCurrent'
    BY <1>4, <2>2 DEF IInv, LastStateIsCurrent, LastOf, StatesOf, id
  <2> QED BY <1>7, <2>3, <2>4, <2>5 DEF IInv
<1>9. CASE code # "Ok"
  <2>1. handler' = Idle /\ reply' = code
    BY <1>1, <1>9 DEF Answer
  <2>2. TypeOK'
    BY <1>2, <1>4, <1>6, <2>1 DEF IInv, TypeOK, Idle
  <2>3. PhaseOK' /\ HandlerOK' /\ DoneOK' /\ OkIsTrue'
    BY <1>5, <1>9, <2>1 DEF IInv, PhaseOK, HandlerOK, DoneOK, OkIsTrue, Idle
  <2>4. LastStateIsCurrent'
    <3>1. \A r \in Radios : \A e : Tells(e, adapters[r]) => Tells(e, adapters'[r])
      BY <1>3, <1>4, <1>9 DEF Tells, a
    <3> QED BY <3>1 DEF IInv, LastStateIsCurrent, LastOf, StatesOf
  <2> QED BY <1>7, <2>2, <2>3, <2>4 DEF IInv
<1> QED BY <1>8, <1>9

\* The events of a command: a change, then the state the adapter now reports.
LEMMA EventsOfCommand ==
    ASSUME IInv, handler.step = "publishing"
    PROVE  LET id == handler.post.id
               es == CommandEvents
           IN  /\ es \in Seq(Events) /\ Len(es) = 2 /\ Len(es) <= RingSize
               /\ id \in Radios
               /\ es[1].tag # "state" /\ es[1].radio = id
               /\ es[2] \in Events /\ Tells(es[2], adapters[id])
               /\ \A r : IsState(es[2], r) <=> r = id
<1> DEFINE id == handler.post.id
           a == adapters[id]
           es == CommandEvents
<1>1. /\ id \in Radios
      /\ Report(a) /\ a.channels \in {DefaultList, ProfileList}
      /\ handler.list = a.channels
      /\ handler.post.kind \in {"power", "channel"}
      /\ handler.post.kind = "power" => handler.arg \in Nat /\ a.power = handler.arg
      /\ handler.post.kind = "channel" =>
            handler.arg \in DOMAIN handler.list /\ a.chan = handler.arg
  BY DEF IInv, TypeOK, HandlerOK, DoneOK
<1>2. /\ Shown(a.status) \in Shows /\ ShownPower(a.power) \in Int /\ a.chan \in Nat
      /\ \A i \in Nat : ShownFreq(a.channels, i) \in Nat
  BY <1>1, ViewTypes
<1>3. PICK e \in Events :
         /\ e.tag # "state" /\ e.radio = id
         /\ es = <<e, StateEvent(id, a.status, a.chan, a.power,
                                 ShownFreq(a.channels, a.chan))>>
  <2>1. CASE handler.post.kind = "power"
    <3>1. PowerChanged(id, handler.arg) \in Events
      BY <1>1, <2>1 DEF PowerChanged, WireDbm, Events
    <3> QED BY <1>1, <2>1, <3>1 DEF CommandEvents, PowerChanged
  <2>2. CASE handler.post.kind = "channel"
    <3>1. /\ handler.arg \in Nat
          /\ handler.list[handler.arg] = ShownFreq(a.channels, a.chan)
          /\ handler.list[handler.arg] \in Nat
      BY <1>1, <1>2, <2>2, Lists DEF ShownFreq
    <3>2. ChannelChanged(id, handler.arg, handler.list[handler.arg]) \in Events
      BY <1>1, <3>1 DEF ChannelChanged, Events
    <3> QED BY <1>1, <2>2, <3>1, <3>2 DEF CommandEvents, ChannelChanged
  <2> QED BY <1>1, <2>1, <2>2
<1>4. DEFINE last == StateEvent(id, a.status, a.chan, a.power,
                                ShownFreq(a.channels, a.chan))
<1>5. /\ last \in Events /\ Tells(last, a)
      /\ \A r : IsState(last, r) <=> r = id
  BY <1>1, <1>2 DEF StateEvent, Events, IsState, Tells
<1> HIDE DEF es, last
<1>6. /\ es \in Seq(Events) /\ Len(es) = 2 /\ Len(es) <= RingSize
      /\ es[1] = e /\ es[2] = last
  <2>1. es = <<e, last>>
    BY <1>3 DEF last
  <2>2. /\ <<e, last>> \in Seq(Events) /\ Len(<<e, last>>) = 2
        /\ <<e, last>>[1] = e /\ <<e, last>>[2] = last
    BY <1>3, <1>5
  <2>3. RingSize \in Nat /\ 2 <= RingSize
    BY ServiceAssumption
  <2> QED BY <2>1, <2>2, <2>3
<1> QED BY <1>1, <1>3, <1>5, <1>6 DEF es

\* The events of a command tell what the adapter now reports.
LEMMA PublishCommandKeeps ==
    ASSUME IInv, PublishCommand
    PROVE  IInv'
<1> USE DEF PublishCommand, adapterVars
<1> DEFINE id == handler.post.id
           a == adapters[id]
           es == CommandEvents
<1>1. /\ es \in Seq(Events) /\ Len(es) = 2 /\ Len(es) <= RingSize
      /\ es[1].tag # "state" /\ Tells(es[2], a)
      /\ \A r : IsState(es[2], r) <=> r = id
  BY EventsOfCommand
<1>2. Publish(es) /\ TypeOK
  BY DEF IInv
<1> HIDE DEF es
<1>3. /\ handler'.step = "recording" /\ handler'.post = handler.post
      /\ handler'.arg = handler.arg /\ handler'.list = handler.list
      /\ handler' \in [step : {"idle", "calling", "publishing", "recording"},
                       post : Posts \cup {NoPost}, arg : Int, list : Seq(Nat)]
      /\ reply' = reply /\ phase # "starting"
  BY DEF IInv, TypeOK, PhaseOK
<1>4. TypeOK'
  BY <1>1, <1>2, <1>3, PublishKeeps DEF TypeOK
<1>5. PhaseOK' /\ HandlerOK' /\ DoneOK' /\ GateIsShown' /\ OkIsTrue'
  BY <1>3 DEF IInv, PhaseOK, HandlerOK, DoneOK, GateIsShown, OkIsTrue
<1>6. LastStateIsCurrent'
  <2> SUFFICES ASSUME NEW r \in Radios, NEW i \in LastOf(r)'
               PROVE  Tells(ring'[i], adapters[r])
    BY DEF LastStateIsCurrent
  <2>1. CASE r = id
    <3>1. Len(es) > 0 /\ IsState(es[Len(es)], r)
      BY <1>1, <2>1
    <3>2. ring'[i] = es[2]
      BY <1>1, <1>2, <3>1, LastStateIsNew
    <3> QED BY <1>1, <2>1, <3>2
  <2>2. CASE r # id
    <3>1. \A k \in 1..Len(es) : ~IsState(es[k], r)
      BY <1>1, <2>2 DEF IsState
    <3>2. PICK k \in LastOf(r) : ring'[i] = ring[k]
      BY <1>1, <1>2, <3>1, LastStateStays
    <3> QED BY <2>2, <3>2 DEF IInv, LastStateIsCurrent
  <2> QED BY <2>1, <2>2
<1> QED BY <1>4, <1>5, <1>6 DEF IInv

LEMMA RecordCommandKeeps ==
    ASSUME IInv, RecordCommand
    PROVE  IInv'
<1> USE DEF RecordCommand, Answer, Idle, adapterVars, hubVars
<1>1. TypeOK'
  BY DEF IInv, TypeOK
<1>2. OkIsTrue'
  BY DEF IInv, TypeOK, HandlerOK, DoneOK, OkIsTrue, Action, AuditCode
<1>3. PhaseOK' /\ HandlerOK' /\ DoneOK' /\ GateIsShown' /\ LastStateIsCurrent'
  BY DEF IInv, PhaseOK, HandlerOK, DoneOK, GateIsShown, LastStateIsCurrent, LastOf, StatesOf
<1> QED BY <1>1, <1>2, <1>3 DEF IInv

\* Heartbeats and the ready event tell nothing of a single radio's state.
LEMMA QuietEventsKeep ==
    ASSUME IInv, NEW es \in Seq(Events), Len(es) <= RingSize, Publish(es),
           \A k \in 1..Len(es) : es[k].tag # "state",
           UNCHANGED <<adapterVars, handlerVars>>,
           phase' \in {"starting", "listening", "serving"},
           phase' = "starting" => phase = "starting",
           lastReady' \in {NoReady} \cup ReadyEvents,
           ticks' \in 0..(ReadyPeriod - 1)
    PROVE  IInv'
<1> USE DEF adapterVars, handlerVars
<1>1. TypeOK
  BY DEF IInv
<1>2. TypeOK'
  BY <1>1, PublishKeeps DEF TypeOK
<1>3. ASSUME NEW r, NEW i \in LastOf(r)'
      PROVE  \E k \in LastOf(r) : ring'[i] = ring[k]
  <2>1. \A k \in 1..Len(es) : ~IsState(es[k], r)
    BY DEF IsState
  <2> QED BY <1>1, <1>3, <2>1, LastStateStays
<1>4. LastStateIsCurrent'
  BY <1>3 DEF IInv, LastStateIsCurrent
<1>5. HandlerOK' /\ DoneOK' /\ GateIsShown' /\ OkIsTrue'
  BY DEF IInv, HandlerOK, DoneOK, GateIsShown, OkIsTrue
<1>6. PhaseOK'
  <2> SUFFICES ASSUME phase = "starting", NEW i \in DOMAIN ring', ring'[i].tag = "state"
               PROVE  FALSE
    BY DEF IInv, PhaseOK
  <2> DEFINE n == i + Len(ring) + Len(es) - Len(ring')
  <2>1. /\ ring \in Seq(Events) /\ ring' \in Seq(Events)
        /\ Len(es) \in Nat /\ Len(ring) \in Nat /\ Len(ring') \in Nat
        /\ Len(ring') <= Len(ring) + Len(es)
        /\ DOMAIN ring = 1..Len(ring) /\ DOMAIN ring' = 1..Len(ring')
    BY <1>1, PublishKeeps, LenProperties DEF TypeOK
  <2>2. n \in 1..(Len(ring) + Len(es)) /\ ring'[i] = (ring \o es)[n]
    <3>1. ring'[i] = (ring \o es)[n]
      BY <1>1, <2>1, PublishKeeps
    <3> QED BY <2>1, <3>1
  <2>3. CASE n <= Len(ring)
    <3>1. n \in DOMAIN ring /\ ring'[i] = ring[n]
      BY <2>1, <2>2, <2>3, ConcatProperties
    <3> QED BY <3>1 DEF IInv, PhaseOK
  <2>4. CASE n > Len(ring)
    <3>1. n - Len(ring) \in 1..Len(es) /\ ring'[i] = es[n - Len(ring)]
      BY <2>1, <2>2, <2>4, ConcatProperties
    <3> QED BY <3>1
  <2> QED BY <2>1, <2>2, <2>3, <2>4
<1> QED BY <1>2, <1>4, <1>5, <1>6 DEF IInv

LEMMA PublishReadyKeeps ==
    ASSUME IInv, PublishReady
    PROVE  IInv'
<1> USE DEF PublishReady
<1> DEFINE e == ReadyEvent(Snapshot)
<1>1. Snapshot \in Snapshots
  BY ViewTypes DEF Snapshot, Snapshots, IInv, TypeOK
<1>2. e \in ReadyEvents /\ e \in Events /\ e.tag # "state"
  BY <1>1 DEF ReadyEvent, ReadyEvents, Events
<1> HIDE DEF e
<1>3. <<e>> \in Seq(Events) /\ Len(<<e>>) = 1 /\ <<e>>[1] = e /\ Len(<<e>>) <= RingSize
  BY <1>2, ServiceAssumption
<1>4. Publish(<<e>>) /\ lastReady' = e
  BY DEF e
<1>5. \A k \in 1..Len(<<e>>) : <<e>>[k].tag # "state"
  BY <1>2
<1>6. /\ phase' = "serving" /\ ticks' \in 0..(ReadyPeriod - 1)
      /\ lastReady' \in {NoReady} \cup ReadyEvents
      /\ UNCHANGED <<adapterVars, handlerVars>>
  BY <1>2, <1>4 DEF IInv, TypeOK
<1> QED BY <1>3, <1>4, <1>5, <1>6, QuietEventsKeep

LEMMA BeatKeeps ==
    ASSUME IInv, Beat
    PROVE  IInv'
<1> USE DEF Beat
<1>1. /\ ticks' \in 0..(ReadyPeriod - 1)
      /\ lastReady \in {NoReady} \cup ReadyEvents
      /\ phase' = phase /\ lastReady' = lastReady
      /\ phase \in {"starting", "listening", "serving"}
      /\ UNCHANGED <<adapterVars, handlerVars>>
  BY ServiceAssumption DEF IInv, TypeOK
<1>2. Heartbeat \in Events /\ Heartbeat.tag # "state" /\ RingSize >= 2
  BY ServiceAssumption DEF Events, Heartbeat
<1>3. CASE ticks' = 0 /\ lastReady # NoReady
  <2>1. lastReady \in Events /\ lastReady.tag # "state"
    BY <1>1, <1>3 DEF Events, ReadyEvents
  <2>2. Publish(<<Heartbeat, lastReady>>)
    BY <1>3
  <2>3. /\ <<Heartbeat, lastReady>> \in Seq(Events)
        /\ Len(<<Heartbeat, lastReady>>) = 2
        /\ Len(<<Heartbeat, lastReady>>) <= RingSize
        /\ \A k \in 1..Len(<<Heartbeat, lastReady>>) :
              <<Heartbeat, lastReady>>[k].tag # "state"
    BY <1>2, <2>1
  <2> QED BY <1>1, <2>2, <2>3, QuietEventsKeep
<1>4. CASE ~(ticks' = 0 /\ lastReady # NoReady)
  <2>1. Publish(<<Heartbeat>>)
    BY <1>4
  <2>2. /\ <<Heartbeat>> \in Seq(Events)
        /\ Len(<<Heartbeat>>) = 1 /\ <<Heartbeat>>[1] = Heartbeat
    BY <1>2
  <2>3. \A k \in 1..Len(<<Heartbeat>>) : <<Heartbeat>>[k].tag # "state"
    BY <1>2, <2>2
  <2>4. Len(<<Heartbeat>>) <= RingSize
    BY <1>2, <2>2, ServiceAssumption
  <2> QED BY <1>1, <2>1, <2>2, <2>3, <2>4, QuietEventsKeep
<1> QED BY <1>3, <1>4

\* The gate opens by itself, and what is reported stays recovering.
LEMMA GateOpensKeeps ==
    ASSUME IInv, NEW r \in Radios, GateOpens(r)
    PROVE  IInv'
<1> USE DEF GateOpens, handlerVars, hubVars
<1>1. DOMAIN adapters = Radios /\ Report(adapters[r])
  BY DEF IInv, TypeOK
<1>2. /\ adapters'[r] = [adapters[r] EXCEPT !.gate = "open"]
      /\ \A q \in Radios \ {r} : adapters'[q] = adapters[q]
      /\ DOMAIN adapters' = Radios
  BY <1>1
<1>3. /\ Report(adapters'[r]) /\ adapters'[r].gate = "open"
      /\ adapters'[r].channels = adapters[r].channels
      /\ adapters'[r].power = adapters[r].power
      /\ adapters'[r].chan = adapters[r].chan
      /\ adapters'[r].status = adapters[r].status
  BY <1>1, <1>2 DEF Report
<1>4. \A q \in Radios :
         /\ adapters'[q].channels = adapters[q].channels
         /\ adapters'[q].power = adapters[q].power
         /\ adapters'[q].chan = adapters[q].chan
         /\ adapters'[q].status = adapters[q].status
         /\ adapters'[q].gate = "shut" => adapters[q].gate = "shut"
         /\ Report(adapters'[q])
  BY <1>2, <1>3 DEF IInv, TypeOK
<1>5. TypeOK'
  BY <1>2, <1>4 DEF IInv, TypeOK
<1>6. PhaseOK' /\ HandlerOK' /\ DoneOK' /\ OkIsTrue' /\ GateIsShown'
  BY <1>4 DEF IInv, TypeOK, PhaseOK, HandlerOK, DoneOK, OkIsTrue, GateIsShown
<1>7. LastStateIsCurrent'
  BY <1>4 DEF IInv, LastStateIsCurrent, LastOf, StatesOf, Tells
<1> QED BY <1>5, <1>6, <1>7 DEF IInv

\* Every step of the service keeps IInv.
LEMMA Inductive == IInv /\ [Next]_vars => IInv'
<1> SUFFICES ASSUME IInv, [Next]_vars
             PROVE  IInv'
  OBVIOUS
<1>1. CASE Startup
  BY <1>1, ConnectRadioKeeps, OpenGatewayKeeps, PublishReadyKeeps DEF Startup
<1>2. CASE Arrive
  BY <1>2, HandlersKeep, CallAdapterKeeps DEF Arrive
<1>3. CASE Handle
  BY <1>3, AdapterReturnsKeeps, PublishCommandKeeps, RecordCommandKeeps DEF Handle
<1>4. CASE Beat \/ Restart \/ \E r \in Radios : GateOpens(r)
  BY <1>4, BeatKeeps, RestartKeeps, GateOpensKeeps
<1>5. CASE UNCHANGED vars
  BY <1>5 DEF vars, adapterVars, handlerVars, hubVars, IInv, TypeOK, PhaseOK,
        HandlerOK, DoneOK, OkIsTrue, GateIsShown, LastStateIsCurrent, LastOf, StatesOf
<1> QED BY <1>1, <1>2, <1>3, <1>4, <1>5 DEF Next, Serve

LEMMA Invariance == Spec => []IInv
BY InitInv, Inductive, PTL DEF Spec

-----------------------------------------------------------------------------
(* What the service guarantees, for all values of the constants.           *)

\* The service keeps its types: every adapter's report is a possible one, the
\* frequency list a command looked up is the adapter's to its end, and the
\* ring never holds more than its size.
THEOREM TypeCorrect == Spec => []TypeOK
<1>1. IInv => TypeOK
  BY DEF IInv
<1> QED BY <1>1, Invariance, PTL

\* However commands, failures, heartbeats and restarts follow each other, the
\* last state event of a radio in the ring is what the radio's adapter
\* reports, except between an adapter's return and the events.
THEOREM EventsAreCurrent == Spec => []LastStateIsCurrent
<1>1. IInv => LastStateIsCurrent
  BY DEF IInv
<1> QED BY <1>1, Invariance, PTL

\* A command answered Ok is on record as Ok and has changed what the adapter
\* reports to what was asked for: the power in full, the channel even when
\* the request named a frequency only.
THEOREM OkHolds == Spec => []OkIsTrue
<1>1. IInv => OkIsTrue
  BY DEF IInv
<1> QED BY <1>1, Invariance, PTL

-----------------------------------------------------------------------------
(* Changes and their records.                                              *)

\* A restart and the connecting of radios leave a process that is starting.
LEMMA StartupRecorded ==
    ASSUME IInv, Startup \/ Restart \/ Beat \/ (\E r \in Radios : GateOpens(r))
                 \/ UNCHANGED vars,
           phase' # "starting"
    PROVE  /\ active' = active
           /\ \A r \in Radios : Setting(r)' = Setting(r)
           /\ handler' = handler
<1> USE DEF vars, adapterVars, handlerVars, hubVars, Setting
<1>1. CASE Startup
  BY <1>1 DEF Startup, ConnectRadio, OpenGateway, PublishReady
<1>2. CASE Restart \/ Beat \/ UNCHANGED vars
  BY <1>2 DEF Restart, Beat
<1>3. ASSUME NEW r \in Radios, GateOpens(r)
      PROVE  \A q \in Radios : Setting(q)' = Setting(q)
  <2>1. /\ DOMAIN adapters[r] = {"channels", "manual", "power", "chan", "status", "gate"}
        /\ adapters' = [adapters EXCEPT ![r] = [adapters[r] EXCEPT !.gate = "open"]]
    BY <1>3 DEF GateOpens, IInv, TypeOK, Report
  <2> QED BY <2>1
<1>4. ASSUME NEW r \in Radios, GateOpens(r)
      PROVE  active' = active /\ handler' = handler
  BY <1>4 DEF GateOpens
<1> QED BY <1>1, <1>2, <1>3, <1>4

\* The adapter's return changes the power or the channel of that radio alone,
\* and then only with success.
LEMMA ReturnRecorded ==
    ASSUME IInv, AdapterReturns
    PROVE  /\ active' = active /\ ~Owed
           /\ \A r \in Radios : Setting(r)' # Setting(r) =>
                 Owed' /\ handler'.post.id = r
<1> DEFINE id == handler.post.id
<1>1. PICK b \in Reports(adapters[id], {handler.arg}, {handler.arg}), code \in Codes :
         /\ Invoke(adapters[id], b, code)
         /\ adapters' = [adapters EXCEPT ![id] = b]
         /\ code = "Ok" => handler' = [handler EXCEPT !.step = "publishing"]
  BY DEF AdapterReturns
<1>2. /\ id \in Radios /\ Report(adapters[id])
      /\ adapters[id].gate = "shut" => adapters[id].status = "recovering"
      /\ handler \in [step : {"idle", "calling", "publishing", "recording"},
                      post : Posts \cup {NoPost}, arg : Int, list : Seq(Nat)]
  BY DEF AdapterReturns, IInv, TypeOK, GateIsShown
<1>3. code # "Ok" => b.power = adapters[id].power /\ b.chan = adapters[id].chan
  BY <1>1, <1>2, CallEffect DEF Invoke
<1>4. ASSUME NEW r \in Radios, Setting(r)' # Setting(r)
      PROVE  r = id /\ code = "Ok"
  BY <1>1, <1>2, <1>3, <1>4 DEF Setting, IInv, TypeOK
<1>5. code = "Ok" => handler'.step = "publishing" /\ handler'.post.id = id
  BY <1>1, <1>2
<1>6. active' = active /\ ~Owed
  BY DEF AdapterReturns, Owed
<1> QED BY <1>4, <1>5, <1>6 DEF Owed

\* A step of a process that lives puts every change on record.
LEMMA StepRecorded ==
    ASSUME IInv, [Next]_vars, phase' # "starting"
    PROVE  /\ active' # active => audit' = OkRecord("selectRadio", active', 0)
           /\ \A r \in Radios : Setting(r)' # Setting(r) => Owed' /\ handler'.post.id = r
           /\ Owed =>
                 \/ Owed' /\ handler'.post = handler.post /\ handler'.arg = handler.arg
                 \/ audit' = OkRecord(Action(handler.post), handler.post.id, handler.arg)
<1> USE DEF adapterVars, handlerVars, hubVars
<1>1. CASE Startup \/ Restart \/ Beat \/ (\E r \in Radios : GateOpens(r))
           \/ UNCHANGED vars
  BY <1>1, StartupRecorded DEF Owed
<1>2. ASSUME NEW q \in Posts,
             GatewayRefuses(q) \/ OrchestratorRefuses(q) \/ CallAdapter(q)
      PROVE  active' = active /\ adapters' = adapters /\ ~Owed
  BY <1>2 DEF GatewayRefuses, OrchestratorRefuses, CallAdapter, Accepting, Idle, Owed
<1>3. ASSUME NEW q \in Posts, SelectRadio(q)
      PROVE  /\ active' # active => audit' = OkRecord("selectRadio", active', 0)
             /\ adapters' = adapters /\ ~Owed
  BY <1>3 DEF SelectRadio, Answer, Action, AuditCode, OkRecord, Accepting, Idle, Owed
<1>4. CASE AdapterReturns
  BY <1>4, ReturnRecorded
<1>5. CASE PublishCommand
  <2>1. /\ handler' = [handler EXCEPT !.step = "recording"]
        /\ DOMAIN handler = {"step", "post", "arg", "list"}
    BY <1>5 DEF PublishCommand, IInv, TypeOK
  <2> QED BY <1>5, <2>1 DEF PublishCommand, Owed, Setting
<1>6. CASE RecordCommand
  BY <1>6 DEF RecordCommand, Answer, AuditCode, OkRecord, Setting
<1> QED BY <1>1, <1>2, <1>3, <1>4, <1>5, <1>6 DEF Next, Serve, Arrive, Handle, Setting

\* No command, selection or refused request changes the active radio, a
\* radio's power or its channel off the record, and a change the record of
\* which is still owed is never forgotten by a process that lives.
THEOREM NothingOffTheRecord == Spec => ChangesAreRecorded
BY StepRecorded, Invariance, PTL DEF Spec, ChangesAreRecorded

-----------------------------------------------------------------------------
(* How adapters are called.                                                *)

\* Handlers meet radios that have been connected, and ask of a power what the
\* request said.
CallsOK ==
    /\ phase # "starting" => unconnected = {}
    /\ handler.step # "idle" /\ handler.post.kind = "power" =>
          handler.arg = handler.post.x

LEMMA CallsKept == IInv /\ CallsOK /\ [Next]_vars => CallsOK'
<1> USE DEF adapterVars, handlerVars, hubVars, CallsOK
<1> SUFFICES ASSUME IInv, CallsOK, [Next]_vars
             PROVE  CallsOK'
  OBVIOUS
<1>1. CASE Startup
  BY <1>1 DEF Startup, ConnectRadio, OpenGateway, PublishReady
<1>2. CASE Restart \/ Beat \/ (\E r \in Radios : GateOpens(r)) \/ UNCHANGED vars
  BY <1>2 DEF Restart, Beat, GateOpens, Idle, vars
<1>3. ASSUME NEW q \in Posts,
             GatewayRefuses(q) \/ SelectRadio(q) \/ OrchestratorRefuses(q)
      PROVE  CallsOK'
  BY <1>3 DEF GatewayRefuses, SelectRadio, OrchestratorRefuses, Answer, Accepting, Idle
<1>4. ASSUME NEW q \in Posts, CallAdapter(q)
      PROVE  CallsOK'
  BY <1>4 DEF CallAdapter, Accepting, Arg
<1>5. CASE Handle
  <2>1. handler' = Idle \/ \E s \in {"publishing", "recording"} :
           handler' = [handler EXCEPT !.step = s]
    BY <1>5 DEF Handle, AdapterReturns, PublishCommand, RecordCommand, Answer
  <2>2. handler.step # "idle" /\ UNCHANGED <<phase, unconnected>>
    BY <1>5 DEF Handle, AdapterReturns, PublishCommand, RecordCommand
  <2>3. DOMAIN handler = {"step", "post", "arg", "list"}
    BY DEF IInv, TypeOK
  <2>4. handler'.step # "idle" => handler'.post = handler.post /\ handler'.arg = handler.arg
    BY <2>1, <2>3 DEF Idle
  <2> QED BY <2>2, <2>4
<1> QED BY <1>1, <1>2, <1>3, <1>4, <1>5 DEF Next, Serve, Arrive

LEMMA CallsStart == Init => CallsOK
BY DEF Init, CallsOK, Idle

LEMMA CallsInvariance == Spec => [](IInv /\ CallsOK)
BY CallsStart, CallsKept, Invariance, PTL DEF Spec

\* What an adapter is called with is a power of a request or a frequency of
\* one of its lists.
LEMMA CalledWith ==
    ASSUME IInv, CallsOK, handler.step = "calling", NEW b, NEW code \in Codes,
           Invoke(adapters[handler.post.id], b, code)
    PROVE  \E op \in SilvusOps, arg \in AdapterArgs :
              Call(op, arg, adapters[handler.post.id], b, code)
<1>1. /\ handler.post.id \in Radios /\ handler.post \in Posts \cup {NoPost}
      /\ handler.list \in {DefaultList, ProfileList}
      /\ handler.post.kind \in {"power", "channel"}
      /\ handler.post.kind = "power" => handler.arg \in Nat /\ handler.arg = handler.post.x
      /\ handler.post.kind = "channel" => handler.arg \in DOMAIN handler.list
  BY DEF IInv, TypeOK, HandlerOK, CallsOK
<1>2. handler.post \in Posts
  BY <1>1, ServiceAssumption DEF NoPost
<1>3. CASE handler.post.kind = "power"
  <2>1. handler.arg \in AdapterArgs
    BY <1>1, <1>2, <1>3 DEF AdapterArgs
  <2>2. Call("set_power", handler.arg, adapters[handler.post.id], b, code)
    BY <1>3 DEF Invoke
  <2> QED BY <2>1, <2>2 DEF SilvusOps
<1>4. CASE handler.post.kind = "channel"
  <2>1. handler.list[handler.arg] \in AdapterArgs
    BY <1>1, <1>4 DEF AdapterArgs
  <2>2. Call("set_channel", handler.list[handler.arg], adapters[handler.post.id], b, code)
    BY <1>4 DEF Invoke
  <2> QED BY <2>1, <2>2 DEF SilvusOps
<1> QED BY <1>1, <1>3, <1>4

\* AtomicAdapter speaks of calls in the words of RadioAdapter too.
LEMMA SameWords ==
    ASSUME NEW r
    PROVE  /\ Atomic(r)!FreshReport(DefaultList) = FreshReport(DefaultList)
           /\ Atomic(r)!Codes = Codes /\ Atomic(r)!SilvusOps = SilvusOps
           /\ \A op, arg, a, b, code :
                 /\ Effect(op, arg, a, b, code) => Atomic(r)!Effect(op, arg, a, b, code)
                 /\ Call(op, arg, a, b, code) => Atomic(r)!Call(op, arg, a, b, code)
<1>1. /\ Atomic(r)!FreshReport(DefaultList) = FreshReport(DefaultList)
      /\ Atomic(r)!Codes = Codes /\ Atomic(r)!SilvusOps = SilvusOps
      /\ Atomic(r)!Statuses = Statuses /\ Atomic(r)!Unset = Unset
  BY DEF Atomic!FreshReport, FreshReport, Atomic!Codes, Codes, Atomic!SilvusOps,
         SilvusOps, Atomic!Statuses, Statuses, Atomic!Unset, Unset
<1>2. /\ \A op : Atomic(r)!May(op) = May(op)
      /\ \A a, b, S : Atomic(r)!SameBut(a, b, S) <=> SameBut(a, b, S)
      /\ \A a : Atomic(r)!Report(a) <=> Report(a)
      /\ \A list, f : Atomic(r)!ChannelOf(list, f) = ChannelOf(list, f)
  BY <1>1 DEF Atomic!May, May, Atomic!SameBut, SameBut, Atomic!Report, Report,
         Atomic!ChannelOf, ChannelOf
<1>3. ASSUME NEW op, NEW arg, NEW a, NEW b, NEW code, Effect(op, arg, a, b, code)
      PROVE  Atomic(r)!Effect(op, arg, a, b, code)
  <2>1. /\ Connected(a, b) => Atomic(r)!Connected(a, b)
        /\ PowerSet(arg, a, b) => Atomic(r)!PowerSet(arg, a, b)
        /\ ChannelSet(arg, a, b) => Atomic(r)!ChannelSet(arg, a, b)
        /\ Refreshed(a, b) => Atomic(r)!Refreshed(a, b)
    BY <1>2 DEF Connected, Atomic!Connected, PowerSet, Atomic!PowerSet, ChannelSet,
           Atomic!ChannelSet, Refreshed, Atomic!Refreshed
  <2> QED BY <1>1, <1>2, <1>3, <2>1 DEF Effect, Atomic!Effect
<1>4. ASSUME NEW op, NEW arg, NEW a, NEW b, NEW code, Call(op, arg, a, b, code)
      PROVE  Atomic(r)!Call(op, arg, a, b, code)
  BY <1>3, <1>4 DEF Call, Atomic!Call, Refusal, Atomic!Refusal
<1> QED BY <1>1, <1>3, <1>4

\* A step of the service is, to every adapter, a call, a tick of its gate's
\* clock, a restart, or nothing.
LEMMA StepIsCall ==
    ASSUME IInv, CallsOK, [Next]_vars, NEW r \in Radios
    PROVE  Atomic(r)!Next \/ UNCHANGED Atomic(r)!atomicVars
<1> USE DEF adapterVars, handlerVars, hubVars, Atomic!atomicVars
<1>0. DOMAIN adapters = Radios
  BY DEF IInv, TypeOK
<1>1. ASSUME NEW q \in Radios, ConnectRadio(q)
      PROVE  Atomic(r)!Next \/ UNCHANGED Atomic(r)!atomicVars
  <2>1. PICK b \in Reports(adapters[q], {}, {}), code \in Codes :
           /\ Effect("connect", 0, adapters[q], b, code)
           /\ adapters' = [adapters EXCEPT ![q] = b]
    BY <1>1 DEF ConnectRadio
  <2>2. q \in unconnected /\ unconnected' = unconnected \ {q}
    BY <1>1 DEF ConnectRadio
  <2>3. CASE q # r
    BY <1>0, <2>1, <2>2, <2>3
  <2>4. CASE q = r
    <3>1. Effect("connect", 0, adapters[r], adapters'[r], code)
      BY <1>0, <2>1, <2>4
    <3>2. Atomic(r)!Connect
      BY <2>2, <2>4, <3>1, SameWords DEF Atomic!Connect
    <3> QED BY <3>2 DEF Atomic!Next
  <2> QED BY <2>3, <2>4
<1>2. CASE AdapterReturns
  <2> DEFINE id == handler.post.id
  <2>1. PICK b \in Reports(adapters[id], {handler.arg}, {handler.arg}), code \in Codes :
           /\ Invoke(adapters[id], b, code)
           /\ adapters' = [adapters EXCEPT ![id] = b]
    BY <1>2 DEF AdapterReturns
  <2>2. handler.step = "calling" /\ unconnected = {} /\ unconnected' = unconnected
    BY <1>2 DEF AdapterReturns, IInv, PhaseOK, CallsOK
  <2>3. CASE id # r
    BY <1>0, <2>1, <2>2, <2>3
  <2>4. CASE id = r
    <3>1. \E op \in SilvusOps, arg \in AdapterArgs :
             Call(op, arg, adapters[id], b, code)
      BY <2>1, <2>2, CalledWith
    <3>2. adapters'[r] = b
      BY <1>0, <2>1, <2>4
    <3>3. Atomic(r)!Command
      BY <2>2, <2>4, <3>1, <3>2, SameWords DEF Atomic!Command
    <3> QED BY <3>3 DEF Atomic!Next
  <2> QED BY <2>3, <2>4
<1>3. ASSUME NEW q \in Radios, GateOpens(q)
      PROVE  Atomic(r)!Next \/ UNCHANGED Atomic(r)!atomicVars
  <2>1. /\ adapters' = [adapters EXCEPT ![q] = [adapters[q] EXCEPT !.gate = "open"]]
        /\ unconnected' = unconnected
    BY <1>0, <1>3 DEF GateOpens
  <2>2. CASE q # r
    BY <1>0, <2>1, <2>2
  <2>3. CASE q = r
    <3>1. Atomic(r)!GateOpens
      BY <1>0, <2>1, <2>3 DEF Atomic!GateOpens
    <3> QED BY <3>1 DEF Atomic!Next
  <2> QED BY <2>2, <2>3
<1>4. CASE Restart
  <2>1. Atomic(r)!Crash
    BY <1>4, SameWords DEF Restart, Atomic!Crash
  <2> QED BY <2>1 DEF Atomic!Next
<1>5. CASE OpenGateway \/ PublishReady \/ Arrive \/ PublishCommand \/ RecordCommand
           \/ Beat \/ UNCHANGED vars
  BY <1>5 DEF OpenGateway, PublishReady, Arrive, GatewayRefuses, SelectRadio,
        OrchestratorRefuses, CallAdapter, PublishCommand, RecordCommand, Beat, vars
<1> QED BY <1>1, <1>2, <1>3, <1>4, <1>5 DEF Next, Serve, Startup, Handle

LEMMA AdaptersStart == Init => \A r \in Radios : Atomic(r)!Init
BY SameWords DEF Init, Atomic!Init

\* The service calls every adapter as AtomicAdapter says: connect() once and
\* first, then one call at a time with powers and frequencies the handlers
\* have checked, and again after a restart.
THEOREM CalledInTurn == Spec => AdaptersAreCalledInTurn
<1>1. Init => \A r \in Radios : Atomic(r)!Init
  BY AdaptersStart
<1>2. IInv /\ CallsOK /\ [Next]_vars =>
        \A r \in Radios : [Atomic(r)!Next]_(Atomic(r)!atomicVars)
  BY StepIsCall
<1> QED BY <1>1, <1>2, CallsInvariance, PTL DEF Spec, AdaptersAreCalledInTurn

-----------------------------------------------------------------------------
(* The ready event among the heartbeats.                                   *)

\* Unless the ready event comes now, heartbeats that had none behind them are
\* the only ones of the old ring that have none behind them now.
LEMMA OldBeats ==
    ASSUME TypeOK, NEW es \in Seq(Events), Len(es) <= RingSize, Publish(es)
    PROVE  LET d == Len(ring) + Len(es) - Len(ring')
               old == {i \in BeatsSinceReady' : i + d <= Len(ring)}
           IN  /\ IsFiniteSet(BeatsSinceReady) /\ IsFiniteSet(BeatsSinceReady')
               /\ IsFiniteSet(old)
               /\ Cardinality(old) <= Cardinality(BeatsSinceReady)
<1> DEFINE d == Len(ring) + Len(es) - Len(ring')
           old == {i \in BeatsSinceReady' : i + d <= Len(ring)}
           f == [i \in old |-> i + d]
<1>1. /\ Len(es) \in Nat /\ Len(ring) \in Nat /\ Len(ring') \in Nat
      /\ d \in Nat /\ d = Len(ring) + Len(es) - Len(ring')
      /\ DOMAIN ring = 1..Len(ring) /\ DOMAIN ring' = 1..Len(ring')
      /\ \A n \in 1..Len(ring') :
            ring'[n] = IF n + d <= Len(ring) THEN ring[n + d]
                       ELSE es[n + d - Len(ring)]
  BY ShiftedRing
<1> HIDE DEF d
<1>2. IsFiniteSet(BeatsSinceReady) /\ IsFiniteSet(BeatsSinceReady')
  <2>1. /\ BeatsSinceReady \in SUBSET (1..Len(ring))
        /\ BeatsSinceReady' \in SUBSET (1..Len(ring'))
    BY <1>1 DEF BeatsSinceReady
  <2>2. IsFiniteSet(1..Len(ring)) /\ IsFiniteSet(1..Len(ring'))
    BY <1>1, FS_Interval
  <2> QED BY <2>1, <2>2, FS_Subset
<1>3. ASSUME NEW i \in old
      PROVE  i \in Nat /\ i + d \in BeatsSinceReady
  <2>1. /\ i \in 1..Len(ring') /\ i + d <= Len(ring)
        /\ ring'[i].tag = "heartbeat"
        /\ \A j \in i..Len(ring') : ring'[j].tag # "ready"
    BY <1>1 DEF BeatsSinceReady
  <2>2. i + d \in 1..Len(ring) /\ ring[i + d].tag = "heartbeat"
    BY <1>1, <2>1
  <2>3. ASSUME NEW j \in (i + d)..Len(ring)
        PROVE  ring[j].tag # "ready"
    <3>1. PICK k \in 1..Len(ring') : k \in i..Len(ring') /\ k + d = j
      <4>1. j - d \in 1..Len(ring') /\ j - d \in i..Len(ring') /\ (j - d) + d = j
        BY <1>1, <2>1
      <4> QED BY <4>1
    <3>2. ring'[k] = ring[k + d]
      <4>1. k + d <= Len(ring)
        BY <1>1, <3>1
      <4> QED BY <1>1, <4>1
    <3> QED BY <2>1, <3>1, <3>2
  <2> QED BY <1>1, <2>1, <2>2, <2>3 DEF BeatsSinceReady
<1>4. f \in Injection(old, BeatsSinceReady)
  <2>1. f \in [old -> BeatsSinceReady]
    BY <1>3
  <2>2. \A a, b \in old : a + d = b + d => a = b
    BY <1>1, <1>3
  <2> QED BY <2>1, <2>2 DEF Injection, IsInjective
<1>5. IsFiniteSet(old) /\ Cardinality(old) <= Cardinality(BeatsSinceReady)
  BY <1>2, <1>4, FS_Injection
<1> QED BY <1>2, <1>5 DEF d

\* Each round of the timer counts its heartbeat, and starts anew with ready.
BeatOK ==
    phase = "serving" =>
        /\ lastReady # NoReady
        /\ Cardinality(BeatsSinceReady) <= ticks

\* Events without a heartbeat.
LEMMA NoNewBeat ==
    ASSUME TypeOK, NEW es \in Seq(Events), Len(es) <= RingSize, Publish(es),
           \A k \in 1..Len(es) : es[k].tag # "heartbeat"
    PROVE  Cardinality(BeatsSinceReady') <= Cardinality(BeatsSinceReady)
<1> DEFINE d == Len(ring) + Len(es) - Len(ring')
           old == {i \in BeatsSinceReady' : i + d <= Len(ring)}
<1>1. /\ Len(es) \in Nat /\ Len(ring) \in Nat /\ Len(ring') \in Nat /\ d \in Nat
      /\ d = Len(ring) + Len(es) - Len(ring')
      /\ DOMAIN ring' = 1..Len(ring')
      /\ \A n \in 1..Len(ring') :
            ring'[n] = IF n + d <= Len(ring) THEN ring[n + d]
                       ELSE es[n + d - Len(ring)]
  BY ShiftedRing
<1>2. Cardinality(old) <= Cardinality(BeatsSinceReady)
  BY OldBeats
<1> HIDE DEF d
<1>3. ASSUME NEW i \in BeatsSinceReady'
      PROVE  i + d <= Len(ring)
  <2>1. i \in 1..Len(ring') /\ ring'[i].tag = "heartbeat"
    BY <1>1 DEF BeatsSinceReady
  <2>2. CASE i + d > Len(ring)
    <3>1. i + d - Len(ring) \in 1..Len(es) /\ ring'[i] = es[i + d - Len(ring)]
      BY <1>1, <2>1, <2>2
    <3> QED BY <2>1, <3>1
  <2> QED BY <1>1, <2>1, <2>2
<1>4. old = BeatsSinceReady'
  BY <1>3
<1> QED BY <1>2, <1>4

\* A heartbeat alone is one more at most.
LEMMA OneNewBeat ==
    ASSUME TypeOK, NEW e \in Events, Publish(<<e>>)
    PROVE  /\ Cardinality(BeatsSinceReady') <= Cardinality(BeatsSinceReady) + 1
           /\ Cardinality(BeatsSinceReady) \in Nat
<1> DEFINE es == <<e>>
           d == Len(ring) + Len(es) - Len(ring')
           old == {i \in BeatsSinceReady' : i + d <= Len(ring)}
<1>1. es \in Seq(Events) /\ Len(es) = 1 /\ Len(es) <= RingSize
  BY ServiceAssumption
<1>2. /\ Len(ring) \in Nat /\ Len(ring') \in Nat
      /\ d = Len(ring) + 1 - Len(ring')
      /\ DOMAIN ring' = 1..Len(ring')
  BY <1>1, ShiftedRing
<1>3. /\ IsFiniteSet(old) /\ Cardinality(old) <= Cardinality(BeatsSinceReady)
      /\ IsFiniteSet(BeatsSinceReady)  /\ IsFiniteSet(BeatsSinceReady')
  BY <1>1, OldBeats
<1> HIDE DEF d
<1>4. \A i \in BeatsSinceReady' : i + d <= Len(ring) \/ i = Len(ring')
  BY <1>2 DEF BeatsSinceReady
<1>5. BeatsSinceReady' \in SUBSET (old \cup {Len(ring')})
  BY <1>4
<1> HIDE DEF old
<1>6. /\ Cardinality(old) \in Nat /\ Cardinality(BeatsSinceReady) \in Nat
      /\ Cardinality(BeatsSinceReady') \in Nat
  BY <1>3, FS_CardinalityType
<1>7. /\ IsFiniteSet(old \cup {Len(ring')})
      /\ Cardinality(old \cup {Len(ring')}) \in Nat
      /\ Cardinality(old \cup {Len(ring')}) <= Cardinality(old) + 1
  <2>1. /\ IsFiniteSet(old \cup {Len(ring')})
        /\ \/ Cardinality(old \cup {Len(ring')}) = Cardinality(old)
           \/ Cardinality(old \cup {Len(ring')}) = Cardinality(old) + 1
    BY <1>3, FS_AddElement
  <2> QED BY <1>6, <2>1
<1>8. Cardinality(BeatsSinceReady') <= Cardinality(old \cup {Len(ring')})
  BY <1>5, <1>7, FS_Subset
<1> QED BY <1>3, <1>6, <1>7, <1>8

\* Behind a ready event that comes last there is nothing.
LEMMA ReadyIsLast ==
    ASSUME TypeOK, NEW es \in Seq(Events), Len(es) <= RingSize, Len(es) > 0,
           Publish(es), es[Len(es)].tag = "ready"
    PROVE  Cardinality(BeatsSinceReady') = 0
<1>1. /\ Len(es) \in Nat /\ Len(ring) \in Nat /\ Len(ring') \in Nat
      /\ Len(es) <= Len(ring')
      /\ DOMAIN ring' = 1..Len(ring')
      /\ \A n \in 1..Len(ring') :
            LET d == Len(ring) + Len(es) - Len(ring')
            IN  ring'[n] = IF n + d <= Len(ring) THEN ring[n + d]
                           ELSE es[n + d - Len(ring)]
  BY ShiftedRing
<1>2. Len(ring') \in 1..Len(ring') /\ ring'[Len(ring')].tag = "ready"
  <2>1. Len(ring') \in 1..Len(ring')
    BY <1>1
  <2>2. /\ Len(ring') + (Len(ring) + Len(es) - Len(ring')) = Len(ring) + Len(es)
        /\ ~(Len(ring) + Len(es) <= Len(ring))
        /\ Len(ring) + Len(es) - Len(ring) = Len(es)
    BY <1>1
  <2>3. ring'[Len(ring')] = es[Len(es)]
    BY <1>1, <2>1, <2>2
  <2> QED BY <2>1, <2>3
<1>3. BeatsSinceReady' = {}
  <2> SUFFICES ASSUME NEW i \in BeatsSinceReady'
               PROVE  FALSE
    OBVIOUS
  <2>1. i \in 1..Len(ring') /\ \A j \in i..Len(ring') : ring'[j].tag # "ready"
    BY <1>1 DEF BeatsSinceReady
  <2>2. Len(ring') \in i..Len(ring')
    BY <1>1, <2>1
  <2> QED BY <1>2, <2>1, <2>2
<1> QED BY <1>3, FS_EmptySet

\* Neither event of a command is a heartbeat.
LEMMA TagsOfCommand ==
    ASSUME IInv, handler.step = "publishing"
    PROVE  \A k \in 1..Len(CommandEvents) : CommandEvents[k].tag # "heartbeat"
<1>1. Len(CommandEvents) = 2
  BY EventsOfCommand
<1>2. CommandEvents[1].tag # "heartbeat" /\ CommandEvents[2].tag # "heartbeat"
  BY DEF CommandEvents, PowerChanged, ChannelChanged, StateEvent
<1> QED BY <1>1, <1>2

LEMMA BeatKept == IInv /\ BeatOK /\ [Next]_vars => BeatOK'
<1> SUFFICES ASSUME IInv, BeatOK, [Next]_vars
             PROVE  BeatOK'
  OBVIOUS
<1>1. TypeOK /\ RingSize \in Nat /\ RingSize >= 2
  BY ServiceAssumption DEF IInv
<1>2. CASE UNCHANGED <<phase, hubVars>>
  BY <1>2 DEF BeatOK, BeatsSinceReady, hubVars
<1>3. CASE PublishReady
  <2> DEFINE e == ReadyEvent(Snapshot)
  <2>1. Snapshot \in Snapshots
    BY <1>1, ViewTypes DEF Snapshot, Snapshots, TypeOK
  <2>2. e \in Events /\ e.tag = "ready" /\ e # NoReady
    BY <2>1 DEF ReadyEvent, ReadyEvents, Events, NoReady
  <2>3. Publish(<<e>>) /\ lastReady' = e /\ ticks' = ticks
    BY <1>3 DEF PublishReady
  <2> HIDE DEF e
  <2> DEFINE es == <<e>>
  <2>4. /\ es \in Seq(Events) /\ Len(es) <= RingSize /\ Len(es) > 0
        /\ es[Len(es)].tag = "ready" /\ Publish(es)
    BY <1>1, <2>2, <2>3
  <2>5. Cardinality(BeatsSinceReady') = 0
    <3> HIDE DEF es
    <3> QED BY <1>1, <2>4, ReadyIsLast
  <2>6. ticks \in Nat
    BY <1>1, ServiceAssumption DEF TypeOK
  <2> QED BY <2>2, <2>3, <2>5, <2>6 DEF BeatOK
<1>4. CASE PublishCommand
  <2>1. /\ CommandEvents \in Seq(Events) /\ Len(CommandEvents) <= RingSize
        /\ \A k \in 1..Len(CommandEvents) : CommandEvents[k].tag # "heartbeat"
    BY <1>4, EventsOfCommand, TagsOfCommand DEF PublishCommand
  <2>2. Publish(CommandEvents) /\ UNCHANGED <<phase, lastReady, ticks>>
    BY <1>4 DEF PublishCommand
  <2>3. Cardinality(BeatsSinceReady') <= Cardinality(BeatsSinceReady)
    BY <1>1, <2>1, <2>2, NoNewBeat
  <2>4. /\ Cardinality(BeatsSinceReady) \in Nat /\ Cardinality(BeatsSinceReady') \in Nat
        /\ ticks \in Nat
    <3>1. IsFiniteSet(BeatsSinceReady) /\ IsFiniteSet(BeatsSinceReady')
      BY <1>1, <2>1, <2>2, OldBeats
    <3>2. ticks \in Nat
      BY <1>1, ServiceAssumption DEF TypeOK
    <3> QED BY <3>1, <3>2, FS_CardinalityType
  <2> QED BY <2>2, <2>3, <2>4 DEF BeatOK
<1>5. CASE Beat
  <2>1. /\ UNCHANGED <<phase, lastReady>>
        /\ ticks' = (ticks + 1) % ReadyPeriod
    BY <1>5 DEF Beat
  <2>2. SUFFICES ASSUME phase = "serving", lastReady # NoReady
                 PROVE  Cardinality(BeatsSinceReady') <= ticks'
    BY <2>1 DEF BeatOK
  <2>3. /\ ticks \in 0..(ReadyPeriod - 1) /\ ReadyPeriod \in Nat \ {0}
        /\ Cardinality(BeatsSinceReady) <= ticks
        /\ Heartbeat \in Events /\ lastReady \in Events /\ lastReady.tag = "ready"
    BY <1>1, <2>2, ServiceAssumption
       DEF TypeOK, BeatOK, Events, ReadyEvents
  <2>4. CASE ticks' = 0
    <3> DEFINE es == <<Heartbeat, lastReady>>
    <3>1. Publish(es)
      BY <1>5, <2>2, <2>4 DEF Beat
    <3>2. es \in Seq(Events) /\ Len(es) = 2 /\ es[2] = lastReady
      BY <2>3
    <3> HIDE DEF es
    <3>3. Cardinality(BeatsSinceReady') = 0
      <4>1. Len(es) > 0 /\ Len(es) <= RingSize /\ es[Len(es)].tag = "ready"
        BY <1>1, <2>3, <3>2
      <4> QED BY <1>1, <3>1, <3>2, <4>1, ReadyIsLast
    <3> QED BY <2>4, <3>3
  <2>5. CASE ticks' # 0
    <3>1. Publish(<<Heartbeat>>)
      BY <1>5, <2>5 DEF Beat
    <3>2. /\ Cardinality(BeatsSinceReady') <= Cardinality(BeatsSinceReady) + 1
          /\ Cardinality(BeatsSinceReady) \in Nat
          /\ Cardinality(BeatsSinceReady') \in Nat
      <4>1. /\ <<Heartbeat>> \in Seq(Events) /\ Len(<<Heartbeat>>) = 1
            /\ Len(<<Heartbeat>>) <= RingSize
        BY <1>1, <2>3
      <4>2. IsFiniteSet(BeatsSinceReady')
        BY <1>1, <3>1, <4>1, OldBeats
      <4> QED BY <1>1, <2>3, <3>1, <4>2, OneNewBeat, FS_CardinalityType
    <3>3. ticks' = ticks + 1
      BY <2>1, <2>3, <2>5
    <3> QED BY <2>3, <3>2, <3>3
  <2> QED BY <2>4, <2>5
<1>6. CASE Restart
  BY <1>6 DEF Restart, BeatOK
<1>7. CASE OpenGateway
  BY <1>7 DEF OpenGateway, BeatOK
<1>8. ASSUME NEW r \in Radios, ConnectRadio(r) \/ GateOpens(r)
      PROVE  UNCHANGED <<phase, hubVars>>
  BY <1>8 DEF ConnectRadio, GateOpens
<1>9. ASSUME Arrive \/ AdapterReturns \/ RecordCommand
      PROVE  UNCHANGED <<phase, hubVars>>
  BY <1>9 DEF Arrive, GatewayRefuses, SelectRadio, OrchestratorRefuses, CallAdapter,
              AdapterReturns, RecordCommand
<1>10. CASE UNCHANGED vars
  BY <1>2, <1>10 DEF vars
<1> QED
  BY <1>2, <1>3, <1>4, <1>5, <1>6, <1>7, <1>8, <1>9, <1>10
     DEF Next, Serve, Startup, Handle

\* Fewer heartbeats than the counter's period are fewer than the period.
LEMMA FewBeats == IInv /\ BeatOK => ReadyAmongBeats
<1> SUFFICES ASSUME TypeOK, BeatOK, phase = "serving"
             PROVE  Cardinality(BeatsSinceReady) < ReadyPeriod
  BY DEF ReadyAmongBeats, IInv
<1>1. BeatsSinceReady \in SUBSET (1..Len(ring)) /\ Len(ring) \in Nat
  BY LenProperties DEF BeatsSinceReady, TypeOK
<1>2. IsFiniteSet(BeatsSinceReady)
  <2>1. IsFiniteSet(1..Len(ring))
    BY <1>1, FS_Interval
  <2> QED BY <1>1, <2>1, FS_Subset
<1>3. Cardinality(BeatsSinceReady) \in Nat
  BY <1>2, FS_CardinalityType
<1> QED BY <1>3, ServiceAssumption DEF TypeOK, BeatOK

LEMMA BeatStarts == Init => BeatOK
BY DEF Init, BeatOK

\* However long the service runs and whatever commands flood the ring, no
\* ReadyPeriod heartbeats in a row are without the ready event
\* (kReadyReemitPeriod of TelemetryHub).
THEOREM ReadyComesBack == Spec => []ReadyAmongBeats
BY BeatStarts, BeatKept, FewBeats, Invariance, PTL DEF Spec
=============================================================================
