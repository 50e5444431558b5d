------------------------- MODULE MonitorPage_proofs -------------------------
(***************************************************************************)
(* Proofs about MonitorPage: that a page which has taken every event shows *)
(* what the service reports, for any number of radios and of answers under *)
(* way, any requests and any size of the ring.                             *)
(***************************************************************************)
EXTENDS MonitorPage, RadioService_proofs

-----------------------------------------------------------------------------
(* The inductive invariant.                                                *)

CacheEntry(c) ==
    /\ DOMAIN c = {"known", "status", "power", "freq", "chan", "list"}
    /\ c.list \in {<<>>, DefaultList, ProfileList}

Entries(items) ==
    /\ items = [r \in Radios |-> items[r]]
    /\ \A r \in Radios : CacheEntry(items[r])

PageTypeOK ==
    /\ Entries(cache)
    /\ \A a \in answers :
          /\ DOMAIN a = {"items", "active", "old"} /\ a.old \in BOOLEAN
          /\ Entries(a.items)
    /\ stale \subseteq Radios

\* A process that has not opened its gateway has told the page nothing: what it
\* still gets is of the process before.
StartOK == phase = "starting" => stale = Radios /\ \A a \in answers : a.old

\* The page's entry c says what adapter report a says.
Agrees(c, a) ==
    /\ c.status = Shown(a.status)
    /\ c.power = ShownPower(a.power)
    /\ c.freq = ShownFreq(a.channels, a.chan)
    /\ Derived(c) = a.chan

\* The adapter of r has returned, its events are not out.
Publishing(r) == handler.step = "publishing" /\ handler.post.id = r

\* A state event of r that the page has still to take.
Pending == (Len(ring) - unseen + 1)..Len(ring)
Awaits(r) == \E i \in Pending : IsState(ring[i], r)

\* An answer that no command has overtaken is true.
AnswersOK ==
    \A a \in answers : ~a.old =>
        \A r \in Radios : Agrees(a.items[r], adapters[r]) \/ Publishing(r)

\* A change is told twice, in an event of its own and in the state event
\* after it.
FollowedBy(s) ==
    \A i \in 1..Len(s) :
        s[i].tag \in {"channelChanged", "powerChanged"} =>
            i + 1 \in 1..Len(s) /\ IsState(s[i + 1], s[i].radio)

FollowOK == FollowedBy(ring)

\* As long as the ring has all the page has not taken, the page is right
\* about a radio or will be told.
BehindOK ==
    unseen \in 0..Len(ring) =>
        \A r \in Radios \ stale :
            Agrees(cache[r], adapters[r]) \/ Awaits(r) \/ Publishing(r)

PageInv ==
    /\ IInv
    /\ PageTypeOK
    /\ StartOK
    /\ AnswersOK
    /\ FollowOK
    /\ BehindOK

-----------------------------------------------------------------------------
(* Lemmas about the operators.                                             *)

\* No list has the frequency 0, which stands for none.
LEMMA NoChannelOfNone ==
    ASSUME NEW list \in {<<>>, DefaultList, ProfileList}
    PROVE  ChannelOf(list, 0) = 0
<1>1. \A i \in DOMAIN list : list[i] # 0
  <2>1. CASE list = <<>>
    BY <2>1
  <2>2. CASE list # <<>>
    <3>1. list \in Seq(Nat \ {0})
      BY <2>2, ServiceAssumption
    <3>2. \A i \in 1..Len(list) : list[i] \in Nat \ {0}
      BY <3>1, ElementOfSeq
    <3>3. DOMAIN list = 1..Len(list)
      BY <3>1, LenProperties
    <3> QED BY <3>2, <3>3
  <2> QED BY <2>1, <2>2
<1> QED BY <1>1 DEF ChannelOf

\* What GET /radios answers of an adapter agrees with it, the channel by its
\* frequency.
LEMMA ItemAgrees ==
    ASSUME NEW a, Report(a), a.channels \in {DefaultList, ProfileList}
    PROVE  Agrees(Item(a), a) /\ CacheEntry(Item(a))
<1>1. /\ Len(a.channels) \in Nat /\ DOMAIN a.channels = 1..Len(a.channels)
      /\ NoTwice(a.channels)
  BY Lists
<1>2. a.chan \in 0..Len(a.channels)
  BY DEF Report
<1>3. Derived(Item(a)) = ChannelOf(a.channels, ShownFreq(a.channels, a.chan))
  BY DEF Derived, Item
<1>4. CASE a.chan = 0
  <2>1. ShownFreq(a.channels, a.chan) = 0
    BY <1>1, <1>4 DEF ShownFreq
  <2> QED BY <1>3, <1>4, <2>1, NoChannelOfNone DEF Agrees, Item, CacheEntry
<1>5. CASE a.chan # 0
  <2>1. a.chan \in DOMAIN a.channels
    BY <1>1, <1>2, <1>5
  <2>2. ChannelOf(a.channels, ShownFreq(a.channels, a.chan)) = a.chan
    BY <1>1, <2>1, IndexAgain DEF ShownFreq
  <2> QED BY <1>3, <2>2 DEF Agrees, Item, CacheEntry
<1> QED BY <1>4, <1>5

\* What the page keeps of a state event agrees with the adapter the event
\* tells of, whatever list of channels the page has.
LEMMA ToldAgrees ==
    ASSUME NEW c, NEW a, NEW e, CacheEntry(c), Report(a),
           a.channels \in {DefaultList, ProfileList},
           Tells(e, a), c.status = e.status, c.power = e.power, c.freq = e.freq,
           c.chan = e.chan
    PROVE  Agrees(c, a)
<1>1. CASE a.chan = 0
  <2>1. ShownFreq(a.channels, 0) = 0
    BY Lists DEF ShownFreq
  <2>2. ChannelOf(c.list, 0) = 0
    BY NoChannelOfNone DEF CacheEntry
  <2> QED BY <1>1, <2>1, <2>2 DEF Agrees, Tells, Derived
<1>2. CASE a.chan # 0
  BY <1>2 DEF Agrees, Tells, Derived
<1> QED BY <1>1, <1>2

\* Agreement depends on what is shown of the adapter only.
SameReport(r) ==
    /\ adapters'[r].status = adapters[r].status
    /\ adapters'[r].power = adapters[r].power
    /\ adapters'[r].chan = adapters[r].chan
    /\ adapters'[r].channels = adapters[r].channels

LEMMA AgreementStays ==
    ASSUME NEW r, SameReport(r), NEW c, Agrees(c, adapters[r])
    PROVE  Agrees(c, adapters'[r])
BY DEF SameReport, Agrees

-----------------------------------------------------------------------------
(* Publishing.                                                             *)

\* Index k of what was in the ring, followed by es, in the new ring.
LEMMA WhereItWent ==
    ASSUME TypeOK, NEW es \in Seq(Events), Len(es) <= RingSize, Publish(es)
    PROVE  /\ Len(ring) \in Nat /\ Len(es) \in Nat /\ Len(ring') \in Nat
           /\ Len(ring') <= Len(ring) + Len(es) /\ Len(es) <= Len(ring')
           /\ \A i \in 1..Len(ring) :
                 LET n == i - Len(ring) - Len(es) + Len(ring')
                 IN  n >= 1 => n \in 1..Len(ring') /\ ring'[n] = ring[i]
           /\ \A k \in 1..Len(es) :
                 LET n == k - Len(es) + Len(ring')
                 IN  n \in 1..Len(ring') /\ ring'[n] = es[k]
<1>1. /\ ring \in Seq(Events) /\ ring' \in Seq(Events)
      /\ Len(ring) \in Nat /\ Len(es) \in Nat /\ Len(ring') \in Nat
      /\ Len(ring') <= Len(ring) + Len(es) /\ Len(es) <= Len(ring')
      /\ \A n \in 1..Len(ring') :
            ring'[n] = (ring \o es)[n + Len(ring) + Len(es) - Len(ring')]
  BY PublishKeeps, LenProperties DEF TypeOK
<1>2. ASSUME NEW i \in 1..Len(ring), i - Len(ring) - Len(es) + Len(ring') >= 1
      PROVE  LET n == i - Len(ring) - Len(es) + Len(ring')
             IN  n \in 1..Len(ring') /\ ring'[n] = ring[i]
  <2> DEFINE n == i - Len(ring) - Len(es) + Len(ring')
  <2>1. n \in 1..Len(ring') /\ n + Len(ring) + Len(es) - Len(ring') = i
    BY <1>1, <1>2
  <2>2. ring'[n] = (ring \o es)[i]
    BY <1>1, <2>1
  <2>3. (ring \o es)[i] = ring[i]
    BY <1>1, ConcatProperties
  <2> QED BY <2>1, <2>2, <2>3
<1>3. ASSUME NEW k \in 1..Len(es)
      PROVE  LET n == k - Len(es) + Len(ring')
             IN  n \in 1..Len(ring') /\ ring'[n] = es[k]
  <2> DEFINE n == k - Len(es) + Len(ring')
  <2>1. n \in 1..Len(ring') /\ n + Len(ring) + Len(es) - Len(ring') = Len(ring) + k
    BY <1>1
  <2>2. ring'[n] = (ring \o es)[Len(ring) + k]
    BY <1>1, <2>1
  <2>3. (ring \o es)[Len(ring) + k] = es[k]
    BY <1>1, ConcatProperties
  <2> QED BY <2>1, <2>2, <2>3
<1> QED BY <1>1, <1>2, <1>3

\* What the page has still to take grows by es, or is more than the ring has.
LEMMA UnseenGrows ==
    ASSUME TypeOK, NEW es \in Seq(Events), Len(es) <= RingSize, Publish(es),
           unseen' \in 0..Len(ring')
    PROVE  unseen \in 0..Len(ring) /\ unseen' = unseen + Len(es)
<1>1. /\ Len(ring) \in Nat /\ Len(es) \in Nat /\ RingSize \in Nat
      /\ Len(ring) <= RingSize
      /\ unseen \in {-1, -2} \cup 0..(RingSize + 1)
  BY ServiceAssumption DEF TypeOK, Lost, Never
<1>2. unseen' = IF unseen \in {-1, -2} THEN unseen
                ELSE IF unseen + Len(es) <= RingSize + 1 THEN unseen + Len(es)
                ELSE RingSize + 1
  BY DEF Publish, AtMost, Lost, Never
<1>3. /\ Len(ring') \in Nat /\ Len(ring') <= RingSize
      /\ Len(ring') <= Len(ring) + Len(es)
  BY WhereItWent, PublishKeeps
<1>4. unseen' = unseen + Len(es) /\ unseen \in Nat
  BY <1>1, <1>2, <1>3
<1> QED BY <1>1, <1>3, <1>4

\* A state event that is pending stays pending, one that is published becomes
\* pending.
LEMMA StaysPending ==
    ASSUME TypeOK, NEW es \in Seq(Events), Len(es) <= RingSize, Publish(es),
           unseen' \in 0..Len(ring'), NEW r,
           Awaits(r) \/ \E k \in 1..Len(es) : IsState(es[k], r)
    PROVE  Awaits(r)'
<1>1. unseen \in 0..Len(ring) /\ unseen' = unseen + Len(es)
  BY UnseenGrows
<1>2. /\ Len(ring) \in Nat /\ Len(es) \in Nat /\ Len(ring') \in Nat
      /\ Len(ring') <= Len(ring) + Len(es) /\ Len(es) <= Len(ring')
  BY WhereItWent
<1>3. CASE Awaits(r)
  <2>1. PICK i \in Pending : IsState(ring[i], r)
    BY <1>3 DEF Awaits
  <2> DEFINE n == i - Len(ring) - Len(es) + Len(ring')
  <2>2. i \in 1..Len(ring) /\ i > Len(ring) - unseen
    BY <1>1, <1>2, <2>1 DEF Pending
  <2>3. n >= 1 /\ n > Len(ring') - unseen' /\ n <= Len(ring') /\ n \in Int
    BY <1>1, <1>2, <2>2
  <2>4. ring'[n] = ring[i]
    BY <2>2, <2>3, WhereItWent
  <2>5. n \in Pending'
    BY <1>1, <1>2, <2>3 DEF Pending
  <2> QED BY <2>1, <2>4, <2>5 DEF Awaits
<1>4. CASE \E k \in 1..Len(es) : IsState(es[k], r)
  <2>1. PICK k \in 1..Len(es) : IsState(es[k], r)
    BY <1>4
  <2> DEFINE n == k - Len(es) + Len(ring')
  <2>2. n \in 1..Len(ring') /\ ring'[n] = es[k]
    BY <2>1, WhereItWent
  <2>3. n \in Pending'
    BY <1>1, <1>2, <2>1, <2>2 DEF Pending
  <2> QED BY <2>1, <2>2, <2>3 DEF Awaits
<1> QED BY <1>3, <1>4

\* The ring loses its oldest events only, so that a change in it is still
\* followed by its state event.
LEMMA FollowKeeps ==
    ASSUME TypeOK, FollowOK, NEW es \in Seq(Events), Len(es) <= RingSize,
           Publish(es), FollowedBy(es)
    PROVE  FollowOK'
<1> DEFINE d == Len(ring) + Len(es) - Len(ring')
           Changes(e) == e.tag \in {"channelChanged", "powerChanged"}
<1>1. /\ ring \in Seq(Events)
      /\ Len(ring) \in Nat /\ Len(es) \in Nat /\ Len(ring') \in Nat /\ d \in Nat
      /\ Len(es) <= Len(ring')
      /\ \A n \in 1..Len(ring') :
            ring'[n] = (ring \o es)[n + Len(ring) + Len(es) - Len(ring')]
  BY WhereItWent, PublishKeeps DEF TypeOK
<1>2. SUFFICES ASSUME NEW n \in 1..Len(ring'), Changes(ring'[n])
               PROVE  n + 1 \in 1..Len(ring') /\ IsState(ring'[n + 1], ring'[n].radio)
  BY DEF FollowOK, FollowedBy
<1>3. CASE n + d <= Len(ring)
  <2>1. n + d \in 1..Len(ring) /\ (n + d) - Len(ring) - Len(es) + Len(ring') = n
    BY <1>1, <1>3
  <2>2. ring'[n] = ring[n + d]
    BY <2>1, WhereItWent
  <2>3. n + d + 1 \in 1..Len(ring) /\ IsState(ring[n + d + 1], ring[n + d].radio)
    BY <1>2, <2>1, <2>2 DEF FollowOK, FollowedBy
  <2>4. PICK m \in 1..Len(ring) : m = n + d + 1
    BY <2>3
  <2>5. m - Len(ring) - Len(es) + Len(ring') = n + 1 /\ n + 1 >= 1
    BY <1>1, <2>4
  <2>6. LET j == m - Len(ring) - Len(es) + Len(ring')
        IN  j \in 1..Len(ring') /\ ring'[j] = ring[m]
    BY <2>5, WhereItWent
  <2>7. n + 1 \in 1..Len(ring') /\ ring'[n + 1] = ring[m]
    BY ONLY <2>5, <2>6
  <2> QED BY <2>2, <2>3, <2>4, <2>7
<1>4. CASE n + d > Len(ring)
  <2> DEFINE k == n + d - Len(ring)
  <2>1. k \in 1..Len(es) /\ k - Len(es) + Len(ring') = n
    BY <1>1, <1>4
  <2>2. ring'[n] = es[k]
    BY <2>1, WhereItWent
  <2>3. k + 1 \in 1..Len(es) /\ IsState(es[k + 1], es[k].radio)
    BY <1>2, <2>1, <2>2 DEF FollowedBy
  <2>4. PICK m \in 1..Len(es) : m = k + 1
    BY <2>3
  <2>5. m - Len(es) + Len(ring') = n + 1
    BY <1>1, <2>4
  <2>6. LET j == m - Len(es) + Len(ring')
        IN  j \in 1..Len(ring') /\ ring'[j] = es[m]
    BY WhereItWent
  <2>7. n + 1 \in 1..Len(ring') /\ ring'[n + 1] = es[m]
    BY ONLY <2>5, <2>6
  <2> QED BY <2>2, <2>3, <2>4, <2>7
<1> QED BY <1>1, <1>3, <1>4

-----------------------------------------------------------------------------
(* Steps of the service.                                                   *)

\* A step that tells nothing: what an adapter reports changes only while the
\* gateway is closed or when its command is about to be told.
LEMMA UntoldKeeps ==
    ASSUME PageInv, IInv', UNCHANGED <<ring, unseen, pageVars>>,
           phase' = "starting" => phase = "starting",
           phase # "starting" =>
               \A r \in Radios : /\ SameReport(r) \/ Publishing(r)'
                                 /\ Publishing(r) => Publishing(r)'
    PROVE  PageInv'
<1> USE DEF pageVars
<1>1. PageTypeOK' /\ StartOK' /\ FollowOK'
  BY DEF PageInv, PageTypeOK, StartOK, FollowOK, FollowedBy
<1>2. CASE phase = "starting"
  BY <1>1, <1>2 DEF PageInv, StartOK, AnswersOK, BehindOK
<1>3. CASE phase # "starting"
  <2>1. AnswersOK'
    BY <1>3, AgreementStays DEF PageInv, AnswersOK
  <2>2. BehindOK'
    <3>1. \A r : Awaits(r) => Awaits(r)'
      BY DEF Awaits, Pending
    <3> QED BY <1>3, <3>1, AgreementStays DEF PageInv, BehindOK
  <2> QED BY <1>1, <2>1, <2>2 DEF PageInv
<1> QED BY <1>2, <1>3

\* A step that publishes es: a radio whose command is told has its state event
\* in es, and the answers under way are old.
LEMMA ToldKeeps ==
    ASSUME PageInv, IInv', NEW es \in Seq(Events), Len(es) <= RingSize, Publish(es),
           FollowedBy(es), UNCHANGED <<adapters, cache, shownActive, stale>>,
           phase' = "starting" => phase = "starting",
           \/ answers' = answers /\ handler' = handler
           \/ /\ answers' = Aged
              /\ \A r \in Radios :
                    Publishing(r) => \E k \in 1..Len(es) : IsState(es[k], r)
    PROVE  PageInv'
<1>1. TypeOK
  BY DEF PageInv, IInv
<1>2. PageTypeOK' /\ StartOK'
  <2>1. CASE answers' = answers
    BY <2>1 DEF PageInv, PageTypeOK, StartOK
  <2>2. CASE answers' = Aged
    BY <2>2 DEF PageInv, PageTypeOK, StartOK, Aged
  <2> QED BY <2>1, <2>2
<1>3. AnswersOK'
  <2>1. CASE answers' = answers /\ handler' = handler
    BY <2>1 DEF PageInv, AnswersOK, Publishing, Agrees
  <2>2. CASE answers' = Aged
    BY <2>2 DEF PageInv, PageTypeOK, AnswersOK, Aged
  <2> QED BY <2>1, <2>2
<1>4. FollowOK'
  BY <1>1, FollowKeeps DEF PageInv
<1>5. BehindOK'
  <2> SUFFICES ASSUME unseen' \in 0..Len(ring'), NEW r \in Radios \ stale
               PROVE  Agrees(cache[r], adapters[r]) \/ Awaits(r)' \/ Publishing(r)'
    BY DEF BehindOK, Agrees
  <2>1. Agrees(cache[r], adapters[r]) \/ Awaits(r) \/ Publishing(r)
    BY <1>1, UnseenGrows DEF PageInv, BehindOK
  <2>2. CASE Awaits(r) \/ \E k \in 1..Len(es) : IsState(es[k], r)
    BY <1>1, <2>2, StaysPending
  <2>3. CASE Publishing(r) /\ handler' = handler
    BY <2>3 DEF Publishing
  <2> QED BY <2>1, <2>2, <2>3
<1> QED BY <1>2, <1>3, <1>4, <1>5 DEF PageInv

\* A heartbeat and the ready event come alone.
LEMMA QuietFollowed ==
    ASSUME NEW es, \A k \in 1..Len(es) : es[k].tag \in {"ready", "heartbeat", "none"}
    PROVE  FollowedBy(es)
BY DEF FollowedBy

LEMMA StartupKeepsPage ==
    ASSUME PageInv, IInv', ServiceStep, Startup
    PROVE  PageInv'
<1>1. IInv /\ UNCHANGED <<cache, shownActive, stale>>
  BY DEF PageInv, ServiceStep
<1>2. CASE \E r \in Radios : ConnectRadio(r)
  <2>1. UNCHANGED <<ring, unseen, pageVars>> /\ phase = "starting"
    BY <1>1, <1>2 DEF ConnectRadio, hubVars, handlerVars, ServiceStep, pageVars
  <2> QED BY <2>1, UntoldKeeps
<1>3. CASE OpenGateway
  <2>1. UNCHANGED <<ring, unseen, pageVars>> /\ phase = "starting"
    BY <1>1, <1>3 DEF OpenGateway, hubVars, handlerVars, ServiceStep, pageVars
  <2> QED BY <2>1, UntoldKeeps
<1>4. CASE PublishReady
  <2> DEFINE e == ReadyEvent(Snapshot)
  <2>1. Snapshot \in Snapshots
    BY <1>1, ViewTypes DEF Snapshot, Snapshots, IInv, TypeOK
  <2>2. e \in Events /\ e.tag = "ready"
    BY <2>1 DEF ReadyEvent, ReadyEvents, Events
  <2>3. Publish(<<e>>) /\ UNCHANGED <<adapterVars, handlerVars>>
        /\ phase = "listening" /\ phase' = "serving"
    BY <1>4 DEF PublishReady
  <2> HIDE DEF e
  <2>4. /\ <<e>> \in Seq(Events) /\ Len(<<e>>) = 1 /\ Len(<<e>>) <= RingSize
        /\ FollowedBy(<<e>>)
    BY <2>2, QuietFollowed, ServiceAssumption
  <2>5. answers' = answers /\ handler' = handler /\ adapters' = adapters
    BY <2>3 DEF ServiceStep, handlerVars, adapterVars
  <2> QED BY <1>1, <2>3, <2>4, <2>5, ToldKeeps
<1> QED BY <1>2, <1>3, <1>4 DEF Startup

LEMMA ArriveKeepsPage ==
    ASSUME PageInv, IInv', ServiceStep, Arrive
    PROVE  PageInv'
<1>1. /\ UNCHANGED <<ring, unseen, phase, adapters>>
      /\ handler.step = "idle" /\ handler'.step # "publishing"
  BY DEF Arrive, GatewayRefuses, SelectRadio, OrchestratorRefuses, CallAdapter,
         Accepting, Answer, Idle, hubVars, adapterVars
<1>2. UNCHANGED pageVars
  BY <1>1 DEF ServiceStep, pageVars
<1>3. \A r \in Radios : SameReport(r) /\ ~Publishing(r)
  BY <1>1 DEF SameReport, Publishing
<1> QED BY <1>1, <1>2, <1>3, UntoldKeeps

LEMMA ReturnsKeepsPage ==
    ASSUME PageInv, IInv', ServiceStep, AdapterReturns
    PROVE  PageInv'
<1> DEFINE id == handler.post.id
           a == adapters[id]
<1>1. PICK b \in Reports(a, {handler.arg}, {handler.arg}), code \in Codes :
         /\ Invoke(a, b, code)
         /\ adapters' = [adapters EXCEPT ![id] = b]
         /\ \/ /\ code = "Ok"
               /\ handler' = [handler EXCEPT !.step = "publishing"]
            \/ /\ code # "Ok"
               /\ handler' = Idle
  BY DEF AdapterReturns, Answer
<1>2. /\ handler.step = "calling" /\ UNCHANGED <<phase, ring, unseen>>
  BY DEF AdapterReturns, hubVars
<1>3. /\ id \in Radios /\ DOMAIN adapters = Radios
      /\ Report(a)
      /\ a.gate = "shut" => a.status = "recovering"
      /\ handler.post.kind \in {"power", "channel"}
      /\ handler \in [step : {"idle", "calling", "publishing", "recording"},
                      post : Posts \cup {NoPost}, arg : Int, list : Seq(Nat)]
  BY <1>2 DEF PageInv, IInv, TypeOK, HandlerOK, GateIsShown
<1>4. UNCHANGED pageVars
  BY <1>2 DEF ServiceStep, pageVars
<1> HIDE DEF a
<1>5. ASSUME NEW r \in Radios
      PROVE  SameReport(r) \/ Publishing(r)'
  <2>1. CASE r # id
    <3>1. adapters'[r] = adapters[r]
      BY <1>1, <1>3, <2>1
    <3> QED BY <3>1 DEF SameReport
  <2>2. CASE r = id /\ code = "Ok"
    <3>1. handler'.step = "publishing" /\ handler'.post = handler.post
      BY <1>1, <1>3, <2>2
    <3> QED BY <2>2, <3>1 DEF Publishing
  <2>3. CASE r = id /\ code # "Ok"
    <3>1. PICK op \in {"set_power", "set_channel"} : \E arg : Call(op, arg, a, b, code)
      BY <1>1, <1>3 DEF Invoke
    <3>2. /\ b.channels = a.channels /\ b.status = a.status
          /\ b.power = a.power /\ b.chan = a.chan
      BY <1>3, <2>3, <3>1, CallEffect
    <3>3. adapters'[r] = b /\ adapters[r] = a
      BY <1>1, <1>3, <2>3 DEF a
    <3> QED BY <3>2, <3>3 DEF SameReport
  <2> QED BY <2>1, <2>2, <2>3
<1>6. \A r \in Radios : ~Publishing(r)
  BY <1>2 DEF Publishing
<1> QED BY <1>2, <1>4, <1>5, <1>6, UntoldKeeps

LEMMA PublishKeepsPage ==
    ASSUME PageInv, IInv', ServiceStep, PublishCommand
    PROVE  PageInv'
<1> DEFINE es == CommandEvents
           id == handler.post.id
<1>1. /\ handler.step = "publishing" /\ Publish(es)
      /\ handler' = [handler EXCEPT !.step = "recording"]
      /\ UNCHANGED <<phase, adapters>>
  BY DEF PublishCommand, adapterVars
<1>2. /\ IInv /\ id \in Radios
      /\ handler \in [step : {"idle", "calling", "publishing", "recording"},
                      post : Posts \cup {NoPost}, arg : Int, list : Seq(Nat)]
  BY <1>1 DEF PageInv, IInv, TypeOK
<1>3. answers' = Aged /\ UNCHANGED <<cache, shownActive, stale>>
  BY <1>1, <1>2 DEF ServiceStep
<1>4. /\ es \in Seq(Events) /\ Len(es) = 2 /\ Len(es) <= RingSize
      /\ es[1].radio = id /\ es[2] \in Events /\ IsState(es[2], id)
  BY <1>1, <1>2, EventsOfCommand
<1> HIDE DEF es
<1>5. FollowedBy(es)
  BY <1>4 DEF FollowedBy, IsState
<1>6. \A r \in Radios : Publishing(r) => \E k \in 1..Len(es) : IsState(es[k], r)
  BY <1>4 DEF Publishing
<1> QED BY <1>1, <1>3, <1>4, <1>5, <1>6, ToldKeeps

LEMMA RecordKeepsPage ==
    ASSUME PageInv, IInv', ServiceStep, RecordCommand
    PROVE  PageInv'
<1>1. /\ UNCHANGED <<ring, unseen, phase, adapters>>
      /\ handler.step = "recording" /\ handler'.step = "idle"
  BY DEF RecordCommand, Answer, Idle, hubVars, adapterVars
<1>2. UNCHANGED pageVars
  BY <1>1 DEF ServiceStep, pageVars
<1>3. \A r \in Radios : SameReport(r) /\ ~Publishing(r)
  BY <1>1 DEF SameReport, Publishing
<1> QED BY <1>1, <1>2, <1>3, UntoldKeeps

LEMMA BeatKeepsPage ==
    ASSUME PageInv, IInv', ServiceStep, Beat
    PROVE  PageInv'
<1>1. /\ UNCHANGED <<phase, adapters, handler, cache, shownActive, stale, answers>>
      /\ IInv /\ RingSize >= 2 /\ RingSize \in Nat
  BY ServiceAssumption DEF Beat, ServiceStep, adapterVars, handlerVars, PageInv
<1>2. Heartbeat \in Events /\ Heartbeat.tag = "heartbeat"
  BY DEF Events, Heartbeat
<1>3. CASE ticks' = 0 /\ lastReady # NoReady
  <2>1. lastReady \in Events /\ lastReady.tag = "ready"
    BY <1>1, <1>3 DEF Events, ReadyEvents, IInv, TypeOK
  <2> DEFINE es == <<Heartbeat, lastReady>>
  <2>2. Publish(es)
    BY <1>3 DEF Beat
  <2>3. /\ es \in Seq(Events) /\ Len(es) = 2
        /\ \A k \in 1..Len(es) : es[k].tag \in {"ready", "heartbeat", "none"}
    BY <1>2, <2>1
  <2> HIDE DEF es
  <2>4. Len(es) <= RingSize /\ FollowedBy(es)
    BY <1>1, <2>3, QuietFollowed
  <2> QED BY <1>1, <2>2, <2>3, <2>4, ToldKeeps
<1>4. CASE ~(ticks' = 0 /\ lastReady # NoReady)
  <2> DEFINE es == <<Heartbeat>>
  <2>1. Publish(es)
    BY <1>4 DEF Beat
  <2>2. /\ es \in Seq(Events) /\ Len(es) = 1
        /\ \A k \in 1..Len(es) : es[k].tag \in {"ready", "heartbeat", "none"}
    BY <1>2
  <2> HIDE DEF es
  <2>3. Len(es) <= RingSize /\ FollowedBy(es)
    BY <1>1, <2>2, QuietFollowed
  <2> QED BY <1>1, <2>1, <2>2, <2>3, ToldKeeps
<1> QED BY <1>3, <1>4

LEMMA GateKeepsPage ==
    ASSUME PageInv, IInv', ServiceStep, NEW q \in Radios, GateOpens(q)
    PROVE  PageInv'
<1>1. /\ UNCHANGED <<ring, unseen, phase, handler>>
      /\ adapters' = [adapters EXCEPT ![q].gate = "open"]
  BY DEF GateOpens, handlerVars, hubVars
<1>2. UNCHANGED pageVars
  BY <1>1 DEF ServiceStep, pageVars
<1>3. DOMAIN adapters = Radios /\ \A r \in Radios : Report(adapters[r])
  BY DEF PageInv, IInv, TypeOK
<1>4. \A r \in Radios : SameReport(r)
  BY <1>1, <1>3 DEF SameReport, Report
<1>5. \A r \in Radios : Publishing(r) => Publishing(r)'
  BY <1>1 DEF Publishing
<1> QED BY <1>1, <1>2, <1>4, <1>5, UntoldKeeps

LEMMA ServiceStepKeeps ==
    ASSUME PageInv, ServiceStep
    PROVE  PageInv'
<1>1. Serve /\ IInv'
  BY Inductive DEF ServiceStep, PageInv, Next
<1>2. CASE Startup \/ Arrive \/ Beat
  BY <1>1, <1>2, StartupKeepsPage, ArriveKeepsPage, BeatKeepsPage
<1>3. CASE Handle
  BY <1>1, <1>3, ReturnsKeepsPage, PublishKeepsPage, RecordKeepsPage DEF Handle
<1>4. CASE \E r \in Radios : GateOpens(r)
  BY <1>1, <1>4, GateKeepsPage
<1> QED BY <1>1, <1>2, <1>3, <1>4 DEF Serve

LEMMA ServiceRestartKeeps ==
    ASSUME PageInv, ServiceRestart
    PROVE  PageInv'
<1>1. IInv'
  BY Inductive DEF ServiceRestart, PageInv, Next
<1>2. PageTypeOK' /\ StartOK' /\ AnswersOK'
  <2>1. /\ answers' \in SUBSET Aged /\ stale' = Radios /\ cache' = cache
        /\ PageTypeOK
    BY DEF ServiceRestart, PageInv
  <2>2. \A b \in Aged : \E a \in answers : b = [a EXCEPT !.old = TRUE]
    BY DEF Aged
  <2>3. \A b \in Aged : /\ DOMAIN b = {"items", "active", "old"} /\ b.old = TRUE
                        /\ Entries(b.items)
    BY <2>1, <2>2 DEF PageTypeOK
  <2>4. PageTypeOK'
    BY <2>1, <2>3 DEF PageTypeOK, Entries
  <2> QED BY <2>1, <2>3, <2>4 DEF StartOK, AnswersOK
<1>3. FollowOK'
  BY DEF ServiceRestart, Restart, FollowOK, FollowedBy
<1>4. BehindOK'
  BY DEF ServiceRestart, BehindOK
<1> QED BY <1>1, <1>2, <1>3, <1>4 DEF PageInv

-----------------------------------------------------------------------------
(* Steps of the page.                                                      *)

\* The service does not notice the subscriber.
LEMMA SubscriberKeeps ==
    ASSUME IInv,
           UNCHANGED <<phase, adapterVars, handlerVars, ring, lastReady, ticks>>,
           unseen' \in {Lost, Never} \cup 0..(RingSize + 1),
           connected' => unseen' \in 0..Len(ring)
    PROVE  IInv'
<1> USE DEF adapterVars, handlerVars
<1>1. TypeOK'
  BY DEF IInv, TypeOK
<1>2. PhaseOK' /\ HandlerOK' /\ DoneOK' /\ GateIsShown' /\ LastStateIsCurrent' /\ OkIsTrue'
  BY DEF IInv, PhaseOK, HandlerOK, DoneOK, GateIsShown, LastStateIsCurrent, LastOf,
         StatesOf, OkIsTrue
<1> QED BY <1>1, <1>2 DEF IInv

LEMMA AnswerListKeeps ==
    ASSUME PageInv, AnswerList
    PROVE  PageInv'
<1> DEFINE new == [items |-> [r \in Radios |-> Item(adapters[r])],
                   active |-> active, old |-> FALSE]
<1>1. /\ answers' = answers \cup {new} /\ phase # "starting"
      /\ UNCHANGED <<vars, cache, shownActive, stale>>
  BY DEF AnswerList, Accepting
<1>2. IInv'
  BY <1>1, Inductive DEF PageInv
<1>3. \A r \in Radios : /\ Agrees(new.items[r], adapters[r])
                        /\ CacheEntry(new.items[r])
  BY ItemAgrees DEF PageInv, IInv, TypeOK
<1>4. /\ DOMAIN new = {"items", "active", "old"} /\ new.old = FALSE
      /\ new.items = [r \in Radios |-> new.items[r]]
  OBVIOUS
<1> HIDE DEF new
<1>5. PageTypeOK'
  BY <1>1, <1>3, <1>4 DEF PageInv, PageTypeOK, Entries
<1>6. StartOK' /\ FollowOK' /\ BehindOK'
  BY <1>1 DEF PageInv, StartOK, FollowOK, FollowedBy, BehindOK, Agrees, Awaits, Pending,
             Publishing, vars, adapterVars, handlerVars, hubVars
<1>7. AnswersOK'
  BY <1>1, <1>3 DEF PageInv, AnswersOK, Agrees, Publishing, vars, adapterVars,
                    handlerVars, hubVars
<1> QED BY <1>2, <1>5, <1>6, <1>7 DEF PageInv

LEMMA LoadRadiosKeeps ==
    ASSUME PageInv, NEW a \in answers, LoadRadios(a)
    PROVE  PageInv'
<1> USE DEF LoadRadios
<1>1. IInv'
  BY Inductive DEF PageInv
<1>2. UNCHANGED <<phase, adapters, handler, ring, unseen>>
  BY DEF vars, adapterVars, handlerVars, hubVars
<1>3. PageTypeOK' /\ StartOK'
  BY <1>2 DEF PageInv, PageTypeOK, StartOK
<1>4. AnswersOK' /\ FollowOK'
  BY <1>2 DEF PageInv, AnswersOK, Agrees, Publishing, FollowOK, FollowedBy
<1>5. BehindOK'
  <2>1. CASE a.old
    BY <2>1 DEF BehindOK
  <2>2. CASE ~a.old
    <3>1. \A r \in Radios : Agrees(cache'[r], adapters[r]) \/ Publishing(r)
      BY <2>2 DEF PageInv, AnswersOK
    <3> QED BY <1>2, <3>1 DEF BehindOK, Agrees, Publishing
  <2> QED BY <2>1, <2>2 DEF PageInv, PageTypeOK
<1> QED BY <1>1, <1>3, <1>4, <1>5 DEF PageInv

LEMMA LoadFailedKeeps ==
    ASSUME PageInv, NEW a \in answers, LoadFailed(a)
    PROVE  PageInv'
<1> USE DEF LoadFailed
<1>1. IInv'
  BY Inductive DEF PageInv
<1>2. /\ UNCHANGED <<phase, adapters, handler, ring, unseen, cache, stale>>
      /\ answers' \subseteq answers
  BY DEF vars, adapterVars, handlerVars, hubVars
<1>3. PageTypeOK' /\ StartOK' /\ AnswersOK' /\ FollowOK'
  BY <1>2 DEF PageInv, PageTypeOK, StartOK, AnswersOK, Agrees, Publishing, FollowOK,
             FollowedBy
<1>4. BehindOK'
  BY <1>2 DEF PageInv, BehindOK, Agrees, Awaits, Pending, Publishing
<1> QED BY <1>1, <1>3, <1>4 DEF PageInv

\* What the page takes next, and what it has to take after it.
LEMMA NextOne ==
    ASSUME PageInv, Take
    PROVE  LET j == Len(ring) - unseen + 1
           IN  /\ j \in 1..Len(ring) /\ NextEvent = ring[j] /\ NextEvent \in Events
               /\ unseen \in 1..Len(ring) /\ unseen' = unseen - 1
               /\ Pending' = (j + 1)..Len(ring)
               /\ UNCHANGED <<phase, adapters, handler, ring>>
               /\ IInv'
<1>1. /\ ring \in Seq(Events) /\ Len(ring) \in Nat /\ Len(ring) <= RingSize
      /\ RingSize \in Nat /\ unseen \in 1..Len(ring)
      /\ unseen' = unseen - 1 /\ ring' = ring /\ connected' = connected
  BY ServiceAssumption DEF Take, PageInv, IInv, TypeOK
<1>2. NextEvent \in Events
  BY <1>1, ElementOfSeq DEF NextEvent
<1>3. Pending' = (Len(ring) - unseen + 2)..Len(ring)
  BY <1>1 DEF Pending
<1>4. IInv'
  <2>1. unseen' \in 0..(RingSize + 1) /\ unseen' \in 0..Len(ring)
    BY <1>1
  <2> QED BY <2>1, SubscriberKeeps DEF Take, PageInv
<1> QED BY <1>1, <1>2, <1>3, <1>4 DEF NextEvent, Take, adapterVars, handlerVars

\* Taking an event keeps the invariant when the page stays right about the
\* radios it is not behind on.
LEMMA TakeKeeps ==
    ASSUME PageInv, Take, answers' = answers, PageTypeOK',
           phase = "starting" => stale' = Radios,
           \A r \in Radios \ stale' :
               Agrees(cache'[r], adapters[r]) \/ Awaits(r)' \/ Publishing(r)
    PROVE  PageInv'
<1>1. IInv' /\ UNCHANGED <<phase, adapters, handler, ring>>
  BY NextOne
<1>2. StartOK' /\ AnswersOK' /\ FollowOK'
  BY <1>1 DEF PageInv, StartOK, AnswersOK, FollowOK, FollowedBy, Agrees, Publishing
<1>3. BehindOK'
  BY <1>1 DEF BehindOK, Agrees, Publishing
<1> QED BY <1>1, <1>2, <1>3 DEF PageInv

\* A radio the event says nothing of.
LEMMA OthersStay ==
    ASSUME PageInv, Take, NEW r \in Radios \ stale, ~IsState(NextEvent, r)
    PROVE  Agrees(cache[r], adapters[r]) \/ Awaits(r)' \/ Publishing(r)
<1> DEFINE j == Len(ring) - unseen + 1
<1>1. /\ NextEvent = ring[j] /\ unseen \in 1..Len(ring) /\ Len(ring) \in Nat
      /\ Pending' = (j + 1)..Len(ring) /\ ring' = ring
  BY NextOne DEF PageInv, IInv, TypeOK
<1>2. Agrees(cache[r], adapters[r]) \/ Awaits(r) \/ Publishing(r)
  BY <1>1 DEF PageInv, BehindOK
<1>3. CASE Awaits(r)
  <2>1. PICK i \in Pending : IsState(ring[i], r)
    BY <1>3 DEF Awaits
  <2>2. i \in j..Len(ring) /\ i # j
    BY <1>1, <2>1 DEF Pending
  <2>3. i \in Pending'
    BY <1>1, <2>2
  <2> QED BY <1>1, <2>1, <2>3 DEF Awaits
<1> QED BY <1>2, <1>3

\* The last state event of r that the page takes is the last one there is.
LEMMA LastTaken ==
    ASSUME PageInv, Take, NEW r \in Radios, IsState(NextEvent, r)
    PROVE  Awaits(r)' \/ Publishing(r) \/ Tells(NextEvent, adapters[r])
<1> DEFINE j == Len(ring) - unseen + 1
<1>1. /\ NextEvent = ring[j] /\ j \in 1..Len(ring) /\ Len(ring) \in Nat
      /\ Pending' = (j + 1)..Len(ring) /\ ring' = ring /\ DOMAIN ring = 1..Len(ring)
  BY NextOne, LenProperties DEF PageInv, IInv, TypeOK
<1>2. SUFFICES ASSUME ~Awaits(r)', ~Publishing(r)
               PROVE  Tells(NextEvent, adapters[r])
  OBVIOUS
<1>3. \A i \in StatesOf(r) : i <= j
  <2> SUFFICES ASSUME NEW i \in StatesOf(r), i > j
               PROVE  FALSE
    BY <1>1 DEF StatesOf
  <2>1. i \in Pending' /\ IsState(ring'[i], r)
    BY <1>1 DEF StatesOf, IsState
  <2> QED BY <1>2, <2>1 DEF Awaits
<1>4. j \in LastOf(r)
  BY <1>1, <1>3 DEF LastOf, StatesOf, IsState
<1> QED BY <1>1, <1>2, <1>4 DEF PageInv, IInv, LastStateIsCurrent, Publishing

\* An event about r leaves the entries of the others, and r's its shape.
OnlyEntry(r) ==
    /\ cache' = [q \in Radios |-> cache'[q]]
    /\ \A q \in Radios \ {r} : cache'[q] = cache[q]
    /\ DOMAIN cache'[r] = DOMAIN cache[r]
    /\ cache'[r].list = cache[r].list

LEMMA OneEntry ==
    ASSUME PageInv, NEW e \in Events, e.radio \in Radios,
           ApplyState(e) \/ ApplyChannel(e) \/ ApplyPower(e)
    PROVE  /\ OnlyEntry(e.radio)
           /\ ApplyState(e) =>
                 /\ cache'[e.radio].status = e.status
                 /\ cache'[e.radio].power = e.power
                 /\ cache'[e.radio].freq = e.freq
                 /\ cache'[e.radio].chan = e.chan
<1>1. cache = [q \in Radios |-> cache[q]]
  BY DEF PageInv, PageTypeOK, Entries
<1>2. DOMAIN cache[e.radio] = {"known", "status", "power", "freq", "chan", "list"}
  BY DEF PageInv, PageTypeOK, Entries, CacheEntry
<1>3. CASE ApplyState(e)
  BY <1>1, <1>2, <1>3 DEF ApplyState, OnlyEntry
<1>4. CASE ApplyChannel(e) /\ ~ApplyState(e)
  BY <1>1, <1>2, <1>4 DEF ApplyChannel, OnlyEntry
<1>5. CASE ApplyPower(e) /\ ~ApplyState(e)
  BY <1>1, <1>2, <1>5 DEF ApplyPower, OnlyEntry
<1> QED BY <1>3, <1>4, <1>5

LEMMA EntriesStay ==
    ASSUME PageInv, NEW r \in Radios, OnlyEntry(r)
    PROVE  Entries(cache')
BY DEF PageInv, PageTypeOK, Entries, CacheEntry, OnlyEntry

LEMMA ApplyStateKeeps ==
    ASSUME PageInv, Take, answers' = answers, NextEvent.tag = "state",
           ApplyState(NextEvent)
    PROVE  PageInv'
<1>1. PICK e \in Events, r \in Radios : e = NextEvent /\ r = e.radio
  BY NextOne DEF Events, ReadyEvents, Heartbeat
<1>2. ApplyState(e) /\ stale' = stale \ {r}
  BY <1>1 DEF ApplyState
<1>3. /\ Entries(cache')
      /\ \A q \in Radios \ {r} : cache'[q] = cache[q]
      /\ cache'[r].status = e.status /\ cache'[r].power = e.power
      /\ cache'[r].freq = e.freq /\ cache'[r].chan = e.chan
  BY <1>1, <1>2, OneEntry, EntriesStay DEF OnlyEntry
<1>4. PageTypeOK'
  BY <1>2, <1>3 DEF PageInv, PageTypeOK
<1>5. phase # "starting"
  <2>1. \E j \in DOMAIN ring : ring[j].tag = "state"
    BY NextOne, LenProperties DEF PageInv, IInv, TypeOK
  <2> QED BY <2>1 DEF PageInv, IInv, PhaseOK
<1>6. ASSUME NEW q \in Radios \ stale'
      PROVE  Agrees(cache'[q], adapters[q]) \/ Awaits(q)' \/ Publishing(q)
  <2>1. CASE q = r
    <3>1. Awaits(r)' \/ Publishing(r) \/ Tells(e, adapters[r])
      BY <1>1, LastTaken DEF IsState
    <3>2. Tells(e, adapters[r]) => Agrees(cache'[r], adapters[r])
      BY <1>1, <1>3, ToldAgrees DEF Entries, PageInv, IInv, TypeOK
    <3> QED BY <2>1, <3>1, <3>2
  <2>2. CASE q # r
    <3>1. q \in Radios \ stale /\ ~IsState(e, q) /\ cache'[q] = cache[q]
      BY <1>1, <1>2, <1>3, <2>2 DEF IsState
    <3> QED BY <1>1, <3>1, OthersStay
  <2> QED BY <2>1, <2>2
<1> QED BY <1>4, <1>5, <1>6, TakeKeeps

\* A change is applied while its state event is still to come.
LEMMA ApplyChangeKeeps ==
    ASSUME PageInv, Take, answers' = answers,
           \/ NextEvent.tag = "channelChanged" /\ ApplyChannel(NextEvent)
           \/ NextEvent.tag = "powerChanged" /\ ApplyPower(NextEvent)
    PROVE  PageInv'
<1>1. PICK e \in Events, r \in Radios : e = NextEvent /\ r = e.radio
  BY NextOne DEF Events, ReadyEvents, Heartbeat
<1>2. /\ e.tag \in {"channelChanged", "powerChanged"} /\ stale' = stale
      /\ ApplyChannel(e) \/ ApplyPower(e)
  BY <1>1 DEF ApplyChannel, ApplyPower
<1>3. Entries(cache') /\ \A q \in Radios \ {r} : cache'[q] = cache[q]
  BY <1>1, <1>2, OneEntry, EntriesStay DEF OnlyEntry
<1>4. PageTypeOK'
  BY <1>2, <1>3 DEF PageInv, PageTypeOK
<1>5. Awaits(r)'
  <2> DEFINE j == Len(ring) - unseen + 1
  <2>1. /\ j \in 1..Len(ring) /\ e = ring[j] /\ Pending' = (j + 1)..Len(ring)
        /\ ring' = ring /\ Len(ring) \in Nat
    BY <1>1, NextOne DEF PageInv, IInv, TypeOK
  <2>2. j + 1 \in 1..Len(ring) /\ IsState(ring[j + 1], r)
    BY <1>1, <1>2, <2>1 DEF PageInv, FollowOK, FollowedBy
  <2> HIDE DEF j
  <2>3. j + 1 \in Pending'
    BY <2>1, <2>2
  <2> QED BY <2>1, <2>2, <2>3 DEF Awaits
<1>6. ASSUME NEW q \in Radios \ stale'
      PROVE  Agrees(cache'[q], adapters[q]) \/ Awaits(q)' \/ Publishing(q)
  <2>1. CASE q = r
    BY <1>5, <2>1
  <2>2. CASE q # r
    <3>1. q \in Radios \ stale /\ ~IsState(e, q) /\ cache'[q] = cache[q]
      BY <1>1, <1>2, <1>3, <2>2 DEF IsState
    <3> QED BY <1>1, <3>1, OthersStay
  <2> QED BY <2>1, <2>2
<1>7. phase = "starting" => stale' = Radios
  BY <1>2 DEF PageInv, StartOK
<1> QED BY <1>4, <1>6, <1>7, TakeKeeps

LEMMA ApplyReadyKeeps ==
    ASSUME PageInv, Take, answers' = answers, ApplyReady(NextEvent)
    PROVE  PageInv'
<1>1. /\ cache' = [r \in Radios |-> Merged(cache[r], NextEvent.snapshot.radios[r])]
      /\ stale' = Radios
  BY DEF ApplyReady
<1>2. \A r \in Radios : CacheEntry(cache[r]) => CacheEntry(cache'[r])
  BY <1>1 DEF Merged, CacheEntry
<1>3. PageTypeOK'
  BY <1>1, <1>2 DEF PageInv, PageTypeOK, Entries
<1> QED BY <1>1, <1>3, TakeKeeps

LEMMA ApplyEventKeeps ==
    ASSUME PageInv, ApplyEvent
    PROVE  PageInv'
<1>1. Take /\ answers' = answers
  BY DEF ApplyEvent
<1>2. CASE NextEvent.tag = "heartbeat" /\ UNCHANGED <<cache, shownActive, stale>>
  <2>1. PageTypeOK' /\ (phase = "starting" => stale' = Radios)
    BY <1>1, <1>2 DEF PageInv, PageTypeOK, StartOK
  <2>2. \A r \in Radios \ stale : ~IsState(NextEvent, r)
    BY <1>2 DEF IsState
  <2> QED BY <1>1, <1>2, <2>1, <2>2, OthersStay, TakeKeeps
<1> QED BY <1>1, <1>2, ApplyReadyKeeps, ApplyStateKeeps, ApplyChangeKeeps
        DEF ApplyEvent

-----------------------------------------------------------------------------
(* The stream opens, ends and starts again.                                *)

\* A step that leaves the ring and the page's cache alone keeps the invariant
\* when it takes unseen out of reach or leaves it.
LEMMA StreamKeeps ==
    ASSUME PageInv, IInv', UNCHANGED <<phase, adapters, handler, ring>>,
           PageTypeOK', answers' \subseteq answers,
           stale' = Radios \/ stale' = stale,
           \/ stale' = Radios
           \/ unseen' \notin 0..Len(ring)
           \/ unseen' = unseen /\ cache' = cache
    PROVE  PageInv'
<1>1. StartOK' /\ AnswersOK' /\ FollowOK'
  BY DEF PageInv, StartOK, AnswersOK, Agrees, Publishing, FollowOK, FollowedBy
<1>2. BehindOK'
  BY DEF PageInv, BehindOK, Agrees, Awaits, Pending, Publishing
<1> QED BY <1>1, <1>2 DEF PageInv

LEMMA ConnectKeeps ==
    ASSUME PageInv, Connect
    PROVE  PageInv'
<1>1. /\ UNCHANGED <<phase, adapterVars, handlerVars, ring, lastReady, ticks, cache,
                     shownActive, answers>>
      /\ stale' = IF unseen \in 0..Len(ring) THEN stale ELSE Radios
  BY DEF Connect, Subscribe
<1>2. /\ Len(ring) \in Nat /\ Len(ring) <= RingSize /\ RingSize \in Nat
      /\ unseen \in {Lost, Never} \cup 0..(RingSize + 1)
  BY ServiceAssumption DEF PageInv, IInv, TypeOK
<1>3. unseen' \in 0..Len(ring) /\ (unseen \in 0..Len(ring) => unseen' = unseen)
  BY <1>2 DEF Connect, Subscribe, AtMost, Lost, Never
<1>4. IInv'
  <2>1. unseen' \in 0..(RingSize + 1)
    BY <1>2, <1>3
  <2> QED BY <1>1, <1>3, <2>1, SubscriberKeeps DEF PageInv
<1>5. PageTypeOK'
  BY <1>1 DEF PageInv, PageTypeOK
<1> QED BY <1>1, <1>3, <1>4, <1>5, StreamKeeps DEF adapterVars, handlerVars

LEMMA StreamEnds ==
    ASSUME PageInv, Disconnect \/ ResetResume \/ Reload
    PROVE  PageInv'
<1>1. /\ UNCHANGED <<phase, adapterVars, handlerVars, ring, lastReady, ticks>>
      /\ connected' = FALSE /\ unseen' \in {unseen, Never}
  BY DEF Disconnect, Hangup, ResetResume, Reload, PageInv, IInv, TypeOK
<1>2. unseen \in {Lost, Never} \cup 0..(RingSize + 1)
  BY DEF PageInv, IInv, TypeOK
<1>3. IInv'
  BY <1>1, <1>2, SubscriberKeeps DEF PageInv
<1>4. UNCHANGED <<phase, adapters, handler, ring>>
  BY <1>1 DEF adapterVars, handlerVars
<1>5. CASE Disconnect
  <2>1. unseen' = unseen /\ UNCHANGED pageVars
    BY <1>5 DEF Disconnect, Hangup
  <2>2. PageTypeOK'
    BY <2>1 DEF PageInv, PageTypeOK, pageVars
  <2> QED BY <1>3, <1>4, <2>1, <2>2, StreamKeeps DEF pageVars
<1>6. CASE ResetResume
  <2>1. unseen' = Never /\ UNCHANGED pageVars
    BY <1>6 DEF ResetResume
  <2>2. PageTypeOK' /\ unseen' \notin 0..Len(ring)
    BY <2>1 DEF PageInv, PageTypeOK, pageVars, Never
  <2> QED BY <1>3, <1>4, <2>1, <2>2, StreamKeeps DEF pageVars
<1>7. CASE Reload
  <2>1. cache' = EmptyCache /\ answers' = {} /\ stale' = Radios
    BY <1>7 DEF Reload
  <2>2. PageTypeOK'
    BY <2>1 DEF PageTypeOK, Entries, CacheEntry, EmptyCache, Unknown
  <2> QED BY <1>3, <1>4, <2>1, <2>2, StreamKeeps
<1> QED BY <1>5, <1>6, <1>7

-----------------------------------------------------------------------------

LEMMA PageStarts == PageInit => PageInv
<1> SUFFICES ASSUME PageInit
             PROVE  PageInv
  OBVIOUS
<1>1. IInv
  BY InitInv DEF PageInit
<1>2. PageTypeOK
  BY DEF PageInit, PageTypeOK, Entries, CacheEntry, EmptyCache, Unknown
<1>3. StartOK /\ AnswersOK /\ BehindOK
  BY DEF PageInit, StartOK, AnswersOK, BehindOK
<1>4. FollowOK
  BY DEF PageInit, Init, FollowOK, FollowedBy
<1> QED BY <1>1, <1>2, <1>3, <1>4 DEF PageInv

LEMMA PageInductive == PageInv /\ [PageNext]_allVars => PageInv'
<1> SUFFICES ASSUME PageInv, [PageNext]_allVars
             PROVE  PageInv'
  OBVIOUS
<1>1. CASE ServiceStep \/ ServiceRestart
  BY <1>1, ServiceStepKeeps, ServiceRestartKeeps
<1>2. CASE AnswerList \/ \E a \in answers : LoadRadios(a) \/ LoadFailed(a)
  BY <1>2, AnswerListKeeps, LoadRadiosKeeps, LoadFailedKeeps
<1>3. CASE ApplyEvent
  BY <1>3, ApplyEventKeeps
<1>4. CASE Connect \/ Disconnect \/ ResetResume \/ Reload
  BY <1>4, ConnectKeeps, StreamEnds
<1>5. CASE UNCHANGED allVars
  <2>1. IInv' /\ PageTypeOK'
    BY <1>5, Inductive DEF allVars, pageVars, PageInv, PageTypeOK
  <2>2. /\ UNCHANGED <<phase, adapters, handler, ring, unseen, cache, stale>>
        /\ answers' = answers
    BY <1>5 DEF allVars, vars, pageVars, adapterVars, handlerVars, hubVars
  <2> QED BY <2>1, <2>2, StreamKeeps
<1> QED BY <1>1, <1>2, <1>3, <1>4, <1>5 DEF PageNext

LEMMA PageInvariance == PageSpec => []PageInv
BY PageStarts, PageInductive, PTL DEF PageSpec

\* However answers of GET /radios, events, commands, reconnections, reloads
\* and restarts of the service follow each other: a page that has taken every
\* event shows of a radio what the service reports of it, the channel too,
\* unless it is behind for one of the reasons `stale` records.
THEOREM PageIsRight == PageSpec => []PageAgrees
<1>1. PageInv => PageAgrees
  <2> SUFFICES ASSUME PageInv, CaughtUp, NEW r \in Radios \ stale
               PROVE  Agrees(cache[r], adapters[r])
    BY DEF PageAgrees, Agrees
  <2>1. unseen = 0 /\ Len(ring) \in Nat /\ unseen \in 0..Len(ring) /\ ~Publishing(r)
    BY DEF CaughtUp, Publishing, PageInv, IInv, TypeOK
  <2>2. ~Awaits(r)
    BY <2>1 DEF Awaits, Pending
  <2> QED BY <2>1, <2>2 DEF PageInv, BehindOK
<1> QED BY <1>1, PageInvariance, PTL
-----------------------------------------------------------------------------
(* The service with a page at its stream is still the service.             *)

\* All of the service but how far its subscriber has come.
servedVars == <<phase, adapterVars, handlerVars, ring, lastReady, ticks>>

LEMMA PageStepServed == [PageNext]_allVars => [Next]_servedVars
<1> SUFFICES ASSUME [PageNext]_allVars
             PROVE  [Next]_servedVars
  OBVIOUS
<1> USE DEF servedVars
<1>1. CASE ServiceStep \/ ServiceRestart
  BY <1>1 DEF ServiceStep, ServiceRestart, Next
<1>2. CASE AnswerList \/ (\E a \in answers : LoadRadios(a) \/ LoadFailed(a))
           \/ UNCHANGED allVars
  BY <1>2 DEF AnswerList, LoadRadios, LoadFailed, allVars, vars, hubVars
<1>3. CASE ApplyEvent \/ Connect \/ Disconnect
  BY <1>3 DEF ApplyEvent, Take, Connect, Subscribe, Disconnect, Hangup
<1>4. CASE ResetResume \/ Reload
  BY <1>4 DEF ResetResume, Reload
<1> QED BY <1>1, <1>2, <1>3, <1>4 DEF PageNext

\* GET /radios and the stream only read: whatever a page does, what the
\* service does is what it may do without it.
THEOREM PagesOnlyRead == PageSpec => Init /\ [][Next]_servedVars
BY PageStepServed, PTL DEF PageSpec, PageInit

LEMMA BeatsInvariance == PageSpec => []BeatOK
<1>1. IInv /\ BeatOK /\ [Next]_servedVars => BeatOK'
  <2>1. UNCHANGED servedVars /\ BeatOK => BeatOK'
    BY DEF servedVars, BeatOK, BeatsSinceReady
  <2> QED BY <2>1, BeatKept
<1>2. PageInv => IInv
  BY DEF PageInv
<1> QED BY <1>1, <1>2, BeatStarts, PagesOnlyRead, PageInvariance, PTL

\* With a page that connects, lags, breaks off and resumes as it likes: the
\* state events are current, an answer Ok is true, the gates are shown, and
\* the ready event comes back among the heartbeats.
THEOREM GuaranteesStand ==
    PageSpec => [](TypeOK /\ LastStateIsCurrent /\ OkIsTrue /\ GateIsShown
                   /\ ReadyAmongBeats)
<1>1. PageInv /\ BeatOK =>
        TypeOK /\ LastStateIsCurrent /\ OkIsTrue /\ GateIsShown /\ ReadyAmongBeats
  BY FewBeats DEF PageInv, IInv
<1> QED BY <1>1, PageInvariance, BeatsInvariance, PTL

\* A page takes nothing off the record: what it reads, resumes or reloads
\* changes no radio and forgets no record that is owed.
THEOREM RecordsStand == PageSpec => ChangesAreRecorded
<1>1. PageInv /\ [PageNext]_allVars /\ phase' # "starting" =>
        /\ active' # active => audit' = OkRecord("selectRadio", active', 0)
        /\ \A r \in Radios :
              Setting(r)' # Setting(r) => Owed' /\ handler'.post.id = r
        /\ Owed =>
              \/ Owed' /\ handler'.post = handler.post /\ handler'.arg = handler.arg
              \/ audit' = OkRecord(Action(handler.post), handler.post.id, handler.arg)
  <2>1. CASE Next
    BY <2>1, StepRecorded DEF PageInv
  <2>2. CASE UNCHANGED servedVars
    BY <2>2 DEF servedVars, adapterVars, handlerVars, Setting, Owed
  <2> QED BY <2>1, <2>2, PageStepServed
<1> QED BY <1>1, PageInvariance, PTL DEF PageSpec, ChangesAreRecorded

\* Every adapter is called in turn, as AtomicAdapter says, with a page too.
THEOREM CallsStand == PageSpec => AdaptersAreCalledInTurn
<1>1. IInv /\ CallsOK /\ [Next]_servedVars => CallsOK'
  <2>1. UNCHANGED servedVars /\ CallsOK => CallsOK'
    BY DEF servedVars, adapterVars, handlerVars, CallsOK
  <2> QED BY <2>1, CallsKept
<1>2. PageInv => IInv
  BY DEF PageInv
<1>3. PageSpec => [](IInv /\ CallsOK)
  BY <1>1, <1>2, CallsStart, PagesOnlyRead, PageInvariance, PTL
<1>4. IInv /\ CallsOK /\ [Next]_servedVars =>
        \A r \in Radios : [Atomic(r)!Next]_(Atomic(r)!atomicVars)
  <2>1. UNCHANGED servedVars => \A r \in Radios : UNCHANGED Atomic(r)!atomicVars
    BY DEF servedVars, adapterVars, Atomic!atomicVars
  <2> QED BY <2>1, StepIsCall
<1> QED BY <1>3, <1>4, AdaptersStart, PagesOnlyRead, PTL DEF AdaptersAreCalledInTurn
=============================================================================
