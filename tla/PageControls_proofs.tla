------------------------- MODULE PageControls_proofs -------------------------
(***************************************************************************)
(* Proofs about PageControls: what the page shows is what it holds, and    *)
(* the channel it is about to send is the operator's or the current one.   *)
(***************************************************************************)
EXTENDS PageControls, MonitorPage_proofs

\* A channel nobody picked is the one populateChannelDropdown has set.
ChoiceIsPreset ==
    ~picked => choice = IF selected = "none" THEN 0 ELSE Preset(cache[selected])

ControlsInv == ScreenIsCache /\ ChoiceIsPreset

\* Rendering a radio of the cache, or nothing when there is none, is enough.
LEMMA RenderedRight ==
    ASSUME NEW r, Render(r),
           r \in IF Known(cache') = {} THEN {"none"} ELSE Known(cache')
    PROVE  ControlsInv'
<1>1. selected' = r /\ picked' = FALSE
  BY DEF Render
<1>2. panel' = Panel(cache', shownActive', selected')
  BY <1>1 DEF Render
<1>3. choice' = IF selected' = "none" THEN 0 ELSE Preset(cache'[selected'])
  BY <1>1 DEF Render
<1>4. ScreenIsCache'
  BY <1>1, <1>2 DEF ScreenIsCache, Panel, Known, Blank, Derived
<1>5. ChoiceIsPreset'
  BY <1>3 DEF ChoiceIsPreset, Preset, Derived
<1> QED BY <1>4, <1>5 DEF ControlsInv

LEMMA RefreshedRight == RefreshDropdown => ControlsInv'
<1> SUFFICES ASSUME RefreshDropdown
             PROVE  ControlsInv'
  OBVIOUS
<1>1. PICK r : Render(r) /\ r \in IF Known(cache') = {} THEN {"none"} ELSE Known(cache')
  BY DEF RefreshDropdown
<1> QED BY <1>1, RenderedRight

\* A step that touches neither the cache nor the controls.
LEMMA ControlsStay ==
    ASSUME ControlsInv, UNCHANGED <<cache, shownActive, controlVars>>
    PROVE  ControlsInv'
BY DEF ControlsInv, ScreenIsCache, ChoiceIsPreset, controlVars, Panel, Preset,
       Known, Derived

LEMMA ControlsStart == ControlsInit => ControlsInv
<1> SUFFICES ASSUME ControlsInit
             PROVE  ControlsInv
  OBVIOUS
<1>1. /\ cache = EmptyCache /\ shownActive = "none" /\ selected = "none"
      /\ panel = Blank /\ choice = 0
  BY DEF ControlsInit, PageInit
<1>2. Known(cache) = {}
  BY <1>1 DEF Known, EmptyCache, Unknown
<1>3. Panel(cache, shownActive, selected) = Blank
  BY <1>1 DEF Panel, Blank
<1> QED BY <1>1, <1>2, <1>3 DEF ControlsInv, ScreenIsCache, ChoiceIsPreset

LEMMA OperatorKeeps == ControlsInv /\ Operator => ControlsInv'
<1> SUFFICES ASSUME ControlsInv, Operator
             PROVE  ControlsInv'
  OBVIOUS
<1>1. ASSUME NEW r \in Radios, OnRadioSelected(r)
      PROVE  ControlsInv'
  <2>1. cache' = cache /\ r \in Known(cache) /\ Render(r)
    BY <1>1 DEF OnRadioSelected, allVars, pageVars
  <2>2. r \in Known(cache')
    BY <2>1
  <2> QED BY <2>1, <2>2, RenderedRight
<1>2. ASSUME NEW i, PickChannel(i)
      PROVE  ControlsInv'
  <2>1. UNCHANGED <<cache, shownActive, selected, panel>> /\ picked' = TRUE
    BY <1>2 DEF PickChannel, allVars, pageVars
  <2> QED BY <2>1 DEF ControlsInv, ScreenIsCache, ChoiceIsPreset, Panel, Known, Derived
<1> QED BY <1>1, <1>2 DEF Operator

\* The page's own answers and events.
LEMMA ArrivalsKeep ==
    ControlsInv /\ (EventArrives \/ \E a \in answers : RadiosAreLoaded(a)) => ControlsInv'
<1> SUFFICES ASSUME ControlsInv, EventArrives \/ \E a \in answers : RadiosAreLoaded(a)
             PROVE  ControlsInv'
  OBVIOUS
<1>1. CASE RefreshDropdown
  BY <1>1, RefreshedRight
<1>2. CASE EventArrives /\ NextEvent.tag = "heartbeat"
  <2>1. UNCHANGED <<cache, shownActive>>
    BY <1>2 DEF EventArrives, ApplyEvent
  <2>2. CASE UNCHANGED controlVars
    BY <2>1, <2>2, ControlsStay
  <2>3. CASE selected # "none" /\ Render(selected)
    BY <2>1, <2>3, RenderedRight DEF ControlsInv, ScreenIsCache
  <2> QED BY <1>2, <2>2, <2>3 DEF EventArrives
<1> QED BY <1>1, <1>2 DEF EventArrives, RadiosAreLoaded

LEMMA ControlsInductive == ControlsInv /\ [ControlsNext]_everyVar => ControlsInv'
<1> SUFFICES ASSUME ControlsInv, [ControlsNext]_everyVar
             PROVE  ControlsInv'
  OBVIOUS
<1>1. CASE Service \/ RadiosAreAsked \/ StreamChanges
           \/ \E a \in answers : RadiosAreNotLoaded(a)
  <2>1. UNCHANGED <<cache, shownActive, controlVars>>
    BY <1>1 DEF Service, ServiceStep, ServiceRestart, RadiosAreAsked, AnswerList,
                StreamChanges, Connect, Disconnect, ResetResume, RadiosAreNotLoaded,
                LoadFailed, pageVars
  <2> QED BY <2>1, ControlsStay
<1>2. CASE PageReloads
  <2>1. /\ cache' = EmptyCache /\ shownActive' = "none" /\ selected' = "none"
        /\ panel' = Blank /\ choice' = 0
    BY <1>2 DEF PageReloads, Reload
  <2>2. Known(cache') = {}
    BY <2>1 DEF Known, EmptyCache, Unknown
  <2>3. Panel(cache', shownActive', selected') = Blank
    BY <2>1 DEF Panel, Blank
  <2>4. ScreenIsCache'
    BY <2>1, <2>2, <2>3 DEF ScreenIsCache, Panel, Known, Blank, Derived
  <2> QED BY <2>1, <2>4 DEF ControlsInv, ChoiceIsPreset
<1>3. CASE UNCHANGED everyVar
  BY <1>3, ControlsStay DEF everyVar, allVars, pageVars
<1> QED BY <1>1, <1>2, <1>3, OperatorKeeps, ArrivalsKeep DEF ControlsNext

-----------------------------------------------------------------------------

\* The controls only watch: what the page does to its cache and what the
\* service does are MonitorPage's.
THEOREM ControlsOnlyWatch == ControlsSpec => PageSpec
<1>1. ControlsInit => PageInit
  BY DEF ControlsInit
<1>2. [ControlsNext]_everyVar => [PageNext]_allVars
  <2> SUFFICES ASSUME [ControlsNext]_everyVar
               PROVE  [PageNext]_allVars
    OBVIOUS
  <2>1. CASE Operator \/ UNCHANGED everyVar
    BY <2>1 DEF Operator, OnRadioSelected, PickChannel, everyVar
  <2>2. CASE Service \/ RadiosAreAsked \/ StreamChanges \/ EventArrives \/ PageReloads
    BY <2>2 DEF Service, RadiosAreAsked, StreamChanges, EventArrives, PageReloads, PageNext
  <2>3. CASE \E a \in answers : RadiosAreLoaded(a) \/ RadiosAreNotLoaded(a)
    BY <2>3 DEF RadiosAreLoaded, RadiosAreNotLoaded, PageNext
  <2> QED BY <2>1, <2>2, <2>3 DEF ControlsNext
<1> QED BY <1>1, <1>2, PTL DEF ControlsSpec, PageSpec

\* The panel shows what the cache holds of a radio of the cache, whatever
\* arrived last: every change of the cache is followed by a rendering.
THEOREM ScreenIsRight == ControlsSpec => []ScreenIsCache
<1>1. ControlsInv => ScreenIsCache
  BY DEF ControlsInv
<1> QED BY <1>1, ControlsStart, ControlsInductive, PTL DEF ControlsSpec

\* What a page that is up to date offers to send without a pick of the
\* operator's is the channel the radio is on.
THEOREM PresetIsRight == ControlsSpec => []PresetIsCurrent
<1>1. ControlsInv /\ PageAgrees => PresetIsCurrent
  <2> SUFFICES ASSUME ControlsInv, PageAgrees, CaughtUp,
                      selected \in Radios \ stale, ~picked
               PROVE  \/ choice = adapters[selected].chan
                      \/ adapters[selected].chan = 0 /\ choice = 1
                      \/ /\ adapters[selected].chan \notin DOMAIN cache[selected].list
                         /\ choice = 0
    BY DEF PresetIsCurrent
  <2>1. choice = Preset(cache[selected])
    BY ServiceAssumption DEF ControlsInv, ChoiceIsPreset
  <2>2. Derived(cache[selected]) = adapters[selected].chan
    BY DEF PageAgrees
  <2> QED BY <2>1, <2>2 DEF Preset
<1> QED BY <1>1, ControlsOnlyWatch, PageIsRight, ControlsStart, ControlsInductive, PTL
        DEF ControlsSpec
=============================================================================
