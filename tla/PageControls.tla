---------------------------- MODULE PageControls ----------------------------
(***************************************************************************)
(* What the operator sees and does on the monitor page: the radio chosen   *)
(* in the dropdown, the panel that shows it, and the channel dropdown.     *)
(* Every step of JavaScript runs to its end.                               *)
(*                                                                         *)
(* The panel is a variable of its own because the code keeps it beside the *)
(* cache and writes it at certain moments only.  setChannel and setPower   *)
(* change nothing on the page: their POST is one of Posts, and after the   *)
(* answer the page asks for the radios, as RadiosAreAsked does any time.   *)
(* The select button's POST is one of Posts too; what its answer does to   *)
(* activeRadioId is left out.                                              *)
(***************************************************************************)
EXTENDS MonitorPage

VARIABLES
    selected,    \* value of radioSel, "none" when it is empty
    panel,       \* what renderRadioState has written last
    choice,      \* value of chanSel, 0 when it is empty
    picked       \* history: choice was picked since the panel was written

controlVars == <<selected, panel, choice, picked>>

Known(c) == {r \in Radios : c[r].known}

Blank == [radio |-> "none", active |-> "none", status |-> "offline",
          power |-> Unset, freq |-> 0, chan |-> 0]

\* renderRadioState: radio r of cache c.
Panel(c, act, r) ==
    IF r = "none" THEN [Blank EXCEPT !.active = act]
    ELSE [radio |-> r, active |-> act, status |-> c[r].status,
          power |-> c[r].power, freq |-> c[r].freq, chan |-> Derived(c[r])]

\* Mutant: the index of the last state event only, not the one of the frequency.
Preset_Mutant(c) ==
    IF c.list = <<>> THEN 0
    ELSE IF c.chan = 0 THEN 1
    ELSE IF c.chan \in DOMAIN c.list THEN c.chan ELSE 0

\* populateChannelDropdown: a select has its first option until a value is
\* set, and none when that value is no option.
Preset(c) ==
    IF c.list = <<>> THEN 0
    ELSE IF Derived(c) = 0 THEN 1
    ELSE IF Derived(c) \in DOMAIN c.list THEN Derived(c) ELSE 0

\* renderRadioState with what the page knows after the step.
Render(r) ==
    /\ selected' = r
    /\ panel' = Panel(cache', shownActive', r)
    /\ choice' = IF r = "none" THEN 0 ELSE Preset(cache'[r])
    /\ picked' = FALSE

\* Mutant: the radio stays selected and is not rendered again.
RefreshDropdown_Mutant ==
    IF selected \in Known(cache') THEN UNCHANGED controlVars
    ELSE IF Known(cache') = {} THEN Render("none")
    ELSE IF shownActive' \in Known(cache') THEN Render(shownActive')
    ELSE \E r \in Known(cache') : Render(r)

\* refreshRadioDropdown: which radio is the first of the cache depends on what
\* filled it.
RefreshDropdown ==
    IF Known(cache') = {} THEN Render("none")
    ELSE IF selected \in Known(cache') THEN Render(selected)
    ELSE IF shownActive' \in Known(cache') THEN Render(shownActive')
    ELSE \E r \in Known(cache') : Render(r)

ControlsInit ==
    /\ PageInit
    /\ selected = "none" /\ panel = Blank /\ choice = 0 /\ picked = FALSE

-----------------------------------------------------------------------------
(* The operator.                                                           *)

\* onRadioSelected.
OnRadioSelected(r) ==
    /\ r \in Known(cache)
    /\ UNCHANGED allVars
    /\ Render(r)

\* The operator picks channel i and sends nothing yet.
PickChannel(i) ==
    /\ selected # "none"
    /\ i \in DOMAIN cache[selected].list \ {choice}
    /\ choice' = i /\ picked' = TRUE
    /\ UNCHANGED <<allVars, selected, panel>>

-----------------------------------------------------------------------------
(* What arrives at the page.                                               *)

RadiosAreAsked == AnswerList /\ UNCHANGED controlVars

RadiosAreLoaded(a) == LoadRadios(a) /\ RefreshDropdown

RadiosAreNotLoaded(a) == LoadFailed(a) /\ UNCHANGED controlVars

\* The loop of connectSse renders the selected radio after every event, a
\* heartbeat too.
EventArrives ==
    /\ ApplyEvent
    /\ IF NextEvent.tag # "heartbeat" THEN RefreshDropdown
       ELSE IF selected # "none" THEN Render(selected)
       ELSE UNCHANGED controlVars

StreamChanges == (Connect \/ Disconnect \/ ResetResume) /\ UNCHANGED controlVars

PageReloads ==
    /\ Reload
    /\ selected' = "none" /\ panel' = Blank /\ choice' = 0 /\ picked' = FALSE

Operator ==
    \/ \E r \in Radios : OnRadioSelected(r)
    \/ \E r \in Radios : \E i \in DOMAIN cache[r].list : PickChannel(i)

Service == (ServiceStep \/ ServiceRestart) /\ UNCHANGED controlVars

ControlsNext ==
    \/ Operator
    \/ Service
    \/ \E a \in answers : RadiosAreLoaded(a) \/ RadiosAreNotLoaded(a)
    \/ RadiosAreAsked
    \/ EventArrives
    \/ StreamChanges
    \/ PageReloads

everyVar == <<allVars, controlVars>>
ControlsSpec == ControlsInit /\ [][ControlsNext]_everyVar

-----------------------------------------------------------------------------

\* Whatever arrives in whatever order, the page never leaves on the screen what
\* the cache does not hold any more, and always shows a radio when it has one.
ScreenIsCache ==
    /\ panel = Panel(cache, shownActive, selected)
    /\ selected \in IF Known(cache) = {} THEN {"none"} ELSE Known(cache)

\* On a page that has taken every event the channel dropdown of a radio it is
\* not behind on is preset to the channel the radio is on, or is empty when
\* the page's list, which only GET /radios brings, has no such channel: what
\* the operator sends without picking anew changes nothing.  (A radio on no
\* channel of its list is preset to the first.)
PresetIsCurrent ==
    CaughtUp /\ selected \in Radios \ stale /\ ~picked =>
        \/ choice = adapters[selected].chan
        \/ adapters[selected].chan = 0 /\ choice = 1
        \/ adapters[selected].chan \notin DOMAIN cache[selected].list /\ choice = 0
=============================================================================
