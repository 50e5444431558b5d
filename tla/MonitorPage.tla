----------------------------- MODULE MonitorPage -----------------------------
(***************************************************************************)
(* The embedded monitor page in one browser: a cache of the radios that is *)
(* fed from two sides at once, answers of GET /radios, which replace it,   *)
(* and the events of the stream, which are merged into it.  The two travel *)
(* on connections of their own and may overtake each other.  lastEventId   *)
(* is RadioService's `unseen`, seen from the other end.                    *)
(*                                                                         *)
(* Commands of the page are POSTs like everybody's (Posts).                *)
(***************************************************************************)
EXTENDS RadioService

CONSTANT MaxAnswers   \* bound on the answers of GET /radios under way

ASSUME PageAssumption == MaxAnswers \in Nat

VARIABLES
    cache,        \* radiosCache: what the page holds of each radio
    shownActive,  \* activeRadioId
    answers,      \* answers of GET /radios the page has not got yet
    stale         \* history: radios the page may be behind on for good

pageVars == <<cache, shownActive, answers, stale>>
allVars == <<vars, pageVars>>

\* A radio object; `list` is capabilities.channels, 0 and Unset stand for null
\* and for a property that is not there.
Unknown == [known |-> FALSE, status |-> "offline", power |-> Unset,
            freq |-> 0, chan |-> 0, list |-> <<>>]
EmptyCache == [r \in Radios |-> Unknown]

\* deriveChannelIndex: the stored index first, else the one of the frequency.
Derived(c) == IF c.chan # 0 THEN c.chan ELSE ChannelOf(c.list, c.freq)

PageInit ==
    /\ Init
    /\ cache = EmptyCache /\ shownActive = "none"
    /\ answers = {}
    /\ stale = Radios

-----------------------------------------------------------------------------
(* The service's steps, as the page's history records them.                *)

\* An answer that is under way when a command's events go out is old.
Aged == {[a EXCEPT !.old = TRUE] : a \in answers}

ServiceStep ==
    /\ Serve
    /\ answers' = IF handler.step = "publishing" /\ handler'.step = "recording"
                  THEN Aged ELSE answers
    /\ UNCHANGED <<cache, shownActive, stale>>

\* What the browser has got of the answers under way is still applied.
ServiceRestart ==
    /\ Restart
    /\ answers' \in SUBSET Aged
    /\ stale' = Radios
    /\ UNCHANGED <<cache, shownActive>>

-----------------------------------------------------------------------------
(* loadRadios: the answer is made between two handlers.                    *)

Item(a) ==
    [known |-> TRUE, status |-> Shown(a.status), power |-> ShownPower(a.power),
     freq |-> ShownFreq(a.channels, a.chan), chan |-> 0, list |-> a.channels]

AnswerList ==
    /\ Accepting
    /\ Cardinality(answers) < MaxAnswers
    /\ answers' = answers \cup
          {[items |-> [r \in Radios |-> Item(adapters[r])], active |-> active,
            old |-> FALSE]}
    /\ UNCHANGED <<vars, cache, shownActive, stale>>

\* The answer arrives and replaces the cache.
LoadRadios(a) ==
    /\ cache' = a.items
    /\ shownActive' = a.active
    /\ answers' = answers \ {a}
    /\ stale' = IF a.old THEN Radios ELSE {}
    /\ UNCHANGED vars

LoadFailed(a) ==
    /\ answers' = answers \ {a}
    /\ UNCHANGED <<vars, cache, shownActive, stale>>

-----------------------------------------------------------------------------
(* The stream.                                                             *)

\* applyReadySnapshot: the properties the snapshot has are overwritten, the
\* channel index, which it has not, is kept.
Merged(c, v) ==
    [c EXCEPT !.known = TRUE, !.status = v.status, !.power = v.power,
              !.freq = v.freq]

ApplyReady(e) ==
    /\ cache' = [r \in Radios |-> Merged(cache[r], e.snapshot.radios[r])]
    /\ shownActive' = IF e.snapshot.active = "none" THEN shownActive
                      ELSE e.snapshot.active
    /\ stale' = Radios

\* Mutant: a channel index that is null is taken for one that is not there.
ApplyState_Mutant(e) ==
    /\ cache' = [cache EXCEPT ![e.radio].known = TRUE,
                              ![e.radio].status = e.status,
                              ![e.radio].power = e.power,
                              ![e.radio].freq = e.freq,
                              ![e.radio].chan = IF e.chan = 0 THEN @ ELSE e.chan]
    /\ stale' = stale \ {e.radio}
    /\ UNCHANGED shownActive

ApplyState(e) ==
    /\ cache' = [cache EXCEPT ![e.radio].known = TRUE,
                              ![e.radio].status = e.status,
                              ![e.radio].power = e.power,
                              ![e.radio].freq = e.freq,
                              ![e.radio].chan = e.chan]
    /\ stale' = stale \ {e.radio}
    /\ UNCHANGED shownActive

ApplyChannel(e) ==
    /\ cache' = [cache EXCEPT ![e.radio].known = TRUE,
                              ![e.radio].freq = e.freq,
                              ![e.radio].chan = e.chan]
    /\ UNCHANGED <<shownActive, stale>>

ApplyPower(e) ==
    /\ cache' = [cache EXCEPT ![e.radio].known = TRUE,
                              ![e.radio].power = e.power]
    /\ UNCHANGED <<shownActive, stale>>

ApplyEvent ==
    /\ Take
    /\ LET e == NextEvent IN
          \/ e.tag = "ready" /\ ApplyReady(e)
          \/ e.tag = "state" /\ ApplyState(e)
          \/ e.tag = "channelChanged" /\ ApplyChannel(e)
          \/ e.tag = "powerChanged" /\ ApplyPower(e)
          \/ e.tag = "heartbeat" /\ UNCHANGED <<cache, shownActive, stale>>
    /\ UNCHANGED answers

\* connectSse: events the ring no longer has are lost on the page, and so is
\* the order of the rings of two processes.
Connect ==
    /\ Subscribe
    /\ stale' = IF unseen \in 0..Len(ring) THEN stale ELSE Radios
    /\ UNCHANGED <<cache, shownActive, answers>>

\* disconnectSse, or the stream breaks.
Disconnect == Hangup /\ UNCHANGED pageVars

\* resetResumeState: the next stream begins with the whole ring.
ResetResume ==
    /\ ~connected
    /\ unseen' = Never
    /\ UNCHANGED <<phase, adapterVars, handlerVars, ring, lastReady, ticks,
                   connected, pageVars>>

\* The page is loaded again; lastEventId survives in localStorage.
Reload ==
    /\ connected' = FALSE
    /\ cache' = EmptyCache /\ shownActive' = "none" /\ answers' = {}
    /\ stale' = Radios
    /\ UNCHANGED <<phase, adapterVars, handlerVars, ring, lastReady, ticks,
                   unseen>>

-----------------------------------------------------------------------------

PageNext ==
    \/ ServiceStep
    \/ ServiceRestart
    \/ AnswerList
    \/ \E a \in answers : LoadRadios(a) \/ LoadFailed(a)
    \/ ApplyEvent
    \/ Connect
    \/ Disconnect
    \/ ResetResume
    \/ Reload

PageSpec == PageInit /\ [][PageNext]_allVars

-----------------------------------------------------------------------------

CaughtUp == connected /\ unseen = 0 /\ handler.step # "publishing"

\* A page that has taken every event shows of a radio what the service reports
\* of it, unless what it applied last was a ready event, an answer a command
\* had overtaken, or a stream with a gap: however GET answers, events,
\* reconnections and reloads were interleaved.
PageAgrees ==
    CaughtUp =>
        \A r \in Radios \ stale :
            /\ cache[r].status = Shown(adapters[r].status)
            /\ cache[r].power = ShownPower(adapters[r].power)
            /\ cache[r].freq = ShownFreq(adapters[r].channels, adapters[r].chan)
            /\ Derived(cache[r]) = adapters[r].chan

\* "Treat missing channelIndex as unknown; display frequencyMhz as
\* authoritative": the channel shown is the one of the frequency shown.
ChannelShownIsOfFrequency ==
    \A r \in Radios :
        cache[r].list # <<>> /\ Derived(cache[r]) # 0 =>
            Derived(cache[r]) = ChannelOf(cache[r].list, cache[r].freq)
=============================================================================
