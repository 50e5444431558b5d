--------------------------- MODULE MCPageControls ---------------------------
(***************************************************************************)
(* A small instance of PageControls: one radio with two channels, given    *)
(* both kinds of command, and one answer of GET /radios under way.  Every  *)
(* heartbeat is followed by the ready event.                               *)
(***************************************************************************)
EXTENDS PageControls

MCRadios == {"r1"}
MCChannels == <<10, 20>>

Post(kind, x) == [kind |-> kind, id |-> "r1", x |-> x, y |-> 0, auth |-> "granted"]

MCPosts == {Post("power", 286), Post("channel", 2)}

\* The last answer and its record, which no step and no property here reads.
ButReplies == <<phase, adapterVars, handler, hubVars, pageVars, controlVars>>

\* Bounds of the run: commands come once the ready event is out (the moments
\* before it are ServiceCommands'), and an answer that a command has overtaken
\* arrives before the next one.
CommandsAfterReady == phase = "listening" => handler = Idle
OneOvertakes ==
    \A a \in answers : a.old => handler.step \notin {"calling", "publishing"}
=============================================================================
