---------------------------- MODULE MCMonitorPage ----------------------------
(***************************************************************************)
(* A small instance of MonitorPage: one radio with two channels, given     *)
(* both kinds of command, and one answer of GET /radios under way.  Every  *)
(* heartbeat is followed by the ready event.                               *)
(***************************************************************************)
EXTENDS MonitorPage

MCRadios == {"r1"}
MCChannels == <<10, 20>>

Post(kind, x, y) ==
    [kind |-> kind, id |-> "r1", x |-> x, y |-> y, auth |-> "granted"]

MCPosts == {Post("power", 286, 0), Post("channel", 2, 0)}

\* The last answer and its record, which no step and no property here reads.
ButReplies == <<phase, adapterVars, handler, hubVars, pageVars>>
=============================================================================
