---------------------------- MODULE MCApplication ----------------------------
(***************************************************************************)
(* Documents for Application: defaults and overrides of ports and of the   *)
(* heartbeat, a port that wraps, any port, two servers on one port,        *)
(* secrets, bench access and role lists, entries of radios that repeat,    *)
(* are of another vendor or carry limits, and documents that are refused.  *)
(***************************************************************************)
EXTENDS Application

Radio(id, adapter, min, max) ==
    [id |-> id, adapter |-> adapter, endpoint |-> "http", min |-> min, max |-> max]

Plain ==
    [sections |-> {"container", "security"},
     port |-> {}, command_port |-> {}, sse_port |-> {},
     heartbeat_interval_sec |-> {}, heartbeatIntervalSec |-> {2},
     durations |-> {300}, token_secret |-> "key", dev_access |-> FALSE,
     allowed_roles |-> {"viewer", "controller"},
     radios |-> <<Radio("r1", "silvus", {}, {})>>]

Bench ==
    [Plain EXCEPT
        !.heartbeat_interval_sec = {1}, !.token_secret = "", !.dev_access = TRUE,
        !.allowed_roles = {}, !.command_port = {8002}, !.sse_port = {8081},
        !.radios = <<Radio("r1", "silvus", {10}, {286}),
                     Radio("r2", "other", {}, {}),
                     Radio("r1", "silvus", {}, {})>>]

Wrapped ==
    [Plain EXCEPT !.command_port = {65535}, !.allowed_roles = {"viewer"},
        !.radios = <<Radio("r3", "other", {0}, {390}),
                     Radio("r3", "silvus", {286}, {286})>>]

SamePort ==
    [Plain EXCEPT !.port = {8081}, !.sse_port = {8081},
                  !.allowed_roles = {"controller"}]

Locked == [Plain EXCEPT !.token_secret = "", !.radios = <<>>]

AnyPort == [Plain EXCEPT !.command_port = {0}, !.sse_port = {0}]

Refused ==
    { [Plain EXCEPT !.sections = {"container"}],
      [Plain EXCEPT !.durations = {0, 300}],
      [Plain EXCEPT !.radios = <<Radio("r1", "silvus", {10}, {})>>],
      [Plain EXCEPT !.radios = <<Radio("r1", "silvus", {-1}, {20})>>],
      [Plain EXCEPT !.radios = <<Radio("r1", "silvus", {300}, {286})>>],
      [Plain EXCEPT !.radios = <<Radio("", "silvus", {}, {})>>],
      [Plain EXCEPT !.radios = <<Radio("r1", "silvus", {0}, {391})>>] }

Documents == {Plain, Bench, Wrapped, SamePort, Locked, AnyPort} \cup Refused
=============================================================================
