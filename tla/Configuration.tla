---------------------------- MODULE Configuration ----------------------------
(***************************************************************************)
(* What a configuration document means: how ConfigManager reads it, and    *)
(* what the parts built from it make of it - the ports, the radios, who is *)
(* let in.  Operators only; Application decides when they are evaluated.   *)
(*                                                                         *)
(* A document is a record.  A scalar that may be missing is a set with at  *)
(* most one member.  Powers are tenths of a dBm.                           *)
(***************************************************************************)
EXTENDS Integers, Sequences, SequencesExt

PortSpace == 65536    \* uint16_t
MaxDbm == 390
VendorRange == <<0, MaxDbm>>

Or(scalar, fallback) ==
    IF scalar = {} THEN fallback ELSE CHOOSE v \in scalar : TRUE

-----------------------------------------------------------------------------
(***************************************************************************)
(* Reading.  Every refusal is an exception, whichever comes first.         *)
(***************************************************************************)

RangeOK(entry) ==
    /\ (entry.min = {}) <=> (entry.max = {})
    /\ \A lo \in entry.min, hi \in entry.max :
          0 <= lo /\ lo <= hi /\ hi <= MaxDbm

EntryOK(entry) ==
    RangeOK(entry) /\ "" \notin {entry.id, entry.adapter, entry.endpoint}

\* readPositiveDurationSeconds, Hours; durations holds what the document gives
\* for the other keys that are durations.
Positive(doc) ==
    \A d \in doc.heartbeat_interval_sec \cup doc.durations : d > 0

Valid(doc) ==
    /\ {"container", "security"} \subseteq doc.sections
    /\ Positive(doc)
    /\ \A i \in DOMAIN doc.radios : EntryOK(doc.radios[i])

\* The key of this service goes before the shared one, that before the default.
LoadNetwork(doc) == [command_port |-> Or(doc.command_port, Or(doc.port, 8080))]

LoadTelemetry(doc) ==
    [sse_port |-> Or(doc.sse_port, 0),
     heartbeat_interval |->
        Or(doc.heartbeat_interval_sec, Or(doc.heartbeatIntervalSec, 30))]

LoadSecurity(doc) ==
    [token_secret |-> doc.token_secret, dev_access |-> doc.dev_access,
     allowed_roles |-> doc.allowed_roles]

Parse(doc) ==
    [network |-> LoadNetwork(doc), telemetry |-> LoadTelemetry(doc),
     security |-> LoadSecurity(doc), radios |-> doc.radios]

-----------------------------------------------------------------------------
(***************************************************************************)
(* Ports.  The hub binds SsePort; 0 asks the system for any free port.     *)
(***************************************************************************)
SsePort(cfg) ==
    IF cfg.telemetry.sse_port > 0 THEN cfg.telemetry.sse_port
    ELSE (cfg.network.command_port + 1) % PortSpace

\* Mutant: discovery forgets that the port may be configured.
Announced_Mutant(cfg) ==
    [rest |-> cfg.network.command_port,
     sse  |-> (cfg.network.command_port + 1) % PortSpace]

\* What the discovery responder tells peers, worked out on its own.
Announced(cfg) ==
    [rest |-> cfg.network.command_port,
     sse  |-> IF cfg.telemetry.sse_port > 0 THEN cfg.telemetry.sse_port
              ELSE (cfg.network.command_port + 1) % PortSpace]

-----------------------------------------------------------------------------
(***************************************************************************)
(* Radios, loaded entry by entry; an entry of another vendor or with an id *)
(* that is taken is passed over.                                           *)
(***************************************************************************)
EmptyCatalog == [id \in {} |-> VendorRange]

RangeOf(entry) ==
    IF entry.min = {} \/ entry.max = {} THEN VendorRange
    ELSE <<Or(entry.min, 0), Or(entry.max, 0)>>

\* Mutant: insert_or_assign in place of emplace.
Emplace_Mutant(catalog, entry) ==
    IF entry.adapter # "silvus" THEN catalog
    ELSE [id \in DOMAIN catalog \cup {entry.id} |->
             IF id = entry.id THEN RangeOf(entry) ELSE catalog[id]]

Emplace(catalog, entry) ==
    IF entry.adapter # "silvus" \/ entry.id \in DOMAIN catalog THEN catalog
    ELSE [id \in DOMAIN catalog \cup {entry.id} |->
             IF id = entry.id THEN RangeOf(entry) ELSE catalog[id]]

\* The catalog after each of the entries.
Loaded(entries) ==
    LET loaded[n \in 0..Len(entries)] ==
            IF n = 0 THEN EmptyCatalog ELSE Emplace(loaded[n - 1], entries[n])
    IN  loaded

Catalog(cfg) == Loaded(cfg.radios)[Len(cfg.radios)]

-----------------------------------------------------------------------------
(***************************************************************************)
(* Tokens, and who is let in.  A token is what it was signed with and its  *)
(* scope; checking the signature and the order of scopes are dts-common's. *)
(***************************************************************************)
Scopes == {"viewer", "operator", "admin"}
NoToken == [signed |-> "nobody", scope |-> "viewer"]

\* hasViewerOrHigher, hasOperatorOrHigher.
Suffices(scope, level) == level = "telemetry" \/ scope # "viewer"

RoleOf(level) == IF level = "telemetry" THEN "viewer" ELSE "controller"

RoleAllowed(sec, role) == sec.allowed_roles = {} \/ role \in sec.allowed_roles

\* Without a secret there is no validator.
Anonymous(sec, level) == sec.dev_access /\ RoleAllowed(sec, RoleOf(level))

\* Mutant: the role of the scope is asked for in place of the level's.
Authorize_Mutant(sec, token, level) ==
    IF sec.token_secret = ""
    THEN IF Anonymous(sec, level) THEN "granted" ELSE "UNAUTHORIZED"
    ELSE IF token.signed # sec.token_secret THEN "UNAUTHORIZED"
    ELSE IF /\ Suffices(token.scope, level)
            /\ RoleAllowed(sec, IF token.scope = "viewer" THEN "viewer"
                                                          ELSE "controller")
         THEN "granted" ELSE "FORBIDDEN"

Authorize(sec, token, level) ==
    IF sec.token_secret = ""
    THEN IF Anonymous(sec, level) THEN "granted" ELSE "UNAUTHORIZED"
    ELSE IF token.signed # sec.token_secret THEN "UNAUTHORIZED"
    ELSE IF Suffices(token.scope, level) /\ RoleAllowed(sec, RoleOf(level))
         THEN "granted" ELSE "FORBIDDEN"

\* GET /api/v1/dev-token; NoToken stands for the refusal.
DevToken(sec) ==
    IF sec.token_secret = "" /\ ~sec.dev_access THEN NoToken
    ELSE [signed |-> sec.token_secret, scope |-> "operator"]

\* Mutant: the seed is used whenever there is no secret.
SseSecret_Mutant(sec) ==
    IF sec.token_secret # "" THEN sec.token_secret ELSE "seed"

\* effective_sse_secret; the seed is of no token.
SseSecret(sec) ==
    IF sec.token_secret # "" \/ sec.dev_access THEN sec.token_secret ELSE "seed"

\* The server of the event stream knows nothing of roles.
StreamOpens(sec, token) == token.signed = SseSecret(sec)
=============================================================================
