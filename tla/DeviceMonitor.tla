---------------------------- MODULE DeviceMonitor ----------------------------
(***************************************************************************)
(* What the dashboard believes of one device: the ledger that decides which *)
(* of mDNS, MQTT and ping may change its state, and the sources that feed   *)
(* it.  Several configurations may carry the device's name; each has its    *)
(* own runtime state and every observation fans out to all of them.  An     *)
(* action is one event-loop callback, or the code between two awaits.       *)
(* Addresses and the TXT values are left out; that an identity is known and *)
(* whether something fresh vouches for it is kept.  Somebody watches the    *)
(* dashboard, so the presence-gated sweeps run.                             *)
(***************************************************************************)
EXTENDS Integers

CONSTANTS Cfg,     \* configurations that may carry the name
          ApiCfg,  \* the ones that load the api
          Svc,     \* services the device announces: "api" (_esphomelib._tcp), "http" (_http._tcp)
          Mqtt,    \* does it speak MQTT?
          Dials    \* does the dashboard call its native API?

ASSUME MonitorAssumption ==
    /\ ApiCfg \subseteq Cfg /\ Svc \subseteq {"api", "http"}
    /\ Mqtt \in BOOLEAN /\ Dials \in BOOLEAN

VARIABLES
    (* the world *)
    up,      \* is the device there?
    heard,   \* zeroconf's PTR for each service: "live", "lapsed" (expired, its Removed not yet fired) or "none"
    broker,  \* is the MQTT session up?
    (* the dashboard *)
    icmp,    \* ping.icmp_available: "unprobed", "yes", "no"
    owner,   \* the ledger's entry, "unknown" when it has none
    dev,     \* the configurations' runtime state
    flight,  \* the mDNS resolve in flight for each service; "raced" once a withdrawal moved its epoch
    ping,    \* the sweep's probe: "none", "asked", then its result until it is applied
    call,    \* a native API dial: "none", "out", or "met" once the device answered
    seen,    \* the MQTT monitor's last_seen entry
    shown    \* the identity gates in the frames the last step sent to browsers

monVars == <<up, heard, broker, icmp, owner, dev, flight, ping, call, seen, shown>>

Source == {"unknown", "ping", "mqtt", "mdns"}
BugRank(s) == 0
Rank(s) == CASE s = "unknown" -> 0 [] s = "ping" -> 1 [] s = "mqtt" -> 2 [] s = "mdns" -> 3

Fresh == [on |-> FALSE, state |-> "unknown", src |-> "unknown", live |-> FALSE, known |-> FALSE]

MonitorInit ==
    /\ up \in BOOLEAN /\ heard = [s \in Svc |-> "none"] /\ broker = FALSE
    /\ icmp = "unprobed" /\ owner = "unknown"
    /\ \E k \in [Cfg -> BOOLEAN] : dev = [c \in Cfg |-> [Fresh EXCEPT !.on = k[c]]]
    /\ flight = [s \in Svc |-> "none"] /\ ping = "none" /\ call = "none" /\ seen = "none" /\ shown = {}

-----------------------------------------------------------------------------
(* The monitor's core, as operators on what it knows: the ledger, the       *)
(* devices, and the frames sent on the way.                                 *)

Now == [own |-> owner, dev |-> dev, frames |-> {}]
Bucket(m) == {c \in Cfg : m.dev[c].on}

\* A browser trusts the deployed identity if a live announce or other fresh evidence vouches for it.
Gate(c, d) == c \in ApiCfg /\ d.known /\ (d.src = "mdns" \/ d.live)

\* Every configuration of the name takes the value; those it changes are sent, but for a state, whose event
\* (DEVICE_STATE_CHANGED) carries no identity.
FanOut(m, field, value) ==
    LET changed == {c \in Bucket(m) : m.dev[c][field] # value}
        dev2 == [c \in Cfg |-> IF c \in changed THEN [m.dev[c] EXCEPT ![field] = value] ELSE m.dev[c]] IN
      [m EXCEPT !.dev = dev2, !.frames = IF field = "state" THEN @ ELSE @ \cup {<<c, Gate(c, dev2[c])>> : c \in changed}]

\* _mdns_owns_api_identity: the announces vouch for an api device's identity.
OwnsApiIdentity(m) == m.own = "mdns" /\ Bucket(m) \cap ApiCfg # {}

\* apply_deployed_identity_live: no stamp while the announces vouch.
Stamp(m, live) == IF live /\ OwnsApiIdentity(m) THEN m ELSE FanOut(m, "live", live)

\* _emit_source_change, the ledger already at new.
SourceEmitted(m, old, new) ==
    IF old = new THEN m
    ELSE LET told == FanOut(m, "src", new) IN IF OwnsApiIdentity(told) THEN Stamp(told, FALSE) ELSE told

AllMatch(m, state) == \A c \in Bucket(m) : m.dev[c].state = state

\* A positive reachability revives a device that is not online, whoever owns it.
Takeover(m, state) == state = "online" /\ ~AllMatch(m, state)

\* apply: one observation of a source.
Observed(m, state, source, claim) ==
    LET took == SourceEmitted([m EXCEPT !.own = source], m.own, source) IN
      IF Bucket(m) = {} \/ (~Takeover(m, state) /\ Rank(source) < Rank(m.own)) THEN m
      ELSE IF AllMatch(m, state) THEN (IF claim THEN took ELSE m)
      ELSE FanOut(took, "state", state)

\* forget
Forgotten(m) == SourceEmitted([m EXCEPT !.own = "unknown"], m.own, "unknown")

KnownApi(m) == \E c \in Bucket(m) \cap ApiCfg : m.dev[c].known

\* source_withdrawn("mdns"): without an ICMP arbiter the device is taken offline, else ping decides; the stamp
\* that takes over vouching comes before the source change is told.
BugHandBack(m) == IF KnownApi(m) THEN Stamp(Forgotten(m), TRUE) ELSE Forgotten(m)
HandBack(m) == LET popped == [m EXCEPT !.own = "unknown"]
                   stamped == IF KnownApi(m) THEN Stamp(popped, TRUE) ELSE popped IN
                 SourceEmitted(stamped, m.own, "unknown")

Parked(m) == IF AllMatch(m, "offline") THEN m
             ELSE FanOut(m, "state", IF icmp = "yes" THEN "unknown" ELSE "offline")

Withdrawn(m) == IF m.own # "mdns" THEN m ELSE HandBack(Parked(m))

Commit(m) == \E r \in {m} : owner' = r.own /\ dev' = r.dev /\ shown' = r.frames
Quiet == shown' = {} /\ UNCHANGED <<owner, dev>>

Known(m) == FanOut(m, "known", TRUE)

-----------------------------------------------------------------------------
(* mDNS: what zeroconf's cache and browser report, and the resolves. *)

LivePtr(s, h) == h[s] = "live"
Anchored(h) == \E s \in Svc : LivePtr(s, h)

\* _apply_service_info: the ONLINE claim rides the live PTR; the TXT is applied either way.
BugServiceApplied(m, h) == Known(Observed(m, "online", "mdns", TRUE))
ServiceApplied(m, h) ==
    Known(IF LivePtr("api", h) THEN Observed(m, "online", "mdns", TRUE) ELSE m)

\* _apply_http_txt: identity only, which also stamps.
Applied(s, m, h) == IF s = "api" THEN ServiceApplied(m, h) ELSE Stamp(Known(m), TRUE)

\* cache_apply_or_resolve: the cached record is applied behind a live PTR, an uncached one is resolved unless a
\* resolve of the service is in flight.  Which records are cached besides the PTR is left open.
CacheOrResolve(s, m, h) ==
    \/ Commit(IF LivePtr(s, h) THEN Applied(s, m, h) ELSE m) /\ UNCHANGED flight
    \/ Commit(m) /\ flight' = [flight EXCEPT ![s] = IF @ = "none" THEN "asked" ELSE @]

\* The device announces a service: zeroconf renews a PTR it still holds without a word and adds one it does not.
\* The api browser callback skips an unknown name, the http one a name every configuration of which has the api.
Announce(s) ==
    /\ up /\ heard[s] # "live"
    /\ heard' = [heard EXCEPT ![s] = "live"]
    /\ IF heard[s] = "lapsed" \/ Bucket(Now) = {} \/ (s = "http" /\ Bucket(Now) \subseteq ApiCfg)
       THEN Quiet /\ UNCHANGED flight
       ELSE CacheOrResolve(s, Now, heard')
    /\ UNCHANGED <<up, broker, icmp, ping, call, seen>>

\* _on_service_removed for the services in gone: their resolves in flight are void; the claim is released
\* unless another service's PTR is live.
Removed(gone, h) ==
    /\ heard' = h
    /\ flight' = [s \in Svc |-> IF s \in gone /\ flight[s] # "none" /\ Bucket(Now) # {} THEN "raced" ELSE flight[s]]
    /\ IF Bucket(Now) = {} \/ Anchored(h) THEN Quiet ELSE Commit(Withdrawn(Now))

\* The device says goodbye to some of its services in one packet; it may be going to sleep.
Goodbye ==
    /\ up
    /\ \E gone \in SUBSET {s \in Svc : heard[s] # "none"} :
         /\ gone # {}
         /\ Removed(gone, [s \in Svc |-> IF s \in gone THEN "none" ELSE heard[s]])
    /\ up' \in BOOLEAN
    /\ UNCHANGED <<broker, icmp, ping, call, seen>>

\* A PTR nobody renews expires; the cache drops it, and calls the browser back, later.
Lapse(s) ==
    /\ heard[s] = "live" /\ heard' = [heard EXCEPT ![s] = "lapsed"]
    /\ Quiet /\ UNCHANGED <<up, broker, icmp, flight, ping, call, seen>>
Purge(s) ==
    /\ heard[s] = "lapsed"
    /\ Removed({s}, [heard EXCEPT ![s] = "none"])
    /\ UNCHANGED <<up, broker, icmp, ping, call, seen>>

\* resolve_then: a miss, an answer a withdrawal raced, or an answer to apply.
Resolved(s) ==
    /\ flight[s] # "none" /\ flight' = [flight EXCEPT ![s] = "none"]
    /\ \/ Quiet
       \/ flight[s] = "asked" /\ Commit(Applied(s, Now, heard))
    /\ UNCHANGED <<up, heard, broker, icmp, ping, call, seen>>

\* An active resolve of the hostname (the sweep's for non-api devices, or the drawer's): apply_resolved_addresses.
HostResolved ==
    /\ Commit(IF Anchored(heard) THEN Observed(Now, "online", "mdns", TRUE) ELSE Now)
    /\ UNCHANGED <<up, heard, broker, icmp, flight, ping, call, seen>>

-----------------------------------------------------------------------------
(* Ping, the native API and MQTT. *)

IcmpProbed ==
    /\ icmp = "unprobed" /\ icmp' \in {"yes", "no"}
    /\ Quiet /\ UNCHANGED <<up, heard, broker, flight, ping, call, seen>>

\* should_ping of some configuration.
BugShouldPing == \E c \in Bucket(Now) : dev[c].state # "online" \/ owner = "ping"
ShouldPing == \E c \in Bucket(Now) : dev[c].state # "online" \/ Rank(owner) <= Rank("ping")

PingSent ==
    /\ icmp = "yes" /\ ping = "none" /\ ShouldPing /\ ping' = "asked"
    /\ Quiet /\ UNCHANGED <<up, heard, broker, icmp, flight, call, seen>>
PingBack ==
    /\ ping = "asked" /\ ping' = IF up THEN "alive" ELSE "dead"
    /\ Quiet /\ UNCHANGED <<up, heard, broker, icmp, flight, call, seen>>
\* The sweep has no address to ping: offline at once.
NoTarget ==
    /\ icmp = "yes" /\ ping = "none" /\ ShouldPing
    /\ Commit(Observed(Now, "offline", "ping", FALSE))
    /\ UNCHANGED <<up, heard, broker, icmp, flight, ping, call, seen>>
\* The answer is applied after the await, to whatever the ledger holds by then.
PingApplied ==
    /\ ping \in {"alive", "dead"} /\ ping' = "none"
    /\ Commit(Observed(Now, IF ping = "alive" THEN "online" ELSE "offline", "ping", FALSE))
    /\ UNCHANGED <<up, heard, broker, icmp, flight, call, seen>>

\* A native API dial: api_info's of an online device, api_reviver's of one that is not.
DialOut ==
    /\ Dials /\ call = "none" /\ Bucket(Now) \cap ApiCfg # {} /\ call' = "out"
    /\ Quiet /\ UNCHANGED <<up, heard, broker, icmp, flight, ping, seen>>
DialMet ==
    /\ call = "out" /\ call' = IF up THEN "met" ELSE "none"
    /\ Quiet /\ UNCHANGED <<up, heard, broker, icmp, flight, ping, seen>>
\* The worker's payload is stamped; the reviver also claims ONLINE, in ping's name, where ICMP can demote it.
DialApplied ==
    /\ call = "met" /\ call' = "none"
    /\ LET told == Stamp(Known(Now), TRUE) IN
         \/ Commit(told)
         \/ icmp = "yes" /\ Commit(Observed(told, "online", "ping", FALSE))
    /\ UNCHANGED <<up, heard, broker, icmp, flight, ping, seen>>

MqttUp ==
    /\ Mqtt /\ ~broker /\ broker' = TRUE
    /\ Quiet /\ UNCHANGED <<up, heard, icmp, flight, ping, call, seen>>
\* The session ends: last_seen is cleared, the devices' state is left alone.
MqttDown ==
    /\ broker /\ broker' = FALSE /\ seen' = "none"
    /\ Quiet /\ UNCHANGED <<up, heard, icmp, flight, ping, call>>
MqttHeard ==
    /\ broker /\ up /\ seen' = "fresh"
    /\ Commit(Observed(Now, "online", "mqtt", FALSE))
    /\ UNCHANGED <<up, heard, broker, icmp, flight, ping, call>>
\* Two broadcasts go unanswered; the next sweep flips the entry and forgets it.
MqttSilent ==
    /\ seen = "fresh" /\ seen' = "stale"
    /\ Quiet /\ UNCHANGED <<up, heard, broker, icmp, flight, ping, call>>
MqttStale ==
    /\ broker /\ seen = "stale" /\ seen' = "none"
    /\ Commit(Observed(Now, "offline", "mqtt", FALSE))
    /\ UNCHANGED <<up, heard, broker, icmp, flight, ping, call>>

\* The device comes, or goes without a word.
Comes == ~up /\ up' = TRUE /\ Quiet /\ UNCHANGED <<heard, broker, icmp, flight, ping, call, seen>>
Goes == up /\ up' = FALSE /\ Quiet /\ UNCHANGED <<heard, broker, icmp, flight, ping, call, seen>>

-----------------------------------------------------------------------------
(* The catalog: the scanner's changes. *)

\* What a configuration may bring along when it takes the name: nothing but the identity its store holds, or the
\* runtime state it had under another name.
Stored  == {[Fresh EXCEPT !.known = k] : k \in BOOLEAN}
Carried == {[Fresh EXCEPT !.known = TRUE, !.state = "online", !.src = s, !.live = (s = "ping")] : s \in {"mdns", "ping"}}

\* ADDED, or UPDATED with a new name: probe_reachability reads the api service's cache or resolves it.
TakesName(c) ==
    /\ ~dev[c].on
    /\ \E d \in Stored \cup Carried :
         LET m == [Now EXCEPT !.dev[c] = [d EXCEPT !.on = TRUE]] IN
           IF "api" \in Svc THEN CacheOrResolve("api", m, heard) ELSE Commit(m) /\ UNCHANGED flight
    /\ UNCHANGED <<up, heard, broker, icmp, ping, call, seen>>

\* REMOVED: the ledger's entry is dropped, whoever else carries the name.
Deleted(c) ==
    /\ dev[c].on
    /\ Commit(Forgotten([Now EXCEPT !.dev[c] = Fresh]))
    /\ UNCHANGED <<up, heard, broker, icmp, flight, ping, call, seen>>

\* UPDATED to another name: the entry is dropped when nobody is left.
LeavesName(c) ==
    /\ dev[c].on
    /\ LET m == [Now EXCEPT !.dev[c] = Fresh] IN Commit(IF Bucket(m) = {} THEN Forgotten(m) ELSE m)
    /\ UNCHANGED <<up, heard, broker, icmp, flight, ping, call, seen>>

-----------------------------------------------------------------------------

PingStep == PingSent \/ PingBack \/ PingApplied
MonitorNext ==
    \/ \E s \in Svc : Announce(s) \/ Lapse(s) \/ Purge(s) \/ Resolved(s)
    \/ Goodbye \/ HostResolved \/ Comes \/ Goes
    \/ IcmpProbed \/ PingStep \/ NoTarget \/ DialOut \/ DialMet \/ DialApplied
    \/ MqttUp \/ MqttDown \/ MqttHeard \/ MqttSilent \/ MqttStale
    \/ \E c \in Cfg : TakesName(c) \/ Deleted(c) \/ LeavesName(c)

\* The event loop runs what can run, zeroconf drops what has expired, and a device that is gone renews nothing
\* and answers nothing.
Expires(s) == Purge(s) \/ (~up /\ Lapse(s))
DialStep == DialMet \/ DialApplied
SilenceStep == MqttStale \/ (~up /\ MqttSilent)
MonitorFairness ==
    /\ \A s \in Svc : WF_monVars(Expires(s)) /\ WF_monVars(Resolved(s))
    /\ WF_monVars(IcmpProbed) /\ WF_monVars(PingStep) /\ WF_monVars(DialStep) /\ WF_monVars(SilenceStep)

MonitorSpec == MonitorInit /\ [][MonitorNext]_monVars /\ MonitorFairness

-----------------------------------------------------------------------------
(* What must hold. *)

MonitorTypeOK ==
    /\ up \in BOOLEAN /\ heard \in [Svc -> {"live", "lapsed", "none"}] /\ broker \in BOOLEAN
    /\ icmp \in {"unprobed", "yes", "no"} /\ owner \in Source
    /\ dev \in [Cfg -> [on : BOOLEAN, state : {"unknown", "online", "offline"}, src : Source,
                        live : BOOLEAN, known : BOOLEAN]]
    /\ flight \in [Svc -> {"none", "asked", "raced"}] /\ ping \in {"none", "asked", "alive", "dead"}
    /\ call \in {"none", "out", "met"} /\ seen \in {"none", "fresh", "stale"}
    /\ shown \subseteq Cfg \X BOOLEAN

\* mDNS takes a device only where a Removed is still to come that will release it: a claim made off a cached or
\* late answer would never be withdrawn and would keep ping away for good.
ClaimIsAnchored == owner = "mdns" => Bucket(Now) # {} /\ \E s \in Svc : heard[s] # "none"

\* While an announce stands, no late answer of ping and no silence over MQTT takes the device offline.
AnnounceOutweighs ==
    [][\A c \in Cfg : /\ owner = "mdns" /\ dev[c].on /\ dev[c].state = "online"
                      /\ dev'[c].on /\ dev'[c].state # "online"
                      => ~\E s \in Svc : heard'[s] = "live"]_monVars

\* Vouching for an identity passes from the announces to the stamp and back with no frame between in which
\* nobody vouches, as long as the configurations of the name stay what they are.
GateNeverDips ==
    [][\A c \in Cfg : /\ \A d \in Cfg : dev[d].on = dev'[d].on
                      /\ Gate(c, dev[c]) /\ Gate(c, dev'[c])
                      => <<c, FALSE>> \notin shown']_monVars

Online(c) == dev[c].on /\ dev[c].state = "online"

CatalogRests == <>[][\A c \in Cfg : dev'[c].on = dev[c].on]_monVars

\* The last word wins in the end.  A device that is gone does not stay online, whoever had claimed it and however late the answers came, once its
\* configurations are left alone.  Two cases escape: a device MQTT has claimed and forgotten, and one nobody claims
\* where there is no ping.
Unsettled == \/ owner = "mqtt" /\ seen = "none"
             \/ owner = "unknown" /\ icmp = "no"
GoneIsNoticed == CatalogRests /\ <>[]~up => <>[](\A c \in Cfg : Online(c) => Unsettled)

\* And a device that is up, and can be pinged, comes online in every configuration, however wrong the last word was.
UpIsNoticed == CatalogRests /\ <>[](up /\ icmp = "yes") => []<>(\A c \in Cfg : dev[c].on => Online(c))

\* Gone or up, the dashboard notices.
StateIsNoticed == GoneIsNoticed /\ UpIsNoticed
=============================================================================
