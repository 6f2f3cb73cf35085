----------------------------- MODULE MCDashboard -----------------------------
(***************************************************************************)
(* An instance for TLC of three parts of the dashboard that share no state: *)
(* a pairing and its link, a device's state, and a stream of jobs.  A       *)
(* behaviour is one of a single part; the others rest.                      *)
(***************************************************************************)
EXTENDS MCPeering, DeviceMonitor, JobStream

CONSTANTS c1, c2   \* configurations

VARIABLE part   \* the part this behaviour is one of

\* The device is watched in three situations: one configuration whose API is dialled,
\* one that speaks MQTT, or two of one name with mDNS's api service and ping only.
Dialled  == ~dev[c2].on /\ ~broker
Brokered == ~dev[c2].on /\ call = "none"
Siblings == ~broker /\ call = "none" /\ \A s \in Svc \ {"api"} : heard[s] = "none"

MonitorRests ==
    /\ up = FALSE /\ heard = [s \in Svc |-> "none"] /\ broker = FALSE /\ icmp = "no" /\ owner = "unknown"
    /\ dev = [c \in Cfg |-> Fresh] /\ flight = [s \in Svc |-> "none"] /\ ping = "none" /\ call = "none"
    /\ seen = "none" /\ shown = {}

DashboardInit ==
    /\ PeeringInit /\ StreamInit
    /\ \/ part = "pairing" /\ MonitorRests
       \/ part = "stream" /\ MonitorRests
       \/ part = "dialled" /\ MonitorInit /\ Dialled
       \/ part = "brokered" /\ MonitorInit /\ Brokered
       \/ part = "siblings" /\ MonitorInit /\ Siblings
    /\ part # "stream" => kind = "tail"
    /\ part # "pairing" => left = CHOOSE b \in Budgets : TRUE

MonitorStep == MonitorNext /\ UNCHANGED <<peerVars, streamVars>>
DashboardNext ==
    /\ UNCHANGED part
    /\ \/ part = "pairing" /\ PeeringNext /\ UNCHANGED <<monVars, streamVars>>
       \/ part = "stream" /\ StreamNext /\ UNCHANGED <<peerVars, monVars>>
       \/ part = "dialled" /\ MonitorStep /\ Dialled'
       \/ part = "brokered" /\ MonitorStep /\ Brokered'
       \/ part = "siblings" /\ MonitorStep /\ Siblings'

DashboardSpec ==
    /\ DashboardInit /\ [][DashboardNext]_<<part, peerVars, monVars, streamVars>>
    /\ PeeringFairness /\ MonitorFairness /\ StreamFairness

DashboardTypeOK == PeeringTypeOK /\ MonitorTypeOK /\ StreamTypeOK
=============================================================================
