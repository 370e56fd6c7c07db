---------------------------- MODULE MCHostParts ----------------------------
(***************************************************************************)
(* The smaller components of the host, checked side by side: each          *)
(* behaviour is one of one component, the others stay as they were begun.  *)
(* They share no state (what one uses of another is an input of its        *)
(* module), so nothing is lost by not interleaving them.                   *)
(***************************************************************************)
EXTENDS TimeAuthority, NavGateway, NavHistory, EdgeMatch, RunReaders,
        CardPlace, FramePairing, AnomalyScan, DrainQueue

VARIABLE part      \* the component at work
hostVars == <<part, authorityVars, gatewayVars, historyVars, edgeVars,
              recordVars, browserVars, placeVars, pairVars, alarmVars, queueVars>>

\* Values the configuration cannot write down.
StaleAfterDef == [pos |-> 1, gnss |-> 2]

Parts == {"authority", "gateway", "history", "edges", "records", "browser",
          "placing", "pairing", "alarms", "queue"}

HostInit ==
    /\ part \in Parts
    /\ AuthorityInit /\ HistoryInit /\ EdgeInit /\ RecordInit /\ PlaceInit
    /\ QueueInit /\ BrowserInit
    /\ GatewayInit /\ (part # "gateway" => plugged /\ powered)
    /\ PairInit /\ (part # "pairing" => lost = {} /\ pairDir)
    /\ AlarmInit /\ (part # "alarms" => recording = "no")

\* A step of one component while the others rest.
Nav == \/ part = "authority" /\ AuthorityNext /\ UNCHANGED <<gatewayVars, historyVars>>
       \/ part = "gateway" /\ GatewayNext /\ UNCHANGED <<authorityVars, historyVars>>
       \/ part = "history" /\ HistoryNext /\ UNCHANGED <<authorityVars, gatewayVars>>
Frames == \/ part = "edges" /\ EdgeNext /\ UNCHANGED <<recordVars, browserVars, pairVars>>
          \/ part = "records" /\ RecordNext /\ UNCHANGED <<edgeVars, browserVars, pairVars>>
          \/ part = "pairing" /\ PairNext /\ UNCHANGED <<edgeVars, recordVars, browserVars>>
          \/ part = "browser" /\ BrowserNext /\ UNCHANGED <<edgeVars, recordVars, pairVars>>
Raws == part = "placing" /\ PlaceNext
Rigd == \/ part = "alarms" /\ AlarmNext /\ UNCHANGED queueVars
        \/ part = "queue" /\ QueueNext /\ UNCHANGED alarmVars

navVars == <<authorityVars, gatewayVars, historyVars>>
frameVars == <<edgeVars, recordVars, browserVars, pairVars>>
rawVars == placeVars
rigdVars == <<alarmVars, queueVars>>

HostNext ==
    /\ part' = part
    /\ \/ Nav /\ UNCHANGED <<frameVars, rawVars, rigdVars>>
       \/ Frames /\ UNCHANGED <<navVars, rawVars, rigdVars>>
       \/ Raws /\ UNCHANGED <<navVars, frameVars, rigdVars>>
       \/ Rigd /\ UNCHANGED <<navVars, frameVars, rawVars>>

\* The fairness of the two components that have a liveness property.
FairHostSpec ==
    /\ HostInit /\ [][HostNext]_hostVars
    /\ WF_gatewayVars(part = "gateway" /\ Thread)
    /\ WF_gatewayVars(part = "gateway" /\ StatusLine)
    /\ WF_gatewayVars(part = "gateway" /\ GatewayTick)
    /\ WF_gatewayVars(part = "gateway" /\ Replug)
    /\ WF_gatewayVars(part = "gateway" /\ PowerBack)
    /\ WF_pairVars(part = "pairing" /\ Poll)

\* NavGateway: the gateway is joined again (see GatewayJoins there).
BusIsJoined == part = "gateway" => GatewayJoins

\* FramePairing: what is listed gets fed (see FramesGetFed there).
PairingFeeds == part = "pairing" => FramesGetFed
=============================================================================
