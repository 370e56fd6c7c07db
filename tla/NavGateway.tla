----------------------------- MODULE NavGateway -----------------------------
(***************************************************************************)
(* The reader of the NMEA2000 gateway (rig/nav.py, NavReader): the serial  *)
(* port that is opened again whenever it went away, and the handshake that *)
(* keeps the gateway on the boat's bus.                                    *)
(*                                                                         *)
(* OFFLINE takes the gateway off the bus, and mutes it for a while; INIT   *)
(* joins it.  A command may be lost, the USB plug pulled and the bus power *)
(* cut.  The remedy for a silent gateway is OFFLINE and INIT; for one that *)
(* talks and is off the bus it is INIT alone, since OFFLINE would knock it *)
(* down again.                                                             *)
(***************************************************************************)
EXTENDS Integers

CONSTANTS
    InitRetry,     \* INIT_RETRY_S in ticks
    OnlineFor,     \* ONLINE_S in ticks
    Mute,          \* ticks a gateway stays mute after OFFLINE
    JoinMin,       \* the first wait between two joins, in ticks
    JoinMax,       \* the last one
    ReopenMin,     \* REOPEN_MIN_S in ticks
    ReopenMax,     \* REOPEN_MAX_S in ticks
    MaxTroubles    \* bound: lost commands, pulled plugs, power cuts

ASSUME NavGatewayAssumption ==
    /\ {InitRetry, OnlineFor, Mute, JoinMin, JoinMax, ReopenMin, ReopenMax,
        MaxTroubles} \subseteq Nat
    /\ JoinMin \in 1..JoinMax /\ ReopenMin \in 1..ReopenMax

VARIABLES
    plugged,     \* the gateway's USB side is there
    powered,     \* its N2K side has power: without, it is dead silent
    joined,      \* it is on the bus
    muted,       \* ticks it stays mute
    port,        \* the port is open
    wait,        \* ticks to the next attempt to open it
    backoff,     \* _backoff
    quiet,       \* ticks since _last_rx
    asked,       \* ticks since _last_init_tx
    offbus,      \* _offbus
    joinWait,    \* _join_backoff
    troubles     \* what is left of the bound

gateway == <<plugged, powered, joined, muted>>
reader == <<port, wait, backoff, quiet, asked, offbus, joinWait>>
gatewayVars == <<gateway, reader, troubles>>

Lower(a, b) == IF a < b THEN a ELSE b
Silent == OnlineFor + 1
Long == JoinMax + 1

\* start() has found no gateway and has begun the thread; a gateway it found
\* is one the thread opens.
GatewayInit ==
    /\ plugged \in BOOLEAN /\ powered \in BOOLEAN
    /\ joined = FALSE /\ muted = 0
    /\ port = FALSE /\ wait = ReopenMin /\ backoff = ReopenMin
    /\ quiet = Silent /\ asked = Long /\ offbus = FALSE
    /\ joinWait = JoinMin
    /\ troubles = MaxTroubles

Online == quiet <= OnlineFor
Hears == plugged /\ powered /\ port
Trouble == troubles > 0 /\ troubles' = troubles - 1

-----------------------------------------------------------------------------
(***************************************************************************)
(* Commands.                                                               *)
(***************************************************************************)
\* INIT,ALL arrives, or is lost.
Init(was) ==
    \/ joined' = (was \/ Hears) /\ UNCHANGED troubles
    \/ Trouble /\ joined' = was

\* _send_init(): for a port just opened and for a silent gateway.
SendInit(open) ==
    /\ muted' = IF plugged /\ powered /\ open THEN Mute ELSE muted
    /\ \/ joined' = (plugged /\ powered /\ open) /\ UNCHANGED troubles
       \/ Trouble /\ joined' = FALSE
    /\ asked' = 0

\* _send_join(): for one that talks, ever more seldom.
SendJoin ==
    /\ Init(joined)
    /\ UNCHANGED muted
    /\ asked' = 0
    /\ joinWait' = Lower(JoinMax, 2 * joinWait)

-----------------------------------------------------------------------------
(***************************************************************************)
(* The reader thread.                                                      *)
(***************************************************************************)
\* The wait before an attempt doubles, and only a line heard resets it.
Open ==
    /\ ~port /\ wait = 0
    /\ plugged
    /\ port' = TRUE
    /\ SendInit(TRUE)
    /\ backoff' = Lower(ReopenMax, 2 * backoff)
    /\ UNCHANGED <<plugged, powered, wait, quiet, offbus, joinWait>>

OpenFails ==
    /\ ~port /\ wait = 0
    /\ ~plugged
    /\ backoff' = Lower(ReopenMax, 2 * backoff)
    /\ wait' = backoff'
    /\ UNCHANGED <<gateway, port, quiet, asked, offbus, joinWait, troubles>>

ReadFails ==
    /\ port /\ ~plugged
    /\ port' = FALSE
    /\ wait' = backoff
    /\ UNCHANGED <<gateway, backoff, quiet, asked, offbus, joinWait, troubles>>

\* _handle_line(): any line shows the port good; a status says whether the
\* gateway is on the bus.
HearsLine(kind) ==
    /\ Hears /\ muted = 0
    /\ (kind = "offbus") = ~joined
    /\ quiet' = 0
    /\ backoff' = ReopenMin
    /\ offbus' = (IF kind = "data" THEN offbus ELSE kind = "offbus")
    /\ joinWait' = IF kind = "status" THEN JoinMin ELSE joinWait
    /\ UNCHANGED <<gateway, port, wait, asked, troubles>>

InitDue == port /\ plugged /\ ~Online /\ asked > InitRetry
RetriesInit ==
    /\ InitDue
    /\ SendInit(port)
    /\ UNCHANGED <<plugged, powered, port, wait, backoff, quiet, offbus,
                   joinWait>>

\* A seeded fault of JoinDue: only a silent gateway is asked to join.
MutantOnlySilent == port /\ plugged /\ ~Online /\ asked > joinWait
JoinDue == port /\ plugged /\ Online /\ offbus /\ asked > joinWait
RetriesJoin ==
    /\ JoinDue
    /\ SendJoin
    /\ UNCHANGED <<plugged, powered, port, wait, backoff, quiet, offbus>>

-----------------------------------------------------------------------------
(***************************************************************************)
(* The boat.                                                               *)
(***************************************************************************)
Unplug == /\ plugged /\ Trouble
          /\ plugged' = FALSE
          /\ UNCHANGED <<powered, joined, muted, reader>>
Replug == /\ ~plugged
          /\ plugged' = TRUE
          /\ UNCHANGED <<powered, joined, muted, reader, troubles>>
PowerCut == /\ powered /\ Trouble
            /\ powered' = FALSE /\ joined' = FALSE /\ muted' = 0
            /\ UNCHANGED <<plugged, reader>>
PowerBack == /\ ~powered
             /\ powered' = TRUE
             /\ UNCHANGED <<plugged, joined, muted, reader, troubles>>

\* A second goes by once the thread has done what is due in it.
Due == InitDue \/ JoinDue \/ (port /\ ~plugged) \/ (~port /\ wait = 0)
Spoke == Hears /\ muted = 0 => (quiet = 0 /\ offbus = ~joined)
GatewayTick ==
    /\ ~Due /\ Spoke
    /\ muted' = IF muted = 0 THEN 0 ELSE muted - 1
    /\ wait' = IF wait = 0 THEN 0 ELSE wait - 1
    /\ quiet' = Lower(Silent, quiet + 1)
    /\ asked' = Lower(Long, asked + 1)
    /\ UNCHANGED <<plugged, powered, joined, port, backoff, offbus, joinWait,
                   troubles>>

Thread == Open \/ OpenFails \/ ReadFails \/ RetriesInit \/ RetriesJoin
Lines == \E kind \in {"data", "status", "offbus"} : HearsLine(kind)
StatusLine == \E kind \in {"status", "offbus"} : HearsLine(kind)

GatewayNext ==
    \/ Thread \/ Lines \/ GatewayTick
    \/ Unplug \/ Replug \/ PowerCut \/ PowerBack

\* The thread runs, a gateway that can speak sends its status every second,
\* and the crew gets it plugged and powered.
GatewaySpec == GatewayInit /\ [][GatewayNext]_gatewayVars
FairGatewaySpec ==
    /\ GatewaySpec
    /\ WF_gatewayVars(Thread)
    /\ WF_gatewayVars(StatusLine)
    /\ WF_gatewayVars(GatewayTick)
    /\ WF_gatewayVars(Replug) /\ WF_gatewayVars(PowerBack)

-----------------------------------------------------------------------------

\* Whatever was pulled, cut or lost, the gateway ends up on the bus and the
\* reader hearing it (_send_init, _send_join, the reopening of the port).
GatewayJoins == <>[](joined /\ Online /\ ~offbus)
=============================================================================
