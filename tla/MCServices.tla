----------------------------- MODULE MCServices -----------------------------
(***************************************************************************)
(* One run for all client and server programs: a behaviour chooses one of  *)
(* them, over a connection or over datagrams, and the other half stays     *)
(* idle.                                                                   *)
(***************************************************************************)
EXTENDS Streams, Datagrams

MCServices ==
    {LatTcp, BwTcp, LatConnect, LatUnixConnect, LatHttp, Lmhttp}
MCPrograms ==
    {LatUdp, LatRpc, BwUdp, BwUdpWhole, Little(BwUdp), Little(BwUdpWhole)}

ServicesInit == (StreamInit /\ DgramIdle) \/ (StreamIdle /\ DgramInit)

ServicesNext ==
    \/ StreamNext /\ UNCHANGED dgramVars
    \/ DgramNext /\ UNCHANGED streamVars

servicesVars == <<streamVars, dgramVars>>

ServicesSpec ==
    /\ ServicesInit /\ [][ServicesNext]_servicesVars
    /\ StreamFairness /\ DgramFairness

\* The variables of both halves have their types.
ServicesTypeOK == StreamTypeOK /\ DgramTypeOK

\* A round counts when its message has come, whole and for this round: see
\* the two for what the programs take for granted.
RoundsHold == RoundsCarryMessages /\ RoundsAreAnswered

\* Every client ends by itself: see ClientsEnded and PeersEnded for the
\* faults each program stands.  A lat_udp server that was told to go goes,
\* although datagrams are lost.
EveryoneEnds == <>(ClientsEnded /\ PeersEnded) /\ <>ServerGone
=============================================================================
