---------------------------- MODULE SerLinkProps ----------------------------
(***************************************************************************)
(* What the serial link promises, and on which line it keeps the promise.  *)
(***************************************************************************)
EXTENDS SerLink, FiniteSets

\* The types of the counters, the places of the sides and what is on the wire.
LinkTypeOK ==
    /\ pc \in [Sides -> Reading \cup Away \cup Gone]
    /\ \A s \in Sides :
          /\ SendBlkNo[s] \in 0 .. CountMod - 1 /\ ReceiveBlkNo[s] \in 0 .. CountMod - 1
          /\ LastResponse[s] \in {"ack", "nak"}
          /\ Errors[s] \in 0 .. MaxErrors + 1 /\ waits[s] \in 0 .. Patience
          /\ out[s].no \in 0 .. WireMod - 1 /\ out[s].idx <= puts[s]
          /\ acked[s] \subseteq 1 .. puts[s]
          /\ \A k \in DOMAIN wire[s] :
                wire[s][k].tok \in {"block", "bad", "noise"} \cup Answers
    /\ faults \in 0 .. MaxFaults

\* "This routine receives a block, checks CRC, and ACKs its reception": a block
\* that BlockSend reports as acknowledged was handed to the peer's program.
AckedDelivered ==
    \A s \in Sides : \A i \in acked[s] : \E k \in DOMAIN got[Peer(s)] : got[Peer(s)][k] = i

\* Whatever the line does, and whatever BlockSend gives up on, RemoteGet hands
\* up each block at most once and in the order in which they were sent.
InOrderOnce ==
    \A s \in Sides : \A i, j \in DOMAIN got[s] : i < j => got[s][i] < got[s][j]

\* A reply that ends the wait of the client is the reply to the request it has
\* just sent, not one to an earlier request that was still on its way.
ReplyTaken ==
    pc["client"] = "receiving" /\ pc'["client"] # "receiving"
        => Head(Incoming("client")).re = puts["client"]

RepliesMatch == [][ReplyTaken]_vars

\* A side that is sending has acknowledged the last block it was sent: it
\* answers RLR by ACK, which the peer takes for its own block.
RepeatsAcks == \A s \in Sides : pc[s] \in PutPlaces => LastResponse[s] = "ack"

\* A request that DoRequest has begun is finished: the debugger gets control
\* back.  On a line without faults the two sides never wait for each other.
RequestsComplete == pc["client"] \in Reading ~> pc["client"] \in {"idle", "off"}

-----------------------------------------------------------------------------
(* SerLink as a link that delivers each block exactly once before it       *)
(* reports it as sent.                                                     *)

Link == INSTANCE ReliableLink
            WITH sent <- puts, confirmed <- [s \in Sides |-> Cardinality(acked[s])]

\* On a line without faults, between prompt programs, RemotePut and RemoteGet
\* implement ReliableLink in both directions.
ImplementsReliableLink == Link!Spec
=============================================================================
