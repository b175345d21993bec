------------------------------ MODULE SerLink ------------------------------
(***************************************************************************)
(* The serial link between a debugger and its remote server, as in         *)
(* bld/trap/ser/c/serlink.c, with the request loops on top of it: DoRequest*)
(* in bld/trap/common/remote.c (the client) and Session in                 *)
(* bld/trap/common/servacc.c (the server).                                 *)
(*                                                                         *)
(* BlockSend is stop-and-wait: a block carries its number, the answers     *)
(* (ACK, NAK, and RLR, "request last response") are single bytes without   *)
(* one.  Each side keeps its own counters; the wire is a queue of tokens   *)
(* each way, in order, which may lose or damage some of them.              *)
(*                                                                         *)
(* Time.  A wait of the code ends without data only when the line is quiet *)
(* (see Quiet): answers travel faster than the one-second wait of BlockSend*)
(* and the 750 ms of silence it looks for.  How long a program stays away  *)
(* from the line (TrapAccess on the server, the user on the client) is     *)
(* open, unless Prompt holds.                                              *)
(***************************************************************************)
EXTENDS Integers, Sequences

CONSTANTS CountMod,   \* SendBlkNo and ReceiveBlkNo count modulo CountMod
          WireMod,    \* a block carries its number modulo WireMod (2^16)
          MaxErrors,  \* MAX_ERRORS, errors in one BlockSend before a ReSync
          Patience,   \* waits without data in the 10 seconds of RemotePut
          Prompt,     \* both programs are back at the line within Patience
          Late,       \* bytes may still be on their way when a line is cleared
          Requests,   \* the kinds of requests of the client, see RequestKinds
          Faults,     \* what the wire does, see FaultKinds
          MaxBlocks,  \* bound on the requests of a session
          MaxFaults   \* bound on the faults of the wire between two rests

\* A request that waits for an answer, one that does not (Out_Mx_Num is 0, the
\* REQ_WANT_RETURN bit goes out with it), the last of a session.
RequestKinds == {"call", "post", "bye"}

\* A block is lost or damaged, an answer is.
FaultKinds == {"lose_block", "damage_block", "lose_answer", "damage_answer"}

ASSUME SerLinkAssumption == /\ WireMod \in Nat \ {0} /\ CountMod \in Nat \ {0}
                            /\ MaxErrors \in Nat /\ Patience \in Nat
                            /\ Prompt \in BOOLEAN /\ Late \in BOOLEAN
                            /\ Requests \subseteq RequestKinds
                            /\ Faults \subseteq FaultKinds
                            /\ MaxBlocks \in Nat \ {0} /\ MaxFaults \in Nat

VARIABLES pc,            \* where each side is
          out,           \* the block each side is sending or has sent last
          serving,       \* the block with the request the server works on
          SendBlkNo, ReceiveBlkNo, LastResponse, Errors,
          waits,         \* waits without data since the block was sent
          wire,          \* tokens sent by a side and not read by its peer
          faults,        \* faults of the wire since the line was last at rest
          puts,          \* ghost: number of blocks a side has passed to BlockSend
          acked,         \* ghost: which of them BlockSend returned true for
          got            \* ghost: what RemoteGet returned on a side, in order

counters == <<SendBlkNo, ReceiveBlkNo, LastResponse, Errors>>
vars == <<pc, out, serving, counters, waits, wire, faults, puts, acked, got>>

-----------------------------------------------------------------------------
(* State.                                                                  *)

Sides == {"client", "server"}
Peer(s) == IF s = "client" THEN "server" ELSE "client"

\* A block: its number on the wire, the errors of the previous BlockSend
\* (PrevErrors) and what it asks for.  Ghosts: which block of its side it is,
\* and for a reply the request it answers.
Block(no, err, r, idx, re) ==
    [tok |-> "block", no |-> no, err |-> err, req |-> r, idx |-> idx, re |-> re]
NoBlock == Block(0, 0, "bye", 0, 0)

\* The answers, and what a damaged token is taken for: a block that fails the
\* CRC, or bytes that are nothing.
Byte(t) == [tok |-> t]
Answers == {"ack", "nak", "rlr"}

PutPlaces == {"sending", "discarding"}
Resyncing == {"resync_put", "resync_get"}
Reading == PutPlaces \cup {"receiving"} \cup Resyncing

\* The program of a side is busy with something other than the line.
Away == {"idle", "exec"}

\* A side that has left the session.
Gone == {"off", "listening", "failed"}

Init == /\ pc = [s \in Sides |-> IF s = "client" THEN "off" ELSE "listening"]
        /\ out = [s \in Sides |-> NoBlock]
        /\ serving = NoBlock
        /\ SendBlkNo = [s \in Sides |-> 0] /\ ReceiveBlkNo = [s \in Sides |-> 0]
        /\ LastResponse = [s \in Sides |-> "nak"]
        /\ Errors = [s \in Sides |-> 0] /\ waits = [s \in Sides |-> 0]
        /\ wire = [s \in Sides |-> <<>>] /\ faults = 0
        /\ puts = [s \in Sides |-> 0]
        /\ acked = [s \in Sides |-> {}] /\ got = [s \in Sides |-> <<>>]

Incoming(s) == wire[Peer(s)]
Hears(s, toks) == Incoming(s) # <<>> /\ Head(Incoming(s)).tok \in toks

\* s leaves rest of what its peer sent and sends said.
Exchange(s, rest, said) == wire' = [wire EXCEPT ![Peer(s)] = rest, ![s] = @ \o said]

\* ClearCom drops what has arrived, not what is still on its way.
ClearCom(q) == IF Late THEN {SubSeq(q, k + 1, Len(q)) : k \in 0 .. Len(q)} ELSE {<<>>}

\* Nothing is on its way to s and nothing it sent is about to be answered.
Quiet(s) == /\ Incoming(s) = <<>>
            /\ wire[s] = <<>> \/ pc[Peer(s)] \notin Reading

\* Where a side goes on after RemotePut and after RemoteGet.
AfterPut(s) == IF s = "server" THEN "receiving"
               ELSE IF out[s].req = "call" THEN "receiving"
               ELSE IF out[s].req = "post" THEN "idle" ELSE "off"
AfterGet(s) == IF s = "server" THEN "exec" ELSE "idle"

-----------------------------------------------------------------------------
(* BlockSend and RemotePut.                                                *)

\* Mutations: the number stays, or does not wrap.
SameNo(n) == n
NoWrap(n) == n + 1

NextNo(n) == (n + 1) % CountMod

\* BlockSend up to its first wait.
StartSend(s, r, re) ==
    LET b == Block(SendBlkNo[s] % WireMod, Errors[s], r, puts[s] + 1, re)
    IN  /\ out' = [out EXCEPT ![s] = b]
        /\ \E rest \in ClearCom(Incoming(s)) : Exchange(s, rest, <<b>>)
        /\ Errors' = [Errors EXCEPT ![s] = 0]
        /\ waits' = [waits EXCEPT ![s] = 0]
        /\ puts' = [puts EXCEPT ![s] = @ + 1]
        /\ pc' = [pc EXCEPT ![s] = "sending"]
        /\ UNCHANGED <<SendBlkNo, ReceiveBlkNo, LastResponse, acked, got>>

\* Errors are counted as far as the code tells their number apart.
OneMore(n) == IF n > MaxErrors THEN n ELSE n + 1

\* An answer to s waiting in BlockSend, with what it sends on.
Answered(s, toks, said) ==
    /\ pc[s] = "sending" /\ Hears(s, toks)
    /\ Exchange(s, Tail(Incoming(s)), said)
    /\ UNCHANGED <<out, serving, faults, puts, got>>

\* ACK: BlockSend is done; RemotePut resynchronises if the send before this one
\* had too many errors.
SendAcked(s) ==
    /\ Answered(s, {"ack"}, <<>>)
    /\ SendBlkNo' = [SendBlkNo EXCEPT ![s] = NextNo(@)]
    /\ acked' = [acked EXCEPT ![s] = @ \cup {out[s].idx}]
    /\ pc' = [pc EXCEPT ![s] = IF out[s].err > MaxErrors THEN "resync_put" ELSE AfterPut(s)]
    /\ UNCHANGED <<ReceiveBlkNo, LastResponse, Errors, waits>>

\* Mutation: the block is not sent again.
RefusedKeeps(s) ==
    /\ Answered(s, {"nak"}, <<>>)
    /\ Errors' = [Errors EXCEPT ![s] = OneMore(@)]
    /\ waits' = [waits EXCEPT ![s] = 0]
    /\ UNCHANGED <<pc, SendBlkNo, ReceiveBlkNo, LastResponse, acked>>

\* NAK: send the block again.
SendRefused(s) ==
    /\ Answered(s, {"nak"}, <<out[s]>>)
    /\ Errors' = [Errors EXCEPT ![s] = OneMore(@)]
    /\ waits' = [waits EXCEPT ![s] = 0]
    /\ UNCHANGED <<pc, SendBlkNo, ReceiveBlkNo, LastResponse, acked>>

\* RLR: repeat the last response, then send the block again.
SendAsked(s) ==
    /\ Answered(s, {"rlr"}, <<Byte(LastResponse[s]), out[s]>>)
    /\ waits' = [waits EXCEPT ![s] = 0]
    /\ UNCHANGED <<pc, counters, acked>>

\* Anything else, a block of the peer included: discard until there is silence.
SendConfused(s) ==
    /\ Answered(s, {"block", "bad", "noise"}, <<>>)
    /\ pc' = [pc EXCEPT ![s] = "discarding"]
    /\ UNCHANGED <<counters, waits, acked>>

Discard(s) ==
    /\ pc[s] \in {"discarding"} \cup Resyncing /\ Incoming(s) # <<>>
    /\ Exchange(s, Tail(Incoming(s)), <<>>)
    /\ UNCHANGED <<pc, out, serving, counters, waits, faults, puts, acked, got>>

\* s asks for the last response.
AskAgain(s) ==
    /\ Exchange(s, Incoming(s), <<Byte("rlr")>>)
    /\ Errors' = [Errors EXCEPT ![s] = OneMore(@)]
    /\ UNCHANGED <<out, serving, SendBlkNo, ReceiveBlkNo, LastResponse, faults, puts, acked, got>>

Silence(s) == /\ pc[s] = "discarding" /\ Quiet(s)
              /\ AskAgain(s)
              /\ pc' = [pc EXCEPT ![s] = "sending"]
              /\ UNCHANGED waits

\* A wait of BlockSend ends without data.  It is longer than the silence that a
\* peer which discards is looking for.
Waited(s) == pc[s] = "sending" /\ Quiet(s) /\ pc[Peer(s)] # "discarding"

\* The time limit is not reached.
SendWaited(s) == /\ Waited(s)
                 /\ waits[s] < Patience \/ (Prompt /\ pc[Peer(s)] \notin Away \cup Gone)
                 /\ AskAgain(s)
                 /\ waits' = [waits EXCEPT ![s] = IF @ < Patience THEN @ + 1 ELSE @]
                 /\ UNCHANGED pc

\* The time limit: RemotePut fails.  The client's debugger gives up, the server
\* and a client that is disconnecting do not look at the result.
GiveUp(s) ==
    /\ Waited(s) /\ waits[s] >= Patience
    /\ Prompt => pc[Peer(s)] \in Gone
    /\ pc' = [pc EXCEPT ![s] = IF s = "server" THEN "receiving"
                               ELSE IF out[s].req = "bye" THEN "off" ELSE "failed"]
    /\ UNCHANGED <<out, serving, counters, waits, wire, faults, puts, acked, got>>

-----------------------------------------------------------------------------
(* WaitReceive, BlockReceive and RemoteGet.                                *)

\* s in WaitReceive takes a token, leaves rest and sends said.
Receives(s, toks, rest, said) ==
    /\ pc[s] = "receiving" /\ Hears(s, toks)
    /\ Exchange(s, rest, said)
    /\ UNCHANGED <<out, SendBlkNo, Errors, waits, faults, puts, acked>>

\* Mutation: a NAK is never taken back.
RespondOnce(s, answer) ==
    LastResponse' = [LastResponse EXCEPT ![s] = IF @ = "nak" THEN @ ELSE answer]

Respond(s, answer) == LastResponse' = [LastResponse EXCEPT ![s] = answer]

\* Mutations: every good block is taken, or the number is compared after it was
\* advanced.
AnyBlock(s, b) == TRUE
NextBlock(s, b) == b.no = NextNo(ReceiveBlkNo[s])

\* The block has the number that s expects next.
Expected(s, b) == b.no = ReceiveBlkNo[s]

\* The expected block: acknowledge it, and hand it up unless its err asks for a
\* ReSync, which throws its bytes away.
ReceiveBlock(s) ==
    /\ Hears(s, {"block"})
    /\ LET b == Head(Incoming(s))
       IN  /\ Receives(s, {"block"}, Tail(Incoming(s)), <<Byte("ack")>>)
           /\ Expected(s, b)
           /\ Respond(s, "ack")
           /\ ReceiveBlkNo' = [ReceiveBlkNo EXCEPT ![s] = NextNo(@)]
           /\ serving' = IF s = "server" THEN b ELSE serving
           /\ \/ /\ b.err > MaxErrors
                 /\ pc' = [pc EXCEPT ![s] = "resync_get"]
                 /\ UNCHANGED got
              \/ /\ b.err <= MaxErrors
                 /\ pc' = [pc EXCEPT ![s] = AfterGet(s)]
                 /\ got' = [got EXCEPT ![s] = Append(@, b.idx)]

\* A block with another number: acknowledge and forget it.
ReceiveOther(s) ==
    /\ Hears(s, {"block"})
    /\ \E rest \in ClearCom(Tail(Incoming(s))) : Receives(s, {"block"}, rest, <<Byte("ack")>>)
    /\ ~Expected(s, Head(Incoming(s)))
    /\ Respond(s, "ack")
    /\ UNCHANGED <<pc, serving, ReceiveBlkNo, got>>

\* A damaged block: ask for it again, or, when its length has become larger
\* than the buffer, clear the line and say nothing.
ReceiveBad(s) ==
    /\ Hears(s, {"bad"})
    /\ \/ /\ Receives(s, {"bad"}, Tail(Incoming(s)), <<Byte("nak")>>)
          /\ Respond(s, "nak")
       \/ /\ \E rest \in ClearCom(Tail(Incoming(s))) : Receives(s, {"bad"}, rest, <<>>)
          /\ UNCHANGED LastResponse
    /\ UNCHANGED <<pc, serving, ReceiveBlkNo, got>>

\* RLR is answered by NAK, whatever the last response was.
ReceiveAsked(s) ==
    /\ Receives(s, {"rlr"}, Tail(Incoming(s)), <<Byte("nak")>>)
    /\ UNCHANGED <<pc, serving, ReceiveBlkNo, LastResponse, got>>

ReceiveJunk(s) ==
    /\ Receives(s, {"ack", "nak", "noise"}, Tail(Incoming(s)), <<>>)
    /\ UNCHANGED <<pc, serving, ReceiveBlkNo, LastResponse, got>>

\* ReSync: the two sides find each other at another speed, the line cleared.
\* One side alone waits for ever.
ReSync ==
    /\ \A s \in Sides : pc[s] \in Resyncing
    /\ pc' = [s \in Sides |-> IF pc[s] = "resync_put" THEN AfterPut(s) ELSE AfterGet(s)]
    /\ wire' = [s \in Sides |-> <<>>]
    /\ UNCHANGED <<out, serving, counters, waits, faults, puts, acked, got>>

-----------------------------------------------------------------------------
(* The programs.                                                           *)

\* RemoteConnect on both sides.  It resets the counters, and the exchange of
\* the speed limits uses up block 0 of each side.
RemoteConnect ==
    /\ pc["client"] = "off" /\ pc["server"] = "listening"
    /\ pc' = [s \in Sides |-> IF s = "client" THEN "idle" ELSE "receiving"]
    /\ SendBlkNo' = [s \in Sides |-> 1 % CountMod]
    /\ ReceiveBlkNo' = [s \in Sides |-> 1 % CountMod]
    /\ LastResponse' = [s \in Sides |-> "ack"]
    /\ Errors' = [s \in Sides |-> 0] /\ waits' = [s \in Sides |-> 0]
    /\ wire' = [s \in Sides |-> <<>>] /\ faults' = 0
    /\ puts' = [s \in Sides |-> 0]
    /\ acked' = [s \in Sides |-> {}] /\ got' = [s \in Sides |-> <<>>]
    /\ out' = [s \in Sides |-> NoBlock] /\ serving' = NoBlock

\* Nothing is on the line and the server waits for the client: what went wrong
\* before has been repaired.
AtRest == pc["server"] = "receiving" /\ \A s \in Sides : wire[s] = <<>>

\* DoRequest: the client sends a request.
DoRequest(r) == /\ pc["client"] = "idle"
                /\ puts["client"] + 1 < MaxBlocks \/ r = "bye"
                /\ StartSend("client", r, 0)
                /\ faults' = IF AtRest THEN 0 ELSE faults
                /\ UNCHANGED serving

\* Session: the server has worked on the request (TrapAccess).  It answers,
\* waits for the next one, or goes back to RemoteConnect.
Session == /\ pc["server"] = "exec"
           /\ \/ /\ serving.req = "call"
                 /\ StartSend("server", "reply", serving.idx)
                 /\ UNCHANGED faults
              \/ /\ serving.req # "call"
                 /\ pc' = [pc EXCEPT !["server"] = IF serving.req = "bye" THEN "listening"
                                                   ELSE "receiving"]
                 /\ UNCHANGED <<out, counters, waits, wire, faults, puts, acked, got>>
           /\ UNCHANGED serving

-----------------------------------------------------------------------------
(* The wire.                                                               *)

Faulty(s, q) == /\ faults < MaxFaults
                /\ wire' = [wire EXCEPT ![s] = q]
                /\ faults' = faults + 1
                /\ UNCHANGED <<pc, out, serving, counters, waits, puts, acked, got>>

Lose(s) ==
    /\ wire[s] # <<>>
    /\ (IF Head(wire[s]).tok = "block" THEN "lose_block" ELSE "lose_answer") \in Faults
    /\ Faulty(s, Tail(wire[s]))

\* A damaged block fails the CRC, or is nothing if its STX is hit; so is a
\* damaged answer.
Damage(s) ==
    \E t \in {"bad", "noise"} :
        /\ wire[s] # <<>>
        /\ IF Head(wire[s]).tok = "block" THEN "damage_block" \in Faults
           ELSE t = "noise" /\ "damage_answer" \in Faults
        /\ Faulty(s, <<Byte(t)>> \o Tail(wire[s]))

-----------------------------------------------------------------------------
(* The specification.                                                      *)

LinkStep(s) == \/ SendAcked(s) \/ SendRefused(s) \/ SendAsked(s) \/ SendConfused(s)
               \/ Discard(s) \/ Silence(s) \/ SendWaited(s) \/ GiveUp(s)
               \/ ReceiveBlock(s) \/ ReceiveOther(s) \/ ReceiveBad(s)
               \/ ReceiveAsked(s) \/ ReceiveJunk(s)

Next == \/ \E s \in Sides : LinkStep(s) \/ Lose(s) \/ Damage(s)
        \/ ReSync \/ RemoteConnect \/ Session
        \/ \E r \in Requests : DoRequest(r)

Spec == Init /\ [][Next]_vars

\* Each side runs, and a request that was taken up is worked off.
FairSpec == /\ Spec
            /\ \A s \in Sides : WF_vars(LinkStep(s))
            /\ WF_vars(Session) /\ WF_vars(ReSync)
=============================================================================
