--------------------------- MODULE SerLinkProofs ----------------------------
(***************************************************************************)
(* Proofs about the serial link.  For every line and every pair of         *)
(* programs: its types, RepeatsAcks, and that blocks are handed up in order*)
(* and at most once as long as their numbers do not come round; in a       *)
(* session that is short enough for that, a reply answers the request the  *)
(* client has just sent.  For a line with one fault at a time and prompt   *)
(* programs: AckedDelivered and the refinement of ReliableLink.            *)
(***************************************************************************)
EXTENDS SerLinkProps, SequenceTheorems, FiniteSetTheorems, TLAPS

-----------------------------------------------------------------------------
(* Tokens and sequences of tokens.                                         *)

Blocks == [tok: {"block"}, no: 0 .. WireMod - 1, err: Nat,
           req: RequestKinds \cup {"reply"}, idx: Nat, re: Nat]
Plain == [tok: Answers \cup {"bad", "noise"}]
Tokens == Blocks \cup Plain

\* The blocks in a sequence of tokens.
BlocksOf(q) == {b \in Blocks : \E k \in DOMAIN q : q[k] = b}

\* Dropping tokens from the front of a line leaves what it has behind them.
LEMMA TailBlocks ==
    ASSUME NEW q \in Seq(Tokens), q # <<>>
    PROVE  /\ Tail(q) \in Seq(Tokens) /\ Head(q) \in Tokens
           /\ BlocksOf(Tail(q)) \subseteq BlocksOf(q)
           /\ Head(q).tok = "block" => Head(q) \in BlocksOf(q)
<1>1. Tail(q) \in Seq(Tokens) /\ Head(q) \in Tokens
  BY HeadTailProperties
<1>2. BlocksOf(Tail(q)) \subseteq BlocksOf(q)
  <2>. SUFFICES ASSUME NEW b \in Blocks, NEW k \in DOMAIN Tail(q), Tail(q)[k] = b
                PROVE  \E j \in DOMAIN q : q[j] = b
    BY DEF BlocksOf
  <2>1. k + 1 \in DOMAIN q /\ Tail(q)[k] = q[k + 1]
    OBVIOUS
  <2>. QED
    BY <2>1
<1>3. Head(q).tok = "block" => Head(q) \in BlocksOf(q)
  <2>1. 1 \in DOMAIN q /\ Head(q) = q[1]
    OBVIOUS
  <2>2. Head(q).tok = "block" => Head(q) \in Blocks
    BY <1>1 DEF Tokens, Plain, Answers
  <2>. QED
    BY <2>1, <2>2 DEF BlocksOf
<1>. QED
  BY <1>1, <1>2, <1>3

LEMMA ClearBlocks ==
    ASSUME NEW q \in Seq(Tokens), NEW rest \in ClearCom(q)
    PROVE  rest \in Seq(Tokens) /\ BlocksOf(rest) \subseteq BlocksOf(q)
<1>1. CASE rest = <<>>
  BY <1>1 DEF BlocksOf
<1>2. CASE \E k \in 0 .. Len(q) : rest = SubSeq(q, k + 1, Len(q))
  <2>1. PICK k \in 0 .. Len(q) : rest = SubSeq(q, k + 1, Len(q))
    BY <1>2
  <2>2. rest \in Seq(Tokens) /\ Len(rest) = Len(q) - k
    BY <2>1
  <2>3. \A j \in DOMAIN rest : k + j \in DOMAIN q /\ rest[j] = q[k + j]
    BY <2>1, <2>2
  <2>. QED
    BY <2>2, <2>3 DEF BlocksOf
<1>. QED
  BY <1>1, <1>2 DEF ClearCom

\* What is said after what is on a line.
LEMMA SaidBlocks ==
    ASSUME NEW q \in Seq(Tokens), NEW said \in Seq(Tokens)
    PROVE  /\ q \o said \in Seq(Tokens)
           /\ BlocksOf(q \o said) \subseteq BlocksOf(q) \cup BlocksOf(said)
<1>1. q \o said \in Seq(Tokens) /\ Len(q \o said) = Len(q) + Len(said)
  OBVIOUS
<1>2. ASSUME NEW k \in DOMAIN (q \o said)
      PROVE  \/ k \in DOMAIN q /\ (q \o said)[k] = q[k]
             \/ k - Len(q) \in DOMAIN said /\ (q \o said)[k] = said[k - Len(q)]
  BY <1>1
<1>. QED
  BY <1>1, <1>2 DEF BlocksOf

LEMMA Sayings ==
    ASSUME NEW t \in Answers \cup {"bad", "noise"}, NEW b \in Blocks
    PROVE  /\ <<>> \in Seq(Tokens) /\ BlocksOf(<<>>) = {}
           /\ <<Byte(t)>> \in Seq(Tokens) /\ BlocksOf(<<Byte(t)>>) = {}
           /\ <<b>> \in Seq(Tokens) /\ BlocksOf(<<b>>) = {b}
           /\ <<Byte(t), b>> \in Seq(Tokens) /\ BlocksOf(<<Byte(t), b>>) = {b}
<1>1. Byte(t) \in Tokens /\ Byte(t) \notin Blocks /\ b \in Tokens
  BY DEF Byte, Tokens, Plain, Blocks, Answers
<1>2. <<>> \in Seq(Tokens) /\ BlocksOf(<<>>) = {}
  BY DEF BlocksOf
<1>3. <<Byte(t)>> \in Seq(Tokens) /\ BlocksOf(<<Byte(t)>>) = {}
  BY <1>1 DEF BlocksOf
<1>4. <<b>> \in Seq(Tokens) /\ BlocksOf(<<b>>) = {b}
  BY <1>1 DEF BlocksOf
<1>5. <<Byte(t), b>> \in Seq(Tokens) /\ BlocksOf(<<Byte(t), b>>) = {b}
  <2>. DEFINE w == <<Byte(t), b>>
  <2>1. w \in Seq(Tokens) /\ DOMAIN w = {1, 2} /\ w[1] = Byte(t) /\ w[2] = b
    BY <1>1
  <2>. HIDE DEF w
  <2>. QED
    BY <1>1, <2>1 DEF BlocksOf
<1>. QED
  BY <1>2, <1>3, <1>4, <1>5

-----------------------------------------------------------------------------
(* Types.                                                                  *)

ProgramTyped == /\ pc \in [Sides -> Reading \cup Away \cup Gone]
                /\ out \in [Sides -> Blocks] /\ serving \in Blocks

CountersTyped == /\ SendBlkNo \in [Sides -> 0 .. CountMod - 1]
                 /\ ReceiveBlkNo \in [Sides -> 0 .. CountMod - 1]
                 /\ LastResponse \in [Sides -> {"ack", "nak"}]
                 /\ Errors \in [Sides -> 0 .. MaxErrors + 1]
                 /\ waits \in [Sides -> 0 .. Patience]

LineTyped == wire \in [Sides -> Seq(Tokens)] /\ faults \in 0 .. MaxFaults

\* A side that is in BlockSend has a block to send, so that what it counts as
\* acknowledged is a block it sent.
GhostsTyped == /\ puts \in [Sides -> Nat] /\ got \in [Sides -> Seq(Nat)]
               /\ acked \in [Sides -> SUBSET Nat]
               /\ \A s \in Sides : /\ out[s].idx <= puts[s] /\ acked[s] \subseteq 1 .. puts[s]
                                   /\ pc[s] \in PutPlaces => out[s].idx > 0

LinkTyped == ProgramTyped /\ CountersTyped /\ LineTyped /\ GhostsTyped

\* The typing invariant is at least as strong as the one the runs check.
LEMMA TypedOK == ASSUME LinkTyped PROVE LinkTypeOK
<1>1. ASSUME NEW s \in Sides, NEW k \in DOMAIN wire[s]
      PROVE  wire[s][k].tok \in {"block", "bad", "noise"} \cup Answers
  <2>1. wire[s] \in Seq(Tokens)
    BY DEF LinkTyped, LineTyped
  <2>2. wire[s][k] \in Tokens
    BY <2>1
  <2>. QED
    BY <2>2 DEF Tokens, Blocks, Plain
<1>2. \A s \in Sides : out[s].no \in 0 .. WireMod - 1
  BY DEF LinkTyped, ProgramTyped, Blocks
<1>. QED
  BY <1>1, <1>2 DEF LinkTyped, LinkTypeOK, ProgramTyped, CountersTyped, LineTyped, GhostsTyped

LEMMA Peers == \A s \in Sides : Peer(s) \in Sides /\ Peer(s) # s /\ Peer(Peer(s)) = s
BY DEF Sides, Peer

LEMMA NoBlockTyped == NoBlock \in Blocks /\ NoBlock.no = 0 /\ NoBlock.idx = 0
BY SerLinkAssumption DEF NoBlock, Block, Blocks, RequestKinds

\* What an exchange does to the two lines.
LEMMA Exchanged ==
    ASSUME LineTyped, NEW s \in Sides, NEW rest \in Seq(Tokens), NEW said \in Seq(Tokens),
           Exchange(s, rest, said)
    PROVE  /\ wire' \in [Sides -> Seq(Tokens)]
           /\ wire'[Peer(s)] = rest /\ wire'[s] = wire[s] \o said
<1>1. wire[s] \o said \in Seq(Tokens)
  BY SaidBlocks DEF LineTyped
<1>. QED
  BY <1>1, Peers DEF Exchange, LineTyped

LEMMA IncomingTyped ==
    ASSUME LineTyped, NEW s \in Sides
    PROVE  /\ Incoming(s) \in Seq(Tokens)
           /\ Incoming(s) # <<>> => /\ Tail(Incoming(s)) \in Seq(Tokens)
                                    /\ Head(Incoming(s)) \in Tokens
<1>1. Incoming(s) \in Seq(Tokens)
  BY Peers DEF LineTyped, Incoming
<1>. QED
  BY <1>1, TailBlocks

LEMMA NextNoTyped == \A n \in 0 .. CountMod - 1 : NextNo(n) \in 0 .. CountMod - 1
BY SerLinkAssumption DEF NextNo

LEMMA AfterTyped == \A s \in Sides : /\ AfterPut(s) \in {"receiving", "idle", "off"}
                                     /\ AfterGet(s) \in {"exec", "idle"}
BY DEF AfterPut, AfterGet

\* A side takes some tokens off the line and sends an answer, the block it is
\* sending, both or nothing: what there is between the two programs becomes no
\* more than it was.
Sayable(s) == {<<>>, <<out[s]>>} \cup {<<Byte(t)>> : t \in Answers}
                \cup {<<Byte(t), out[s]>> : t \in Answers}

Leavable(q) == {q} \cup (IF q = <<>> THEN {} ELSE {Tail(q)} \cup ClearCom(Tail(q)))

LEMMA Leavings ==
    ASSUME NEW q \in Seq(Tokens), NEW rest \in Leavable(q)
    PROVE  rest \in Seq(Tokens) /\ BlocksOf(rest) \subseteq BlocksOf(q)
<1>1. CASE rest = q
  BY <1>1
<1>2. CASE q # <<>> /\ rest = Tail(q)
  BY <1>2, TailBlocks
<1>3. CASE q # <<>> /\ rest \in ClearCom(Tail(q))
  <2>1. Tail(q) \in Seq(Tokens) /\ BlocksOf(Tail(q)) \subseteq BlocksOf(q)
    BY <1>3, TailBlocks
  <2>. QED
    BY <1>3, <2>1, ClearBlocks
<1>. QED
  BY <1>1, <1>2, <1>3 DEF Leavable

LEMMA Said ==
    ASSUME out \in [Sides -> Blocks], NEW s \in Sides, NEW said \in Sayable(s)
    PROVE  said \in Seq(Tokens) /\ BlocksOf(said) \subseteq {out[s]}
<1>1. out[s] \in Blocks
  OBVIOUS
<1>2. CASE said = <<>>
  BY <1>1, <1>2, Sayings DEF Answers
<1>3. CASE said = <<out[s]>>
  BY <1>1, <1>3, Sayings DEF Answers
<1>4. ASSUME NEW t \in Answers, said = <<Byte(t)>> \/ said = <<Byte(t), out[s]>>
      PROVE  said \in Seq(Tokens) /\ BlocksOf(said) \subseteq {out[s]}
  <2>1. /\ <<Byte(t)>> \in Seq(Tokens) /\ BlocksOf(<<Byte(t)>>) = {}
        /\ <<Byte(t), out[s]>> \in Seq(Tokens) /\ BlocksOf(<<Byte(t), out[s]>>) = {out[s]}
    BY <1>1, Sayings, Zenon
  <2>. QED
    BY <1>4, <2>1
<1>. QED
  BY <1>2, <1>3, <1>4 DEF Sayable

\* s has talked on the line: it left some of what its peer sent and sent no
\* block but the one it is sending.
Talk(s) == \E rest \in Leavable(Incoming(s)), said \in Sayable(s) : Exchange(s, rest, said)

LEMMA TalkTyped ==
    ASSUME LinkTyped, NEW s \in Sides, Talk(s)
    PROVE  /\ wire' \in [Sides -> Seq(Tokens)]
           /\ BlocksOf(wire'[s]) \subseteq BlocksOf(wire[s]) \cup {out[s]}
           /\ BlocksOf(wire'[Peer(s)]) \subseteq BlocksOf(wire[Peer(s)])
<1>1. PICK rest \in Leavable(Incoming(s)), said \in Sayable(s) : Exchange(s, rest, said)
  BY DEF Talk
<1>2. rest \in Seq(Tokens) /\ BlocksOf(rest) \subseteq BlocksOf(Incoming(s))
  BY IncomingTyped, Leavings DEF LinkTyped
<1>3. said \in Seq(Tokens) /\ BlocksOf(said) \subseteq {out[s]}
  BY Said DEF LinkTyped, ProgramTyped
<1>4. wire[s] \in Seq(Tokens)
  BY DEF LinkTyped, LineTyped
<1>5. BlocksOf(wire[s] \o said) \subseteq BlocksOf(wire[s]) \cup BlocksOf(said)
  BY <1>3, <1>4, SaidBlocks
<1>. QED
  BY <1>1, <1>2, <1>3, <1>5, Exchanged DEF LinkTyped, Incoming

\* Every step of a side but GiveUp is such a talk, and changes none of its
\* blocks.
LEMMA StepTalks ==
    ASSUME LinkTyped, NEW s \in Sides, LinkStep(s)
    PROVE  /\ Talk(s) \/ UNCHANGED wire
           /\ UNCHANGED <<out, puts, faults>>
<1>1. LastResponse[s] \in Answers
  BY DEF LinkTyped, CountersTyped, Answers
<1>2. ASSUME NEW toks, Hears(s, toks) PROVE Incoming(s) # <<>>
  BY <1>2 DEF Hears
<1>3. <<>> \in Sayable(s) /\ <<out[s]>> \in Sayable(s)
  BY DEF Sayable
<1>4. ASSUME NEW t \in Answers
      PROVE  <<Byte(t)>> \in Sayable(s) /\ <<Byte(t), out[s]>> \in Sayable(s)
  BY DEF Sayable
<1>5. Incoming(s) \in Leavable(Incoming(s))
  BY DEF Leavable
<1>6. Incoming(s) # <<>> => /\ Tail(Incoming(s)) \in Leavable(Incoming(s))
                            /\ ClearCom(Tail(Incoming(s))) \subseteq Leavable(Incoming(s))
  BY DEF Leavable
<1>7. CASE SendAcked(s)
  BY <1>2, <1>3, <1>6, <1>7 DEF SendAcked, Answered, Talk
<1>8. CASE SendRefused(s)
  BY <1>2, <1>3, <1>6, <1>8 DEF SendRefused, Answered, Talk
<1>9. CASE SendAsked(s)
  BY <1>1, <1>2, <1>4, <1>6, <1>9 DEF SendAsked, Answered, Talk
<1>10. CASE SendConfused(s)
  BY <1>2, <1>3, <1>6, <1>10 DEF SendConfused, Answered, Talk
<1>11. CASE Discard(s)
  BY <1>3, <1>6, <1>11 DEF Discard, Talk
<1>12. CASE Silence(s)
  BY <1>4, <1>5, <1>12 DEF Silence, AskAgain, Talk, Answers
<1>13. CASE SendWaited(s)
  BY <1>4, <1>5, <1>13 DEF SendWaited, AskAgain, Talk, Answers
<1>14. CASE GiveUp(s)
  BY <1>14 DEF GiveUp
<1>15. CASE ReceiveBlock(s)
  BY <1>2, <1>4, <1>6, <1>15 DEF ReceiveBlock, Receives, Talk, Answers
<1>16. CASE ReceiveOther(s)
  BY <1>2, <1>4, <1>6, <1>16 DEF ReceiveOther, Receives, Talk, Answers
<1>17. CASE ReceiveBad(s)
  BY <1>2, <1>3, <1>4, <1>6, <1>17 DEF ReceiveBad, Receives, Talk, Answers
<1>18. CASE ReceiveAsked(s)
  BY <1>2, <1>4, <1>6, <1>18 DEF ReceiveAsked, Receives, Talk, Answers
<1>19. CASE ReceiveJunk(s)
  BY <1>2, <1>3, <1>6, <1>19 DEF ReceiveJunk, Receives, Talk
<1>. QED
  BY <1>7, <1>8, <1>9, <1>10, <1>11, <1>12, <1>13, <1>14, <1>15, <1>16, <1>17, <1>18, <1>19
  DEF LinkStep

LEMMA StepLineTyped ==
    ASSUME LinkTyped, NEW s \in Sides, LinkStep(s)
    PROVE  LineTyped' /\ UNCHANGED <<out, puts>>
<1>1. wire' \in [Sides -> Seq(Tokens)]
  BY StepTalks, TalkTyped, Zenon DEF LinkTyped, LineTyped
<1>. QED
  BY <1>1, StepTalks DEF LinkTyped, LineTyped

\* The types after a step of a side.
LEMMA StepTyped ==
    ASSUME LinkTyped, NEW s \in Sides, LinkStep(s)
    PROVE  LinkTyped'
<1>1. LineTyped' /\ UNCHANGED <<out, puts>>
  BY StepLineTyped
<1>. USE <1>1 DEF LinkTyped, ProgramTyped, CountersTyped, GhostsTyped, counters,
                  Reading, PutPlaces, Resyncing, Away, Gone
<1>2. MaxErrors \in Nat /\ Patience \in Nat
  BY SerLinkAssumption
<1>3. \A n \in 0 .. MaxErrors + 1 : OneMore(n) \in 0 .. MaxErrors + 1
  BY <1>2 DEF OneMore
<1>4. CASE SendAcked(s)
  <2>1. out[s].idx \in 1 .. puts[s]
    BY <1>4 DEF SendAcked, Answered, Blocks
  <2>2. ProgramTyped'
    BY <1>4, AfterTyped DEF SendAcked, Answered
  <2>3. CountersTyped'
    BY <1>4, NextNoTyped DEF SendAcked, Answered
  <2>4. pc' \in [Sides -> Reading \cup Away \cup Gone] /\ pc'[s] \notin PutPlaces
    BY <1>4, AfterTyped DEF SendAcked, Answered
  <2>5. GhostsTyped'
    BY <1>4, <2>1, <2>4, SMTT(30) DEF SendAcked, Answered
  <2>. QED
    BY <2>2, <2>3, <2>5
<1>5. CASE SendRefused(s)
  <2>1. ProgramTyped' /\ GhostsTyped'
    BY <1>5 DEF SendRefused, Answered
  <2>2. CountersTyped'
    BY <1>2, <1>3, <1>5, SMTT(30) DEF SendRefused, Answered
  <2>. QED
    BY <2>1, <2>2
<1>6. CASE SendAsked(s)
  BY <1>2, <1>6 DEF SendAsked, Answered
<1>7. CASE SendConfused(s)
  BY <1>7 DEF SendConfused, Answered
<1>8. CASE Discard(s)
  BY <1>8 DEF Discard
<1>9. CASE Silence(s)
  BY <1>3, <1>9 DEF Silence, AskAgain
<1>10. CASE SendWaited(s)
  <2>1. ProgramTyped' /\ GhostsTyped'
    BY <1>10 DEF SendWaited, Waited, AskAgain
  <2>2. (IF waits[s] < Patience THEN waits[s] + 1 ELSE waits[s]) \in 0 .. Patience
    BY <1>2
  <2>3. waits' \in [Sides -> 0 .. Patience]
    BY <1>10, <2>2 DEF SendWaited
  <2>4. Errors' \in [Sides -> 0 .. MaxErrors + 1]
    BY <1>3, <1>10 DEF SendWaited, AskAgain
  <2>5. UNCHANGED <<SendBlkNo, ReceiveBlkNo, LastResponse>>
    BY <1>10 DEF SendWaited, AskAgain
  <2>. QED
    BY <2>1, <2>3, <2>4, <2>5
<1>11. CASE GiveUp(s)
  BY <1>11 DEF GiveUp
<1>12. CASE ReceiveBlock(s)
  <2>. DEFINE b == Head(Incoming(s))
  <2>1. b \in Blocks
    BY <1>12, IncomingTyped DEF ReceiveBlock, Hears, Tokens, Plain, Answers
  <2>2. Append(got[s], b.idx) \in Seq(Nat)
    BY <2>1, SMTT(30) DEF Blocks
  <2>3. pc' \in [Sides -> Reading \cup Away \cup Gone] /\ pc'[s] \notin PutPlaces
        /\ \A t \in Sides : t # s => pc'[t] = pc[t]
    BY <1>12, AfterTyped DEF ReceiveBlock, Receives
  <2>4. ProgramTyped'
    BY <1>12, <2>1, <2>3 DEF ReceiveBlock, Receives
  <2>5. CountersTyped'
    BY <1>12, NextNoTyped DEF ReceiveBlock, Receives, Respond
  <2>6. got' \in [Sides -> Seq(Nat)]
    BY <1>12, <2>2, ZenonT(30) DEF ReceiveBlock, Receives
  <2>7. GhostsTyped'
    BY <1>12, <2>3, <2>6 DEF ReceiveBlock, Receives
  <2>. QED
    BY <2>4, <2>5, <2>7
<1>13. CASE ReceiveOther(s)
  BY <1>13 DEF ReceiveOther, Receives, Respond
<1>14. CASE ReceiveBad(s)
  BY <1>14 DEF ReceiveBad, Receives, Respond
<1>15. CASE ReceiveAsked(s)
  BY <1>15 DEF ReceiveAsked, Receives
<1>16. CASE ReceiveJunk(s)
  BY <1>16 DEF ReceiveJunk, Receives
<1>. QED
  BY <1>4, <1>5, <1>6, <1>7, <1>8, <1>9, <1>10, <1>11, <1>12, <1>13, <1>14, <1>15, <1>16
  DEF LinkStep

\* A new block, numbered and typed.
LEMMA StartTyped ==
    ASSUME LinkTyped, NEW s \in Sides, NEW r \in RequestKinds \cup {"reply"}, NEW re \in Nat,
           StartSend(s, r, re), UNCHANGED serving, faults' \in 0 .. MaxFaults
    PROVE  /\ LinkTyped'
           /\ out' = [out EXCEPT ![s] = Block(SendBlkNo[s] % WireMod, Errors[s], r, puts[s] + 1, re)]
           /\ out'[s] \in Blocks
           /\ BlocksOf(wire'[s]) \subseteq BlocksOf(wire[s]) \cup {out'[s]}
           /\ BlocksOf(wire'[Peer(s)]) \subseteq BlocksOf(wire[Peer(s)])
<1>. DEFINE b == Block(SendBlkNo[s] % WireMod, Errors[s], r, puts[s] + 1, re)
<1>1. b \in Blocks /\ b.idx = puts[s] + 1
  BY SerLinkAssumption, SMTT(30) DEF LinkTyped, CountersTyped, GhostsTyped, Block, Blocks
<1>2. PICK rest \in ClearCom(Incoming(s)) : Exchange(s, rest, <<b>>)
  BY DEF StartSend
<1>3. rest \in Seq(Tokens) /\ BlocksOf(rest) \subseteq BlocksOf(Incoming(s))
  BY IncomingTyped, ClearBlocks DEF LinkTyped
<1>4. <<b>> \in Seq(Tokens) /\ BlocksOf(<<b>>) = {b}
  BY <1>1, Sayings DEF Answers
<1>. HIDE DEF b
<1>5. /\ out' = [out EXCEPT ![s] = b] /\ puts' = [puts EXCEPT ![s] = @ + 1]
      /\ Errors' = [Errors EXCEPT ![s] = 0] /\ waits' = [waits EXCEPT ![s] = 0]
      /\ pc' = [pc EXCEPT ![s] = "sending"]
      /\ UNCHANGED <<SendBlkNo, ReceiveBlkNo, LastResponse, acked, got>>
  BY DEF StartSend, b
<1>6. /\ wire' \in [Sides -> Seq(Tokens)]
      /\ wire'[Peer(s)] = rest /\ wire'[s] = wire[s] \o <<b>>
  BY <1>2, <1>3, <1>4, Exchanged DEF LinkTyped
<1>7. BlocksOf(wire[s] \o <<b>>) \subseteq BlocksOf(wire[s]) \cup {b}
  BY <1>4, SaidBlocks DEF LinkTyped, LineTyped
<1>8. ProgramTyped' /\ LineTyped'
  BY <1>1, <1>5, <1>6 DEF LinkTyped, ProgramTyped, LineTyped, Reading, PutPlaces
<1>9. CountersTyped'
  BY <1>5, SerLinkAssumption DEF LinkTyped, CountersTyped
<1>10. GhostsTyped'
  <2>1. /\ puts' \in [Sides -> Nat] /\ puts'[s] = puts[s] + 1 /\ out'[s].idx = puts[s] + 1
        /\ \A t \in Sides : t # s => puts'[t] = puts[t] /\ out'[t] = out[t] /\ pc'[t] = pc[t]
    BY <1>1, <1>5 DEF LinkTyped, ProgramTyped, GhostsTyped
  <2>2. puts[s] \in Nat /\ acked[s] \subseteq 1 .. puts[s]
    BY DEF LinkTyped, GhostsTyped
  <2>3. 1 .. puts[s] \subseteq 1 .. puts[s] + 1
    BY <2>2
  <2>. QED
    BY <1>5, <2>1, <2>2, <2>3 DEF LinkTyped, GhostsTyped
<1>. QED
  BY <1>1, <1>3, <1>5, <1>6, <1>7, <1>8, <1>9, <1>10
  DEF LinkTyped, ProgramTyped, Incoming, b

\* The wire adds no block to a line.
LEMMA FaultTyped ==
    ASSUME LinkTyped, NEW s \in Sides, Lose(s) \/ Damage(s)
    PROVE  /\ LinkTyped'
           /\ \A t \in Sides : BlocksOf(wire'[t]) \subseteq BlocksOf(wire[t])
           /\ UNCHANGED <<pc, out, serving, counters, waits, puts, acked, got>>
<1>. DEFINE Lessened(q) == q \in Seq(Tokens) /\ BlocksOf(q) \subseteq BlocksOf(wire[s])
<1>1. wire[s] \in Seq(Tokens) /\ wire[s] # <<>>
  BY DEF LinkTyped, LineTyped, Lose, Damage
<1>2. Lessened(Tail(wire[s]))
  BY <1>1, TailBlocks
<1>3. ASSUME NEW t \in {"bad", "noise"}
      PROVE  Lessened(<<Byte(t)>> \o Tail(wire[s]))
  <2>1. <<Byte(t)>> \in Seq(Tokens) /\ BlocksOf(<<Byte(t)>>) = {}
    BY NoBlockTyped, Sayings, Zenon
  <2>. QED
    BY <1>2, <2>1, SaidBlocks
<1>4. PICK q : Lessened(q) /\ Faulty(s, q)
  BY <1>2, <1>3 DEF Lose, Damage
<1>. HIDE DEF Lessened
<1>5. /\ wire' = [wire EXCEPT ![s] = q]
      /\ faults' \in 0 .. MaxFaults
      /\ UNCHANGED <<pc, out, serving, counters, waits, puts, acked, got>>
  BY <1>4, SerLinkAssumption DEF Faulty, LinkTyped, LineTyped
<1>6. LineTyped' /\ \A t \in Sides : BlocksOf(wire'[t]) \subseteq BlocksOf(wire[t])
  BY <1>4, <1>5 DEF LinkTyped, LineTyped, Lessened
<1>7. ProgramTyped' /\ CountersTyped' /\ GhostsTyped'
  BY <1>5 DEF LinkTyped, ProgramTyped, CountersTyped, GhostsTyped, counters
<1>. QED
  BY <1>5, <1>6, <1>7 DEF LinkTyped

LEMMA ReSyncTyped == ASSUME LinkTyped, ReSync PROVE LinkTyped'
<1>1. wire' \in [Sides -> Seq(Tokens)]
  BY DEF ReSync
<1>2. /\ pc' \in [Sides -> {"receiving", "idle", "off", "exec"}]
  BY AfterTyped DEF ReSync
<1>. QED
  BY <1>1, <1>2 DEF ReSync, LinkTyped, ProgramTyped, CountersTyped, LineTyped, GhostsTyped, counters,
                    Reading, PutPlaces, Away, Gone

LEMMA ConnectTyped == ASSUME RemoteConnect PROVE LinkTyped'
<1>1. ProgramTyped'
  BY NoBlockTyped DEF RemoteConnect, ProgramTyped, Reading, Away
<1>2. CountersTyped'
  BY SerLinkAssumption DEF RemoteConnect, CountersTyped
<1>3. LineTyped'
  BY SerLinkAssumption DEF RemoteConnect, LineTyped
<1>4. GhostsTyped'
  BY NoBlockTyped DEF RemoteConnect, GhostsTyped, PutPlaces
<1>. QED
  BY <1>1, <1>2, <1>3, <1>4 DEF LinkTyped

LEMMA InitTyped == ASSUME Init PROVE LinkTyped
<1>1. ProgramTyped
  BY NoBlockTyped DEF Init, ProgramTyped, Gone
<1>2. CountersTyped
  BY SerLinkAssumption DEF Init, CountersTyped
<1>3. LineTyped
  BY SerLinkAssumption DEF Init, LineTyped
<1>4. GhostsTyped
  BY NoBlockTyped DEF Init, GhostsTyped, PutPlaces
<1>. QED
  BY <1>1, <1>2, <1>3, <1>4 DEF LinkTyped

\* The two programs begin to send, with a request or with a reply.
LEMMA Begins ==
    ASSUME LinkTyped, (\E r \in Requests : DoRequest(r)) \/ Session
    PROVE  \/ /\ UNCHANGED <<out, counters, waits, wire, faults, puts, acked, got, serving>>
              /\ pc' = [pc EXCEPT !["server"] = IF serving.req = "bye" THEN "listening"
                                                ELSE "receiving"]
           \/ \E s \in Sides, r \in RequestKinds \cup {"reply"}, re \in Nat :
                 /\ pc[s] \in Away
                 /\ StartSend(s, r, re) /\ UNCHANGED serving /\ faults' \in 0 .. MaxFaults
<1>1. ASSUME NEW r \in Requests, DoRequest(r)
      PROVE  /\ StartSend("client", r, 0) /\ UNCHANGED serving /\ faults' \in 0 .. MaxFaults
             /\ pc["client"] \in Away
  BY <1>1, SerLinkAssumption DEF DoRequest, LinkTyped, LineTyped, Away
<1>2. serving.idx \in Nat
  BY DEF LinkTyped, ProgramTyped, Blocks
<1>. QED
  BY <1>1, <1>2, SerLinkAssumption DEF Session, Sides, LinkTyped, LineTyped, Away

LEMMA WorkedTyped ==
    ASSUME LinkTyped,
           UNCHANGED <<out, counters, waits, wire, faults, puts, acked, got, serving>>,
           pc' = [pc EXCEPT !["server"] = IF serving.req = "bye" THEN "listening"
                                          ELSE "receiving"]
    PROVE  LinkTyped'
BY DEF LinkTyped, ProgramTyped, CountersTyped, LineTyped, GhostsTyped, counters,
       Reading, PutPlaces, Gone

LEMMA NextTyped == ASSUME LinkTyped, [Next]_vars PROVE LinkTyped'
<1>1. ASSUME NEW s \in Sides, LinkStep(s) \/ Lose(s) \/ Damage(s) PROVE LinkTyped'
  BY <1>1, StepTyped, FaultTyped
<1>2. CASE ReSync
  BY <1>2, ReSyncTyped
<1>3. CASE RemoteConnect
  BY <1>3, ConnectTyped
<1>4. CASE (\E r \in Requests : DoRequest(r)) \/ Session
  BY <1>4, Begins, WorkedTyped, StartTyped, Zenon
<1>5. CASE UNCHANGED vars
  BY <1>5 DEF vars, counters, LinkTyped, ProgramTyped, CountersTyped, LineTyped, GhostsTyped
<1>. QED
  BY <1>1, <1>2, <1>3, <1>4, <1>5 DEF Next

\* The places, counters, blocks and lines of both sides keep their types, and
\* BlockSend reports only blocks that were passed to it as acknowledged.
THEOREM LinkTypesCorrect == Spec => []LinkTypeOK
<1>1. Init => LinkTyped
  BY InitTyped
<1>2. LinkTyped /\ [Next]_vars => LinkTyped'
  BY NextTyped
<1>3. LinkTyped => LinkTypeOK
  BY TypedOK
<1>. QED
  BY <1>1, <1>2, <1>3, PTL DEF Spec

-----------------------------------------------------------------------------
(* The last response of a side that does not wait for a block.             *)

\* Only a side that waits for a block can owe its peer a repetition.
HasAcked == \A s \in Sides : pc[s] \in PutPlaces \cup Resyncing \cup Away => LastResponse[s] = "ack"

LEMMA StepAcked ==
    ASSUME LinkTyped, HasAcked, NEW s \in Sides, LinkStep(s)
    PROVE  HasAcked'
<1>. USE DEF LinkTyped, ProgramTyped, CountersTyped, HasAcked, counters,
             Reading, PutPlaces, Resyncing, Away, Gone
<1>1. CASE SendAcked(s)
  BY <1>1, AfterTyped DEF SendAcked, Answered
<1>2. CASE SendRefused(s) \/ SendAsked(s) \/ SendConfused(s) \/ Discard(s)
  BY <1>2 DEF SendRefused, SendAsked, SendConfused, Discard, Answered
<1>3. CASE Silence(s) \/ SendWaited(s)
  BY <1>3 DEF Silence, SendWaited, Waited, AskAgain
<1>4. CASE GiveUp(s)
  BY <1>4 DEF GiveUp
<1>5. CASE ReceiveBlock(s)
  BY <1>5, AfterTyped DEF ReceiveBlock, Receives, Respond
<1>6. CASE ReceiveOther(s)
  BY <1>6 DEF ReceiveOther, Receives, Respond
<1>7. CASE ReceiveBad(s)
  BY <1>7 DEF ReceiveBad, Receives, Respond
<1>8. CASE ReceiveAsked(s) \/ ReceiveJunk(s)
  BY <1>8 DEF ReceiveAsked, ReceiveJunk, Receives
<1>. QED
  BY <1>1, <1>2, <1>3, <1>4, <1>5, <1>6, <1>7, <1>8 DEF LinkStep

LEMMA StartAcked ==
    ASSUME LinkTyped, HasAcked, NEW s \in Sides, NEW r, NEW re, pc[s] \in Away, StartSend(s, r, re)
    PROVE  HasAcked'
BY DEF StartSend, LinkTyped, ProgramTyped, CountersTyped, HasAcked,
       Reading, PutPlaces, Resyncing, Away, Gone

LEMMA NextAcked == ASSUME LinkTyped, HasAcked, [Next]_vars PROVE HasAcked'
<1>1. ASSUME NEW s \in Sides, LinkStep(s) PROVE HasAcked'
  BY <1>1, StepAcked
<1>2. ASSUME NEW s \in Sides, Lose(s) \/ Damage(s) PROVE HasAcked'
  BY <1>2, FaultTyped DEF counters, HasAcked
<1>3. CASE ReSync
  BY <1>3 DEF ReSync, counters, HasAcked, Resyncing
<1>4. CASE RemoteConnect
  BY <1>4 DEF RemoteConnect, HasAcked
<1>5. CASE (\E r \in Requests : DoRequest(r)) \/ Session
  <2>1. CASE /\ UNCHANGED <<out, counters, waits, wire, faults, puts, acked, got, serving>>
             /\ pc' = [pc EXCEPT !["server"] = IF serving.req = "bye" THEN "listening"
                                               ELSE "receiving"]
    BY <2>1 DEF counters, LinkTyped, ProgramTyped, HasAcked, PutPlaces, Resyncing, Away
  <2>. QED
    BY <1>5, <2>1, Begins, StartAcked, Zenon
<1>6. CASE UNCHANGED vars
  BY <1>6 DEF vars, counters, HasAcked
<1>. QED
  BY <1>1, <1>2, <1>3, <1>4, <1>5, <1>6 DEF Next

\* A side that answers RLR while it is sending never answers with a NAK, which
\* would make its peer send a block that nobody waits for.
THEOREM AlwaysRepeatsAcks == Spec => []RepeatsAcks
<1>1. Init => LinkTyped /\ HasAcked
  BY InitTyped DEF Init, HasAcked, PutPlaces, Resyncing, Away
<1>2. LinkTyped /\ HasAcked /\ [Next]_vars => (LinkTyped /\ HasAcked)'
  BY NextTyped, NextAcked
<1>3. HasAcked => RepeatsAcks
  BY DEF HasAcked, RepeatsAcks
<1>. QED
  BY <1>1, <1>2, <1>3, PTL DEF Spec

-----------------------------------------------------------------------------
(* The order of the blocks.  A number says which of two blocks is older as *)
(* long as neither the counters nor their field on the wire come round.    *)

NoReuse == \A s \in Sides : puts[s] + 1 < CountMod /\ puts[s] + 1 < WireMod

\* What the peer of s can still receive from s.
Carried(s) == BlocksOf(wire[s]) \cup {out[s]}

\* Blocks of s with larger numbers were sent later.  Two blocks have the same
\* number if BlockSend gave up on the first.
Numbered(s) ==
    /\ SendBlkNo[s] <= (IF pc[s] \in PutPlaces THEN puts[s] ELSE puts[s] + 1)
    /\ \A b \in Carried(s) : b.no <= puts[s] /\ b.idx <= puts[s] /\ b.no <= SendBlkNo[s]
    /\ \A b, c \in Carried(s) : b.no < c.no => b.idx < c.idx

\* What the peer of s has handed up is older than what it will still take.
HandedUp(s) ==
    LET p == Peer(s)
    IN  /\ \A k \in DOMAIN got[p] : got[p][k] <= puts[s]
        /\ \A b \in Carried(s), k \in DOMAIN got[p] :
              b.no >= ReceiveBlkNo[p] => got[p][k] < b.idx
        /\ \A i, j \in DOMAIN got[p] : i < j => got[p][i] < got[p][j]

Ordered == \A s \in Sides : Numbered(s) /\ HandedUp(s)

\* What can be said of the blocks that are carried without looking at them.
LEMMA CarriedTyped ==
    ASSUME LinkTyped, NEW s \in Sides, NEW b \in Carried(s)
    PROVE  b \in Blocks /\ b.no \in Nat /\ b.idx \in Nat /\ b.no < WireMod
<1>1. b \in Blocks
  BY DEF Carried, BlocksOf, LinkTyped, ProgramTyped
<1>. QED
  BY <1>1, SerLinkAssumption DEF Blocks

\* No block and no number is new.
LEMMA KeptOrder ==
    ASSUME LinkTyped, Ordered, UNCHANGED <<puts, got, SendBlkNo, ReceiveBlkNo>>,
           \A s \in Sides : Carried(s)' \subseteq Carried(s),
           \A s \in Sides : pc'[s] \in PutPlaces => pc[s] \in PutPlaces
    PROVE  Ordered'
<1>. SUFFICES ASSUME NEW s \in Sides PROVE Numbered(s)' /\ HandedUp(s)'
  BY DEF Ordered
<1>1. Numbered(s) /\ HandedUp(s)
  BY DEF Ordered
<1>2. Numbered(s)'
  BY <1>1 DEF Numbered, LinkTyped, CountersTyped, GhostsTyped
<1>3. HandedUp(s)'
  BY <1>1, Peers DEF HandedUp
<1>. QED
  BY <1>2, <1>3

\* BlockSend is done: the next block has a larger number.
LEMMA AckedOrder ==
    ASSUME LinkTyped, Ordered, NoReuse, NEW s \in Sides, SendAcked(s),
           \A t \in Sides : Carried(t)' \subseteq Carried(t)
    PROVE  Ordered'
<1>1. /\ SendBlkNo[s] \in Nat /\ puts[s] \in Nat /\ CountMod \in Nat
      /\ SendBlkNo[s] <= puts[s] /\ puts[s] + 1 < CountMod
  BY SerLinkAssumption DEF LinkTyped, CountersTyped, GhostsTyped, Ordered, Numbered, NoReuse,
                           SendAcked, Answered, PutPlaces
<1>2. NextNo(SendBlkNo[s]) = SendBlkNo[s] + 1
  BY <1>1 DEF NextNo
<1>3. /\ SendBlkNo' = [SendBlkNo EXCEPT ![s] = SendBlkNo[s] + 1]
      /\ UNCHANGED <<puts, got, ReceiveBlkNo>>
  BY <1>2 DEF SendAcked, Answered
<1>4. /\ pc'[s] \notin PutPlaces
      /\ \A t \in Sides : t # s => pc'[t] = pc[t]
  BY AfterTyped DEF SendAcked, Answered, LinkTyped, ProgramTyped, PutPlaces
<1>. SUFFICES ASSUME NEW t \in Sides PROVE Numbered(t)' /\ HandedUp(t)'
  BY DEF Ordered
<1>5. Numbered(t) /\ HandedUp(t) /\ Carried(t)' \subseteq Carried(t)
  BY DEF Ordered
<1>6. SendBlkNo'[t] \in Nat /\ SendBlkNo[t] \in Nat /\ SendBlkNo[t] <= SendBlkNo'[t]
  BY <1>1, <1>3 DEF LinkTyped, CountersTyped
<1>7. SendBlkNo'[t] <= (IF pc'[t] \in PutPlaces THEN puts'[t] ELSE puts'[t] + 1)
  BY <1>1, <1>3, <1>4, <1>5 DEF Numbered, LinkTyped, CountersTyped
<1>8. \A b \in Carried(t) : b.no \in Nat
  BY CarriedTyped
<1>9. Numbered(t)'
  BY <1>3, <1>5, <1>6, <1>7, <1>8 DEF Numbered
<1>10. HandedUp(t)'
  BY <1>3, <1>5, Peers DEF HandedUp
<1>. QED
  BY <1>9, <1>10

\* A new block has the largest number and is the last one.
LEMMA StartOrder ==
    ASSUME LinkTyped, LinkTyped', Ordered, NoReuse', NEW s \in Sides, NEW r, NEW re,
           pc[s] \in Away, StartSend(s, r, re),
           out' = [out EXCEPT ![s] = Block(SendBlkNo[s] % WireMod, Errors[s], r, puts[s] + 1, re)],
           BlocksOf(wire'[s]) \subseteq BlocksOf(wire[s]) \cup {out'[s]},
           BlocksOf(wire'[Peer(s)]) \subseteq BlocksOf(wire[Peer(s)])
    PROVE  Ordered'
<1>. DEFINE b == out'[s]
<1>1. SendBlkNo[s] % WireMod = SendBlkNo[s] /\ SendBlkNo[s] \in Nat
  <2>1. /\ SendBlkNo[s] \in Nat /\ puts[s] \in Nat /\ WireMod \in Nat
        /\ SendBlkNo[s] <= puts[s] + 1 /\ puts'[s] = puts[s] + 1 /\ puts'[s] + 1 < WireMod
    BY SerLinkAssumption DEF LinkTyped, CountersTyped, GhostsTyped, Ordered, Numbered, NoReuse,
                             StartSend, Away, PutPlaces
  <2>. QED
    BY <2>1
<1>2. b.no = SendBlkNo[s] /\ b.idx = puts[s] + 1
  BY <1>1 DEF Block, LinkTyped, ProgramTyped
<1>3. /\ puts' = [puts EXCEPT ![s] = puts[s] + 1]
      /\ UNCHANGED <<got, SendBlkNo, ReceiveBlkNo>>
      /\ pc'[s] \in PutPlaces /\ \A t \in Sides : t # s => pc'[t] = pc[t]
  BY DEF StartSend, PutPlaces, LinkTyped, ProgramTyped
<1>4. Carried(s)' \subseteq Carried(s) \cup {b}
  BY DEF Carried
<1>5. Carried(Peer(s))' \subseteq Carried(Peer(s))
  BY Peers DEF Carried, LinkTyped, ProgramTyped
<1>6. puts[s] \in Nat /\ puts'[s] = puts[s] + 1
  BY <1>3 DEF LinkTyped, GhostsTyped
<1>7. \A c \in Carried(s) : c.no \in Nat /\ c.idx \in Nat
  BY CarriedTyped
<1>8. Numbered(s) /\ HandedUp(s) /\ pc[s] \notin PutPlaces
  BY DEF Ordered, Away, PutPlaces
<1>. HIDE DEF b
<1>9. Numbered(s)'
  BY <1>1, <1>2, <1>3, <1>4, <1>6, <1>7, <1>8 DEF Numbered
<1>10. \A k \in DOMAIN got[Peer(s)] : got[Peer(s)][k] \in Nat
  BY Peers DEF LinkTyped, GhostsTyped
<1>11. HandedUp(s)'
  BY <1>2, <1>3, <1>4, <1>6, <1>8, <1>10 DEF HandedUp
<1>12. Numbered(Peer(s))' /\ HandedUp(Peer(s))'
  BY <1>3, <1>5, Peers DEF Ordered, Numbered, HandedUp
<1>. QED
  BY <1>9, <1>11, <1>12 DEF Ordered, Sides, Peer

\* No step of a side puts a block on its line but the one it is sending.
LEMMA StepCarries ==
    ASSUME LinkTyped, NEW s \in Sides, LinkStep(s)
    PROVE  UNCHANGED <<out, puts>> /\ \A t \in Sides : Carried(t)' \subseteq Carried(t)
<1>1. (Talk(s) \/ UNCHANGED wire) /\ UNCHANGED <<out, puts>>
  BY StepTalks
<1>2. CASE UNCHANGED wire
  BY <1>1, <1>2 DEF Carried
<1>3. CASE Talk(s)
  <2>1. /\ BlocksOf(wire'[s]) \subseteq BlocksOf(wire[s]) \cup {out[s]}
        /\ BlocksOf(wire'[Peer(s)]) \subseteq BlocksOf(wire[Peer(s)])
    BY <1>3, TalkTyped
  <2>. QED
    BY <1>1, <2>1 DEF Carried, Sides, Peer
<1>. QED
  BY <1>1, <1>2, <1>3

\* The block that ends a wait has the number that was expected, and the next
\* one is larger.
LEMMA TakenBlock ==
    ASSUME LinkTyped, Ordered, NoReuse, NEW s \in Sides, ReceiveBlock(s)
    PROVE  LET b == Head(Incoming(s))
           IN  /\ b \in Carried(Peer(s)) /\ b.no = ReceiveBlkNo[s]
               /\ b.no \in Nat /\ b.idx \in Nat /\ b.idx <= puts[Peer(s)]
               /\ ReceiveBlkNo' = [ReceiveBlkNo EXCEPT ![s] = b.no + 1]
<1>. DEFINE p == Peer(s)
            b == Head(Incoming(s))
<1>1. p \in Sides /\ Peer(p) = s /\ p # s
  BY Peers
<1>2. b \in Carried(p)
  BY <1>1, TailBlocks DEF ReceiveBlock, Hears, Incoming, Carried, LinkTyped, LineTyped
<1>3. /\ b.no = ReceiveBlkNo[s] /\ b.no \in Nat /\ b.idx \in Nat
      /\ b.no <= puts[p] /\ b.idx <= puts[p] /\ puts[p] \in Nat
      /\ puts[p] + 1 < CountMod /\ CountMod \in Nat
  BY <1>1, <1>2, CarriedTyped, SerLinkAssumption
  DEF ReceiveBlock, Expected, Ordered, Numbered, NoReuse, LinkTyped, GhostsTyped
<1>4. NextNo(ReceiveBlkNo[s]) = b.no + 1
  BY <1>3 DEF NextNo
<1>. QED
  BY <1>2, <1>3, <1>4 DEF ReceiveBlock, Receives

\* A block is handed up: what its peer still carries with a number that will be
\* taken was sent after it.
LEMMA ReceivedOrder ==
    ASSUME LinkTyped, Ordered, NoReuse, NEW s \in Sides, ReceiveBlock(s),
           UNCHANGED <<out, puts>>,
           \A t \in Sides : Carried(t)' \subseteq Carried(t)
    PROVE  Ordered'
<1>. DEFINE p == Peer(s)
            b == Head(Incoming(s))
<1>1. p \in Sides /\ Peer(p) = s /\ p # s
  BY Peers
<1>2. b \in Carried(p)
  BY TakenBlock
<1>3. b.no = ReceiveBlkNo[s] /\ b.no \in Nat /\ b.idx \in Nat /\ b.idx <= puts[p]
  BY TakenBlock
<1>4. puts[p] \in Nat
  BY <1>1 DEF LinkTyped, GhostsTyped
<1>5. /\ ReceiveBlkNo' = [ReceiveBlkNo EXCEPT ![s] = b.no + 1]
      /\ got' = got \/ got' = [got EXCEPT ![s] = Append(@, b.idx)]
      /\ UNCHANGED SendBlkNo
  BY TakenBlock DEF ReceiveBlock, Receives
<1>6. \A t \in Sides : pc'[t] \in PutPlaces => pc[t] \in PutPlaces
  BY AfterTyped DEF ReceiveBlock, Receives, LinkTyped, ProgramTyped, PutPlaces
<1>7. Numbered(s) /\ HandedUp(s) /\ Numbered(p) /\ HandedUp(p)
  BY <1>1 DEF Ordered
<1>. HIDE DEF b
<1>8. Numbered(s)' /\ Numbered(p)'
  <2>1. ASSUME NEW t \in Sides, Numbered(t)
        PROVE  Numbered(t)'
    <3>1. /\ puts'[t] = puts[t] /\ SendBlkNo'[t] = SendBlkNo[t]
          /\ puts[t] \in Nat /\ SendBlkNo[t] \in Nat
          /\ pc'[t] \in PutPlaces => pc[t] \in PutPlaces
      BY <1>5, <1>6 DEF LinkTyped, CountersTyped, GhostsTyped
    <3>2. SendBlkNo'[t] <= (IF pc'[t] \in PutPlaces THEN puts'[t] ELSE puts'[t] + 1)
      BY <2>1, <3>1 DEF Numbered
    <3>. QED
      BY <2>1, <3>1, <3>2, Zenon DEF Numbered
  <2>. QED
    BY <1>1, <1>7, <2>1
<1>9. HandedUp(s)'
  <2>1. got'[p] = got[p] /\ ReceiveBlkNo'[p] = ReceiveBlkNo[p]
    BY <1>1, <1>5 DEF LinkTyped, GhostsTyped, CountersTyped
  <2>. QED
    BY <1>7, <2>1 DEF HandedUp
<1>10. HandedUp(p)'
  <2>1. ReceiveBlkNo'[s] = b.no + 1 /\ got[s] \in Seq(Nat)
    BY <1>5 DEF LinkTyped, GhostsTyped, CountersTyped
  <2>2. \A c \in Carried(p) : c.no \in Nat /\ c.idx \in Nat
    BY <1>1, CarriedTyped
  <2>3. \A c \in Carried(p) : c.no >= b.no + 1 => c.no >= ReceiveBlkNo[s] /\ b.idx < c.idx
    BY <1>2, <1>3, <1>7, <2>2 DEF Numbered
  <2>4. /\ \A k \in DOMAIN got[s] : got[s][k] <= puts[p] /\ got[s][k] < b.idx
        /\ \A c \in Carried(p), k \in DOMAIN got[s] :
              c.no >= b.no + 1 => got[s][k] < c.idx
        /\ \A i, j \in DOMAIN got[s] : i < j => got[s][i] < got[s][j]
    BY <1>1, <1>2, <1>3, <1>7, <2>3 DEF HandedUp
  <2>5. CASE got' = got
    BY <1>1, <2>1, <2>4, <2>5 DEF HandedUp
  <2>6. CASE got' = [got EXCEPT ![s] = Append(@, b.idx)]
    <3>1. got'[s] = Append(got[s], b.idx)
      BY <2>6 DEF LinkTyped, GhostsTyped
    <3>2. DOMAIN got'[s] = 1 .. Len(got[s]) + 1 /\ DOMAIN got[s] = 1 .. Len(got[s])
          /\ Len(got[s]) \in Nat
      BY <1>3, <2>1, <3>1
    <3>3. \A k \in DOMAIN got'[s] : \/ k \in DOMAIN got[s] /\ got'[s][k] = got[s][k]
                                    \/ k = Len(got[s]) + 1 /\ got'[s][k] = b.idx
      BY <1>3, <2>1, <3>1, <3>2
    <3>4. \A i, j \in DOMAIN got'[s] : i < j => got'[s][i] < got'[s][j]
      BY <2>4, <3>2, <3>3
    <3>. QED
      BY <1>1, <1>3, <1>4, <2>1, <2>3, <2>4, <3>3, <3>4 DEF HandedUp
  <2>. QED
    BY <1>5, <2>5, <2>6
<1>. QED
  BY <1>8, <1>9, <1>10 DEF Ordered, Sides, Peer

LEMMA ConnectOrder == ASSUME RemoteConnect, NoReuse' PROVE Ordered'
<1>. SUFFICES ASSUME NEW s \in Sides PROVE Numbered(s)' /\ HandedUp(s)'
  BY DEF Ordered
<1>1. 1 < CountMod /\ CountMod \in Nat
  BY SerLinkAssumption DEF RemoteConnect, NoReuse
<1>2. 1 % CountMod = 1
  BY <1>1
<1>3. /\ SendBlkNo'[s] = 1 /\ puts'[s] = 0 /\ pc'[s] \notin PutPlaces
      /\ got'[Peer(s)] = <<>> /\ wire'[s] = <<>> /\ out'[s] = NoBlock
  BY <1>2, Peers DEF RemoteConnect, PutPlaces
<1>4. Carried(s)' = {NoBlock}
  BY <1>3 DEF Carried, BlocksOf
<1>. QED
  BY <1>3, <1>4, NoBlockTyped DEF Numbered, HandedUp

\* Blocks are handed up in order after every step, if no number was used again.
LEMMA NextOrdered ==
    ASSUME LinkTyped, [Next]_vars, NoReuse => Ordered
    PROVE  NoReuse' => Ordered'
<1>. SUFFICES ASSUME NoReuse' PROVE Ordered'
  OBVIOUS
<1>1. LinkTyped'
  BY NextTyped
<1>2. ASSUME UNCHANGED puts PROVE NoReuse /\ Ordered
  BY <1>2 DEF NoReuse
<1>3. ASSUME NEW s \in Sides, LinkStep(s) PROVE Ordered'
  <2>1. UNCHANGED <<out, puts>> /\ \A t \in Sides : Carried(t)' \subseteq Carried(t)
    BY <1>3, StepCarries
  <2>4. CASE SendAcked(s)
    BY <1>2, <2>1, <2>4, AckedOrder
  <2>5. CASE ReceiveBlock(s)
    BY <1>2, <2>1, <2>5, ReceivedOrder
  <2>6. CASE ~SendAcked(s) /\ ~ReceiveBlock(s)
    <3>1. UNCHANGED <<got, SendBlkNo, ReceiveBlkNo>>
      BY <1>3, <2>6 DEF LinkStep, SendRefused, SendAsked, SendConfused, Answered, Discard, Silence,
                        SendWaited, AskAgain, GiveUp, ReceiveOther, ReceiveBad, ReceiveAsked,
                        ReceiveJunk, Receives, counters
    <3>2. \A t \in Sides : pc'[t] \in PutPlaces => pc[t] \in PutPlaces
      BY <1>3, <2>6 DEF LinkStep, SendRefused, SendAsked, SendConfused, Answered, Discard, Silence,
                        SendWaited, Waited, AskAgain, GiveUp, ReceiveOther, ReceiveBad, ReceiveAsked,
                        ReceiveJunk, Receives, LinkTyped, ProgramTyped, PutPlaces
    <3>. QED
      BY <1>2, <2>1, <3>1, <3>2, KeptOrder
  <2>. QED
    BY <2>4, <2>5, <2>6
<1>4. ASSUME NEW s \in Sides, Lose(s) \/ Damage(s) PROVE Ordered'
  <2>1. /\ \A t \in Sides : Carried(t)' \subseteq Carried(t)
        /\ UNCHANGED <<pc, puts, got, SendBlkNo, ReceiveBlkNo>>
    BY <1>4, FaultTyped DEF Carried, counters
  <2>. QED
    BY <1>2, <2>1, KeptOrder
<1>5. CASE ReSync
  <2>1. UNCHANGED <<out, puts, got, SendBlkNo, ReceiveBlkNo>>
    BY <1>5 DEF ReSync, counters
  <2>2. \A s \in Sides : pc'[s] \notin PutPlaces /\ wire'[s] = <<>>
    BY <1>5, AfterTyped DEF ReSync, PutPlaces
  <2>3. \A s \in Sides : Carried(s)' \subseteq Carried(s)
    BY <2>1, <2>2 DEF Carried, BlocksOf
  <2>. QED
    BY <1>2, <2>1, <2>2, <2>3, KeptOrder
<1>6. CASE RemoteConnect
  BY <1>6, ConnectOrder
<1>7. CASE (\E r \in Requests : DoRequest(r)) \/ Session
  <2>1. CASE /\ UNCHANGED <<out, counters, waits, wire, faults, puts, acked, got, serving>>
             /\ pc' = [pc EXCEPT !["server"] = IF serving.req = "bye" THEN "listening"
                                               ELSE "receiving"]
    <3>1. \A s \in Sides : pc'[s] \in PutPlaces => pc[s] \in PutPlaces
      BY <2>1 DEF LinkTyped, ProgramTyped, PutPlaces
    <3>. QED
      BY <1>2, <2>1, <3>1, KeptOrder DEF Carried, counters
  <2>2. ASSUME NEW s \in Sides, NEW r \in RequestKinds \cup {"reply"}, NEW re \in Nat,
               pc[s] \in Away, StartSend(s, r, re), UNCHANGED serving, faults' \in 0 .. MaxFaults
        PROVE  Ordered'
    <3>1. \A t \in Sides : puts[t] \in Nat /\ puts'[t] \in Nat /\ puts[t] <= puts'[t]
      BY <2>2 DEF StartSend, LinkTyped, GhostsTyped
    <3>2. NoReuse
      BY <3>1, SerLinkAssumption DEF NoReuse
    <3>3. /\ out' = [out EXCEPT ![s] = Block(SendBlkNo[s] % WireMod, Errors[s], r, puts[s] + 1, re)]
          /\ BlocksOf(wire'[s]) \subseteq BlocksOf(wire[s]) \cup {out'[s]}
          /\ BlocksOf(wire'[Peer(s)]) \subseteq BlocksOf(wire[Peer(s)])
      BY <2>2, StartTyped
    <3>. QED
      BY <1>1, <2>2, <3>2, <3>3, StartOrder
  <2>. QED
    BY <1>7, <2>1, <2>2, Begins, Zenon
<1>8. CASE UNCHANGED vars
  BY <1>2, <1>8, KeptOrder DEF vars, counters, Carried
<1>. QED
  BY <1>3, <1>4, <1>5, <1>6, <1>7, <1>8 DEF Next

\* On every line, with any number of faults and of blocks given up, RemoteGet
\* hands up each block at most once and in order, until a number comes round:
\* an acknowledgement taken for another block's can lose a block, never repeat
\* one.
THEOREM InOrderUntilReuse == Spec => [](NoReuse => InOrderOnce)
<1>1. Init => LinkTyped /\ (NoReuse => Ordered)
  <2>. SUFFICES ASSUME Init PROVE Ordered
    BY InitTyped
  <2>1. \A s \in Sides : /\ SendBlkNo[s] = 0 /\ puts[s] = 0
                         /\ got[Peer(s)] = <<>> /\ wire[s] = <<>> /\ out[s] = NoBlock
    BY Peers DEF Init
  <2>2. \A s \in Sides : Carried(s) = {NoBlock}
    BY <2>1 DEF Carried, BlocksOf
  <2>. QED
    BY <2>1, <2>2, NoBlockTyped DEF Ordered, Numbered, HandedUp
<1>2. LinkTyped /\ (NoReuse => Ordered) /\ [Next]_vars => (LinkTyped /\ (NoReuse => Ordered))'
  BY NextTyped, NextOrdered
<1>3. Ordered => InOrderOnce
  BY Peers DEF Ordered, HandedUp, InOrderOnce
<1>. QED
  BY <1>1, <1>2, <1>3, PTL DEF Spec
-----------------------------------------------------------------------------
(* Requests and replies.  The server works on a call only while the client *)
(* waits for it, because the client goes on only with a reply; so a reply  *)
(* that the client can still take answers what it asked for last.          *)

\* A client that is off and a server that is listening have no session.
Apart == pc["client"] = "off" /\ pc["server"] = "listening"

\* The client has asked for something and was given no reply yet.
Pending == out["client"].req = "call" /\ pc["client"] \notin {"idle", "off", "resync_get"}

\* The server has a request it has not begun to answer.
Working == pc["server"] \in {"exec", "resync_get"}

\* A reply that the client will take is the one it waits for.
ReplyAwaited == \A b \in Carried("server") :
    b.no >= ReceiveBlkNo["client"] => Pending /\ b.re = puts["client"]

\* A request is answered by one block.
OneReply == \A b, c \in Carried("server") : b.re = c.re => b.no = c.no

\* A reply was sent for a request that the server has taken.
ReplyLater == \A b \in Carried("server") :
    b.re <= serving.idx /\ (Working => b.re < serving.idx)

\* A request that the server will take is one it has not seen.
RequestNew == \A c \in Carried("client") :
    c.no >= ReceiveBlkNo["server"] => c.idx > serving.idx

\* Only the last call of the client can be one that the server has not seen,
\* and the client waits for its reply.
CallPending == \A c \in Carried("client") :
    c.req = "call" /\ c.idx > serving.idx => Pending /\ c.idx = puts["client"]

CallServed == Working /\ serving.req = "call" => Pending /\ serving.idx = puts["client"]

Conversing == /\ ReplyAwaited /\ OneReply /\ ReplyLater
              /\ RequestNew /\ CallPending /\ CallServed

\* The server sends at most one block for each request.
Counted == /\ serving.idx <= puts["client"] /\ puts["server"] <= serving.idx
           /\ Working => puts["server"] < serving.idx

\* What the proofs need to know of the values compared.
LEMMA IndexTyped ==
    ASSUME LinkTyped
    PROVE  /\ serving.idx \in Nat /\ serving.req \in RequestKinds \cup {"reply"}
           /\ puts["client"] \in Nat /\ puts["server"] \in Nat
           /\ ReceiveBlkNo["client"] \in Nat /\ ReceiveBlkNo["server"] \in Nat
           /\ \A s \in Sides : \A b \in Carried(s) :
                 b.no \in Nat /\ b.idx \in Nat /\ b.re \in Nat
<1>1. "client" \in Sides /\ "server" \in Sides
  BY DEF Sides
<1>2. ASSUME NEW s \in Sides, NEW b \in Carried(s)
      PROVE  b.no \in Nat /\ b.idx \in Nat /\ b.re \in Nat
  <2>1. b \in Blocks /\ b.no \in Nat /\ b.idx \in Nat
    BY <1>2, CarriedTyped
  <2>. QED
    BY <2>1 DEF Blocks
<1>3. serving.idx \in Nat /\ serving.req \in RequestKinds \cup {"reply"}
  BY DEF LinkTyped, ProgramTyped, Blocks
<1>4. ReceiveBlkNo["client"] \in Nat /\ ReceiveBlkNo["server"] \in Nat
  BY <1>1, SerLinkAssumption DEF LinkTyped, CountersTyped
<1>. QED
  BY <1>1, <1>2, <1>3, <1>4 DEF LinkTyped, GhostsTyped

\* A step that hands nothing up and sends no new block.
LEMMA StillConversing ==
    ASSUME Conversing, UNCHANGED <<out, puts, serving, ReceiveBlkNo>>,
           \A t \in Sides : Carried(t)' \subseteq Carried(t),
           Working' => Working, Pending => Pending'
    PROVE  Conversing'
<1>1. /\ Carried("client")' \subseteq Carried("client")
      /\ Carried("server")' \subseteq Carried("server")
  BY DEF Sides
<1>2. ReplyAwaited' /\ OneReply' /\ ReplyLater'
  BY <1>1 DEF Conversing, ReplyAwaited, OneReply, ReplyLater
<1>3. RequestNew' /\ CallPending' /\ CallServed'
  BY <1>1 DEF Conversing, RequestNew, CallPending, CallServed
<1>. QED
  BY <1>2, <1>3 DEF Conversing

LEMMA StillCounted ==
    ASSUME Counted, UNCHANGED <<puts, serving>>, Working' => Working
    PROVE  Counted'
BY DEF Counted

\* The server takes a request: if it is a call, the client waits.
LEMMA RequestTaken ==
    ASSUME LinkTyped, Ordered, NoReuse, Conversing, Counted, ReceiveBlock("server"),
           UNCHANGED <<out, puts>>,
           \A t \in Sides : Carried(t)' \subseteq Carried(t)
    PROVE  Conversing' /\ Counted'
<1>. DEFINE a == Head(Incoming("server"))
<1>1. "client" \in Sides /\ "server" \in Sides /\ Peer("server") = "client"
  BY DEF Sides, Peer
<1>2. /\ a \in Carried("client") /\ a.no = ReceiveBlkNo["server"]
      /\ a.no \in Nat /\ a.idx \in Nat /\ a.idx <= puts["client"]
      /\ ReceiveBlkNo' = [ReceiveBlkNo EXCEPT !["server"] = a.no + 1]
  BY <1>1, TakenBlock
<1>3. serving' = a /\ pc'["client"] = pc["client"] /\ pc'["server"] \in {"exec", "resync_get"}
  BY <1>1 DEF ReceiveBlock, AfterGet, LinkTyped, ProgramTyped
<1>4. a.idx > serving.idx
  BY <1>2, IndexTyped DEF Conversing, RequestNew
<1>5. \A c \in Carried("client") : c.no >= a.no + 1 => c.idx > a.idx
  <2>1. \A c \in Carried("client") : a.no < c.no => a.idx < c.idx
    BY <1>1, <1>2 DEF Ordered, Numbered
  <2>. QED
    BY <1>1, <1>2, <2>1, IndexTyped
<1>6. /\ ReceiveBlkNo'["client"] = ReceiveBlkNo["client"]
      /\ ReceiveBlkNo'["server"] = a.no + 1
  BY <1>1, <1>2 DEF LinkTyped, CountersTyped
<1>7. Pending' <=> Pending
  BY <1>3 DEF Pending
<1>8. /\ Carried("client")' \subseteq Carried("client")
      /\ Carried("server")' \subseteq Carried("server")
  BY <1>1
<1>. HIDE DEF a
<1>9. ReplyAwaited' /\ OneReply'
  BY <1>6, <1>7, <1>8 DEF Conversing, ReplyAwaited, OneReply
<1>10. ReplyLater'
  BY <1>1, <1>2, <1>3, <1>4, <1>8, IndexTyped DEF Conversing, ReplyLater
<1>11. RequestNew'
  BY <1>3, <1>5, <1>6, <1>8 DEF RequestNew
<1>12. CallPending'
  BY <1>1, <1>2, <1>3, <1>4, <1>7, <1>8, IndexTyped DEF Conversing, CallPending
<1>13. CallServed'
  BY <1>2, <1>3, <1>4, <1>7 DEF Conversing, CallPending, CallServed
<1>14. Counted'
  BY <1>2, <1>3, <1>4, IndexTyped DEF Counted
<1>. QED
  BY <1>9, <1>10, <1>11, <1>12, <1>13, <1>14 DEF Conversing

\* The client takes a reply: it is the one it waits for, and the server has
\* nothing left to answer.
LEMMA ReplyTakenOnce ==
    ASSUME LinkTyped, Ordered, NoReuse, Conversing, Counted, ReceiveBlock("client"),
           UNCHANGED <<out, puts>>,
           \A t \in Sides : Carried(t)' \subseteq Carried(t)
    PROVE  Conversing' /\ Counted' /\ Head(Incoming("client")).re = puts["client"]
<1>. DEFINE a == Head(Incoming("client"))
<1>1. "client" \in Sides /\ "server" \in Sides /\ Peer("client") = "server"
  BY DEF Sides, Peer
<1>2. /\ a \in Carried("server") /\ a.no = ReceiveBlkNo["client"]
      /\ a.no \in Nat /\ a.re \in Nat
      /\ ReceiveBlkNo' = [ReceiveBlkNo EXCEPT !["client"] = a.no + 1]
  BY <1>1, TakenBlock, IndexTyped
<1>3. serving' = serving /\ pc'["server"] = pc["server"]
  BY <1>1 DEF ReceiveBlock, LinkTyped, ProgramTyped
<1>4. a.re = puts["client"]
  BY <1>2 DEF Conversing, ReplyAwaited
<1>5. serving.idx = puts["client"] /\ ~Working
  BY <1>2, <1>4, IndexTyped DEF Conversing, ReplyLater, Counted
<1>6. /\ ReceiveBlkNo'["client"] = a.no + 1
      /\ ReceiveBlkNo'["server"] = ReceiveBlkNo["server"]
  BY <1>1, <1>2 DEF LinkTyped, CountersTyped
<1>7. /\ Carried("client")' \subseteq Carried("client")
      /\ Carried("server")' \subseteq Carried("server")
  BY <1>1
<1>. HIDE DEF a
<1>8. \A b \in Carried("server") : ~(b.no >= a.no + 1)
  <2>. SUFFICES ASSUME NEW b \in Carried("server"), b.no >= a.no + 1 PROVE FALSE
    OBVIOUS
  <2>1. b.no \in Nat
    BY <1>1, IndexTyped
  <2>2. b.re = puts["client"]
    BY <1>2, <2>1 DEF Conversing, ReplyAwaited
  <2>3. b.no = a.no
    BY <1>2, <1>4, <2>2 DEF Conversing, OneReply
  <2>. QED
    BY <2>1, <2>3
<1>9. ReplyAwaited'
  BY <1>6, <1>7, <1>8 DEF ReplyAwaited
<1>10. OneReply' /\ RequestNew'
  BY <1>3, <1>6, <1>7 DEF Conversing, OneReply, RequestNew
<1>11. ~Working'
  BY <1>3, <1>5 DEF Working
<1>12. ReplyLater' /\ CallServed'
  BY <1>3, <1>7, <1>11 DEF Conversing, ReplyLater, CallServed
<1>13. CallPending'
  <2>1. \A c \in Carried("client") : c.idx \in Nat /\ c.idx <= puts["client"]
    BY <1>1, IndexTyped DEF Ordered, Numbered
  <2>. QED
    BY <1>3, <1>5, <1>7, <2>1, IndexTyped DEF CallPending
<1>14. Counted'
  BY <1>3, <1>11 DEF Counted
<1>. QED
  BY <1>4, <1>9, <1>10, <1>12, <1>13, <1>14 DEF Conversing, a
\* What BlockSend puts on the line of s, and what it leaves there.
LEMMA StartCarries ==
    ASSUME LinkTyped, NEW s \in Sides, NEW r \in RequestKinds \cup {"reply"}, NEW re \in Nat,
           StartSend(s, r, re), UNCHANGED serving, faults' \in 0 .. MaxFaults
    PROVE  /\ Carried(s)' \subseteq Carried(s) \cup {out'[s]}
           /\ Carried(Peer(s))' \subseteq Carried(Peer(s))
           /\ out'[s].req = r /\ out'[s].re = re /\ out'[s].idx = puts[s] + 1
           /\ out'[Peer(s)] = out[Peer(s)]
           /\ pc' = [pc EXCEPT ![s] = "sending"] /\ puts' = [puts EXCEPT ![s] = @ + 1]
           /\ ReceiveBlkNo' = ReceiveBlkNo
<1>1. /\ out' = [out EXCEPT ![s] = Block(SendBlkNo[s] % WireMod, Errors[s], r, puts[s] + 1, re)]
      /\ BlocksOf(wire'[s]) \subseteq BlocksOf(wire[s]) \cup {out'[s]}
      /\ BlocksOf(wire'[Peer(s)]) \subseteq BlocksOf(wire[Peer(s)])
  BY StartTyped
<1>2. out \in [Sides -> Blocks]
  BY DEF LinkTyped, ProgramTyped
<1>3. out'[s] = Block(SendBlkNo[s] % WireMod, Errors[s], r, puts[s] + 1, re)
      /\ out'[Peer(s)] = out[Peer(s)]
  BY <1>1, <1>2, Peers
<1>4. out'[s].req = r /\ out'[s].re = re /\ out'[s].idx = puts[s] + 1
  BY <1>3 DEF Block
<1>. QED
  BY <1>1, <1>3, <1>4 DEF StartSend, Carried

\* The client sends a request, for which there is no reply yet.
LEMMA RequestSent ==
    ASSUME LinkTyped, Conversing, Counted, NEW r \in Requests, DoRequest(r)
    PROVE  Conversing' /\ Counted'
<1>. DEFINE c == out'["client"]
<1>1. "client" \in Sides /\ Peer("client") = "server" /\ r \in RequestKinds
  BY SerLinkAssumption DEF Sides, Peer
<1>2. StartSend("client", r, 0) /\ UNCHANGED serving /\ faults' \in 0 .. MaxFaults
  BY SerLinkAssumption DEF DoRequest, LinkTyped, LineTyped
<1>3. /\ Carried("client")' \subseteq Carried("client") \cup {c}
      /\ Carried("server")' \subseteq Carried("server")
      /\ c.req = r /\ c.idx = puts["client"] + 1
      /\ pc' = [pc EXCEPT !["client"] = "sending"]
      /\ puts' = [puts EXCEPT !["client"] = @ + 1]
      /\ ReceiveBlkNo' = ReceiveBlkNo
  BY <1>1, <1>2, StartCarries
<1>. HIDE DEF c
<1>4. /\ pc'["client"] = "sending" /\ pc'["server"] = pc["server"]
      /\ puts'["client"] = puts["client"] + 1 /\ puts'["server"] = puts["server"]
  BY <1>1, <1>3 DEF LinkTyped, ProgramTyped, GhostsTyped, Sides
<1>5. ~Pending
  BY DEF Pending, DoRequest
<1>6. Working' <=> Working
  BY <1>4 DEF Working
<1>7. ReplyAwaited'
  BY <1>3, <1>5 DEF Conversing, ReplyAwaited
<1>8. OneReply' /\ ReplyLater'
  BY <1>2, <1>3, <1>6 DEF Conversing, OneReply, ReplyLater
<1>9. RequestNew'
  BY <1>2, <1>3, IndexTyped DEF Conversing, RequestNew, Counted
<1>10. CallPending'
  <2>1. \A b \in Carried("client") : ~(b.req = "call" /\ b.idx > serving.idx)
    BY <1>5 DEF Conversing, CallPending
  <2>2. c.req = "call" => Pending'
    BY <1>4 DEF Pending, c
  <2>. QED
    BY <1>2, <1>3, <1>4, <2>1, <2>2 DEF CallPending
<1>11. CallServed'
  BY <1>2, <1>5, <1>6 DEF Conversing, CallServed
<1>12. Counted'
  BY <1>2, <1>4, <1>6, IndexTyped DEF Counted
<1>. QED
  BY <1>7, <1>8, <1>9, <1>10, <1>11, <1>12 DEF Conversing

\* The server sends the reply to a call: the client waits for it.
LEMMA ReplySent ==
    ASSUME LinkTyped, Conversing, Counted, Session, serving.req = "call"
    PROVE  Conversing' /\ Counted'
<1>. DEFINE b == out'["server"]
<1>1. "server" \in Sides /\ Peer("server") = "client" /\ serving.idx \in Nat
  BY IndexTyped DEF Sides, Peer
<1>2. StartSend("server", "reply", serving.idx) /\ UNCHANGED serving
      /\ faults' \in 0 .. MaxFaults
  BY DEF Session, LinkTyped, LineTyped
<1>3. /\ Carried("server")' \subseteq Carried("server") \cup {b}
      /\ Carried("client")' \subseteq Carried("client")
      /\ b.re = serving.idx /\ out'["client"] = out["client"]
      /\ pc' = [pc EXCEPT !["server"] = "sending"]
      /\ puts' = [puts EXCEPT !["server"] = @ + 1]
      /\ ReceiveBlkNo' = ReceiveBlkNo
  BY <1>1, <1>2, StartCarries
<1>. HIDE DEF b
<1>4. /\ pc'["server"] = "sending" /\ pc'["client"] = pc["client"]
      /\ puts'["server"] = puts["server"] + 1 /\ puts'["client"] = puts["client"]
  BY <1>1, <1>3 DEF LinkTyped, ProgramTyped, GhostsTyped, Sides
<1>5. Working /\ ~Working'
  BY <1>4 DEF Working, Session
<1>6. Pending /\ Pending' /\ serving.idx = puts["client"]
  BY <1>3, <1>4, <1>5 DEF Conversing, CallServed, Pending
<1>7. \A c \in Carried("server") : c.re < serving.idx /\ c.re \in Nat
  BY <1>1, <1>5, IndexTyped DEF Conversing, ReplyLater
<1>8. ReplyAwaited'
  BY <1>3, <1>4, <1>6 DEF Conversing, ReplyAwaited
<1>9. OneReply'
  BY <1>1, <1>3, <1>7 DEF Conversing, OneReply
<1>10. ReplyLater'
  BY <1>1, <1>2, <1>3, <1>5, <1>7 DEF ReplyLater
<1>11. RequestNew'
  BY <1>2, <1>3 DEF Conversing, RequestNew
<1>12. CallPending' /\ CallServed'
  BY <1>2, <1>3, <1>4, <1>5, <1>6 DEF Conversing, CallPending, CallServed
<1>13. Counted'
  BY <1>2, <1>4, <1>5, IndexTyped DEF Counted
<1>. QED
  BY <1>8, <1>9, <1>10, <1>11, <1>12, <1>13 DEF Conversing

LEMMA ConnectConverses ==
    ASSUME RemoteConnect, NoReuse'
    PROVE  Conversing' /\ Counted'
<1>1. 1 < CountMod /\ CountMod \in Nat
  BY SerLinkAssumption DEF RemoteConnect, NoReuse, Sides
<1>2. 1 % CountMod = 1
  BY <1>1
<1>3. /\ ReceiveBlkNo'["client"] = 1 /\ ReceiveBlkNo'["server"] = 1
      /\ puts'["client"] = 0 /\ puts'["server"] = 0
      /\ \A s \in Sides : wire'[s] = <<>> /\ out'[s] = NoBlock
      /\ serving' = NoBlock /\ ~Working'
  BY <1>2 DEF RemoteConnect, Sides, Working
<1>4. \A s \in Sides : Carried(s)' = {NoBlock}
  BY <1>3 DEF Carried, BlocksOf
<1>5. Carried("client")' = {NoBlock} /\ Carried("server")' = {NoBlock}
  BY <1>4 DEF Sides
<1>6. NoBlock.no = 0 /\ NoBlock.idx = 0 /\ NoBlock.re = 0 /\ NoBlock.req = "bye"
  BY DEF NoBlock, Block
<1>. QED
  BY <1>3, <1>5, <1>6
  DEF Conversing, ReplyAwaited, OneReply, ReplyLater, RequestNew, CallPending, CallServed, Counted

\* A step of a side between connections.
LEMMA StepConverses ==
    ASSUME LinkTyped, Ordered, NoReuse, Conversing, Counted, NEW s \in Sides, LinkStep(s)
    PROVE  Conversing' /\ Counted'
<1>1. UNCHANGED <<out, puts>> /\ \A t \in Sides : Carried(t)' \subseteq Carried(t)
  BY StepCarries
<1>2. CASE ReceiveBlock(s)
  BY <1>1, <1>2, RequestTaken, ReplyTakenOnce DEF Sides
<1>3. CASE ~ReceiveBlock(s)
  <2>1. UNCHANGED <<serving, ReceiveBlkNo>>
    BY <1>3 DEF LinkStep, SendAcked, SendRefused, SendAsked, SendConfused, Answered, Discard,
                Silence, SendWaited, AskAgain, GiveUp, ReceiveOther, ReceiveBad, ReceiveAsked,
                ReceiveJunk, Receives, counters
  <2>2. (Working' => Working) /\ (Pending => Pending')
    <3>1. CASE SendAcked(s)
      BY <1>1, <3>1 DEF SendAcked, Answered, AfterPut, Working, Pending, Sides,
                        LinkTyped, ProgramTyped
    <3>2. CASE GiveUp(s)
      BY <1>1, <3>2 DEF GiveUp, Waited, Working, Pending, Sides, LinkTyped, ProgramTyped
    <3>3. CASE ~SendAcked(s) /\ ~GiveUp(s)
      <4>1. UNCHANGED pc \/ pc' = [pc EXCEPT ![s] = "discarding"]
            \/ pc' = [pc EXCEPT ![s] = "sending"]
        BY <1>3, <3>3 DEF LinkStep, SendRefused, SendAsked, SendConfused, Discard, Silence,
                          SendWaited, ReceiveOther, ReceiveBad, ReceiveAsked, ReceiveJunk
      <4>. QED
        BY <1>1, <4>1 DEF Working, Pending, Sides, LinkTyped, ProgramTyped
    <3>. QED
      BY <3>1, <3>2, <3>3
  <2>. QED
    BY <1>1, <2>1, <2>2, StillConversing, StillCounted
<1>. QED
  BY <1>2, <1>3
\* No side of a session that has ended, or not begun, takes a step.
LEMMA ApartStays ==
    ASSUME LinkTyped, Apart, Counted, [Next]_vars, ~RemoteConnect
    PROVE  Apart' /\ Counted'
<1>1. \A s \in Sides : pc[s] \in Gone \ {"failed"}
  BY DEF Apart, Sides, Gone
<1>2. \A s \in Sides : ~LinkStep(s)
  BY <1>1 DEF LinkStep, SendAcked, SendRefused, SendAsked, SendConfused, Answered, Discard, Silence,
              SendWaited, GiveUp, Waited, ReceiveBlock, ReceiveOther, ReceiveBad, ReceiveAsked,
              ReceiveJunk, Receives, Resyncing, Gone
<1>3. ~ReSync /\ ~Session /\ \A r \in Requests : ~DoRequest(r)
  BY DEF Apart, ReSync, Session, DoRequest, Sides, Resyncing
<1>4. UNCHANGED <<pc, serving, puts>>
  BY <1>2, <1>3, FaultTyped DEF Next, vars
<1>. QED
  BY <1>4 DEF Apart, Counted, Working

LEMMA NextConverses ==
    ASSUME LinkTyped, Ordered, NoReuse, Apart \/ Conversing, Counted, [Next]_vars,
           RemoteConnect => NoReuse'
    PROVE  (Apart \/ Conversing)' /\ Counted'
<1>1. CASE Apart /\ ~RemoteConnect
  BY <1>1, ApartStays
<1>2. CASE RemoteConnect
  BY <1>2, ConnectConverses
<1>3. ASSUME Conversing, ~RemoteConnect PROVE Conversing' /\ Counted'
  <2>1. ASSUME NEW s \in Sides, LinkStep(s) PROVE Conversing' /\ Counted'
    BY <1>3, <2>1, StepConverses
  <2>2. ASSUME NEW s \in Sides, Lose(s) \/ Damage(s) PROVE Conversing' /\ Counted'
    <3>1. /\ UNCHANGED <<pc, out, serving, counters, puts>>
          /\ \A t \in Sides : Carried(t)' \subseteq Carried(t)
      BY <2>2, FaultTyped DEF Carried
    <3>. QED
      BY <1>3, <3>1, StillConversing, StillCounted DEF counters, Working, Pending
  <2>3. CASE ReSync
    <3>1. /\ UNCHANGED <<out, serving, counters, puts>>
          /\ \A t \in Sides : wire'[t] = <<>>
          /\ pc'["client"] = IF pc["client"] = "resync_put" THEN AfterPut("client") ELSE "idle"
          /\ pc'["server"] = IF pc["server"] = "resync_put" THEN "receiving" ELSE "exec"
          /\ pc["client"] \in Resyncing /\ pc["server"] \in Resyncing
      BY <2>3 DEF ReSync, AfterPut, AfterGet, Sides
    <3>2. \A t \in Sides : Carried(t)' \subseteq Carried(t)
      BY <3>1 DEF Carried, BlocksOf
    <3>3. (Working' => Working) /\ (Pending => Pending')
      BY <3>1 DEF Working, Pending, Resyncing, AfterPut
    <3>. QED
      BY <1>3, <3>1, <3>2, <3>3, StillConversing, StillCounted DEF counters
  <2>4. ASSUME NEW r \in Requests, DoRequest(r) PROVE Conversing' /\ Counted'
    BY <1>3, <2>4, RequestSent
  <2>5. CASE Session
    <3>1. CASE serving.req = "call"
      BY <1>3, <2>5, <3>1, ReplySent
    <3>2. CASE serving.req # "call"
      <4>1. /\ UNCHANGED <<out, counters, wire, puts, serving>>
            /\ pc' = [pc EXCEPT !["server"] = IF serving.req = "bye" THEN "listening"
                                              ELSE "receiving"]
        BY <2>5, <3>2 DEF Session
      <4>2. (Working' => Working) /\ (Pending => Pending')
        BY <4>1 DEF Working, Pending, LinkTyped, ProgramTyped, Sides
      <4>3. \A t \in Sides : Carried(t)' \subseteq Carried(t)
        BY <4>1 DEF Carried
      <4>. QED
        BY <1>3, <4>1, <4>2, <4>3, StillConversing, StillCounted DEF counters
    <3>. QED
      BY <3>1, <3>2
  <2>6. CASE UNCHANGED vars
    BY <1>3, <2>6, StillConversing, StillCounted DEF vars, counters, Working, Pending, Carried
  <2>. QED
    BY <1>3, <2>1, <2>2, <2>3, <2>4, <2>5, <2>6 DEF Next
<1>. QED
  BY <1>1, <1>2, <1>3

-----------------------------------------------------------------------------
(* Sessions shorter than the counters.                                     *)

\* Only the request that ends a session may be the last that fits into it.
LengthBounded ==
    /\ puts["client"] <= MaxBlocks
    /\ out["client"].req # "bye" \/ pc["client"] \in {"receiving", "resync_get", "idle"}
          => puts["client"] < MaxBlocks

LEMMA NextLength ==
    ASSUME LinkTyped, LengthBounded, [Next]_vars
    PROVE  LengthBounded'
<1>. USE DEF LengthBounded
<1>1. "client" \in Sides /\ MaxBlocks \in Nat \ {0} /\ puts["client"] \in Nat
  BY IndexTyped, SerLinkAssumption DEF Sides
<1>2. ASSUME NEW s \in Sides, LinkStep(s) PROVE LengthBounded'
  <2>1. UNCHANGED <<out, puts>>
    BY <1>2, StepCarries
  <2>2. CASE s = "server"
    <3>1. pc'["client"] = pc["client"]
      BY <1>2, <2>2 DEF LinkStep, SendAcked, SendRefused, SendAsked, SendConfused, Answered, Discard,
                        Silence, SendWaited, AskAgain, GiveUp, ReceiveBlock, ReceiveOther, ReceiveBad,
                        ReceiveAsked, ReceiveJunk, Receives, Sides, LinkTyped, ProgramTyped
    <3>. QED
      BY <2>1, <3>1
  <2>3. CASE s = "client"
    <3>1. CASE SendAcked(s)
      BY <2>1, <2>3, <3>1 DEF SendAcked, Answered, AfterPut, Sides, LinkTyped, ProgramTyped
    <3>2. CASE GiveUp(s)
      BY <2>1, <2>3, <3>2 DEF GiveUp, Waited, Sides, LinkTyped, ProgramTyped
    <3>3. CASE ReceiveBlock(s)
      BY <2>1, <2>3, <3>3 DEF ReceiveBlock, Receives
    <3>4. CASE ~SendAcked(s) /\ ~GiveUp(s) /\ ~ReceiveBlock(s)
      <4>1. UNCHANGED pc \/ pc' = [pc EXCEPT ![s] = "discarding"]
            \/ pc' = [pc EXCEPT ![s] = "sending"]
        BY <1>2, <3>4 DEF LinkStep, SendRefused, SendAsked, SendConfused, Discard, Silence,
                          SendWaited, ReceiveOther, ReceiveBad, ReceiveAsked, ReceiveJunk
      <4>. QED
        BY <2>1, <2>3, <4>1 DEF Sides, LinkTyped, ProgramTyped
    <3>. QED
      BY <3>1, <3>2, <3>3, <3>4
  <2>. QED
    BY <2>2, <2>3 DEF Sides
<1>3. ASSUME NEW s \in Sides, Lose(s) \/ Damage(s) PROVE LengthBounded'
  BY <1>3, FaultTyped
<1>4. CASE ReSync
  BY <1>4 DEF ReSync, Resyncing, AfterPut, AfterGet, Sides
<1>5. CASE RemoteConnect
  BY <1>1, <1>5 DEF RemoteConnect, NoBlock, Block, Sides
<1>6. ASSUME NEW r \in Requests, DoRequest(r) PROVE LengthBounded'
  <2>1. StartSend("client", r, 0) /\ UNCHANGED serving /\ faults' \in 0 .. MaxFaults
        /\ r \in RequestKinds
    BY <1>6, SerLinkAssumption DEF DoRequest, LinkTyped, LineTyped
  <2>2. out'["client"].req = r /\ pc' = [pc EXCEPT !["client"] = "sending"]
        /\ puts' = [puts EXCEPT !["client"] = @ + 1]
    BY <1>1, <2>1, StartCarries
  <2>3. pc'["client"] = "sending" /\ puts'["client"] = puts["client"] + 1
    BY <1>1, <2>2 DEF LinkTyped, ProgramTyped, GhostsTyped
  <2>. QED
    BY <1>1, <1>6, <2>2, <2>3 DEF DoRequest
<1>7. CASE Session
  <2>1. /\ pc'["client"] = pc["client"] /\ out'["client"] = out["client"]
        /\ puts'["client"] = puts["client"]
    BY <1>7 DEF Session, StartSend, Sides, LinkTyped, ProgramTyped, GhostsTyped
  <2>. QED
    BY <2>1
<1>8. CASE UNCHANGED vars
  BY <1>8 DEF vars
<1>. QED
  BY <1>2, <1>3, <1>4, <1>5, <1>6, <1>7, <1>8 DEF Next

\* A session of fewer blocks than there are numbers.
ShortSessions == MaxBlocks + 1 < CountMod /\ MaxBlocks + 1 < WireMod

SessionInv == /\ LinkTyped /\ Ordered /\ NoReuse /\ LengthBounded
              /\ Apart \/ Conversing
              /\ Counted

LEMMA ShortNumbers ==
    ASSUME ShortSessions, LinkTyped, Counted, LengthBounded
    PROVE  NoReuse
BY IndexTyped, SerLinkAssumption DEF ShortSessions, Counted, LengthBounded, NoReuse, Sides

LEMMA InitSession == ASSUME ShortSessions, Init PROVE SessionInv
<1>1. LinkTyped
  BY InitTyped
<1>2. \A s \in Sides : /\ SendBlkNo[s] = 0 /\ puts[s] = 0
                       /\ got[Peer(s)] = <<>> /\ wire[s] = <<>> /\ out[s] = NoBlock
  BY Peers DEF Init
<1>3. \A s \in Sides : Carried(s) = {NoBlock}
  BY <1>2 DEF Carried, BlocksOf
<1>4. Ordered
  BY <1>2, <1>3, NoBlockTyped DEF Ordered, Numbered, HandedUp
<1>5. Apart /\ Counted /\ LengthBounded
  BY <1>2, SerLinkAssumption
  DEF Init, Sides, Apart, Working, Counted, LengthBounded, NoBlock, Block
<1>. QED
  BY <1>1, <1>4, <1>5, ShortNumbers DEF SessionInv

LEMMA NextSession == ASSUME ShortSessions, SessionInv, [Next]_vars PROVE SessionInv'
<1>1. LinkTyped' /\ LengthBounded'
  BY NextTyped, NextLength DEF SessionInv
<1>2. RemoteConnect => NoReuse'
  BY SerLinkAssumption DEF RemoteConnect, NoReuse, ShortSessions
<1>3. (Apart \/ Conversing)' /\ Counted'
  BY <1>2, NextConverses DEF SessionInv
<1>4. NoReuse'
  <2>1. ShortSessions /\ LinkTyped /\ Counted /\ LengthBounded => NoReuse
    BY ShortNumbers
  <2>2. ShortSessions'
    BY DEF ShortSessions
  <2>. QED
    BY <1>1, <1>3, <2>1, <2>2, ShortNumbers, PTL
<1>5. Ordered'
  BY <1>4, NextOrdered DEF SessionInv
<1>. QED
  BY <1>1, <1>3, <1>4, <1>5 DEF SessionInv

\* The wait of the client in a session ends with the reply to its last request.
LEMMA SessionReplies == ASSUME SessionInv, [Next]_vars PROVE ReplyTaken
<1>. SUFFICES ASSUME pc["client"] = "receiving", pc'["client"] # "receiving"
              PROVE  Head(Incoming("client")).re = puts["client"]
  BY DEF ReplyTaken
<1>1. LinkTyped /\ Conversing /\ "client" \in Sides
  BY DEF SessionInv, Apart, Sides
<1>2. ReceiveBlock("client")
  <2>1. ~RemoteConnect /\ ~ReSync /\ ~UNCHANGED vars /\ \A r \in Requests : ~DoRequest(r)
    BY DEF RemoteConnect, ReSync, DoRequest, vars, Resyncing, Sides
  <2>2. ~Session
    BY <1>1 DEF Session, StartSend, LinkTyped, ProgramTyped, Sides
  <2>3. \A s \in Sides : ~Lose(s) /\ ~Damage(s)
    BY <1>1, FaultTyped
  <2>4. PICK s \in Sides : LinkStep(s)
    BY <2>1, <2>2, <2>3 DEF Next
  <2>5. s = "client"
    BY <1>1, <2>4 DEF LinkStep, SendAcked, SendRefused, SendAsked, SendConfused, Answered, Discard,
                      Silence, SendWaited, AskAgain, GiveUp, ReceiveBlock, ReceiveOther, ReceiveBad,
                      ReceiveAsked, ReceiveJunk, Receives, Sides, LinkTyped, ProgramTyped
  <2>. QED
    BY <2>4, <2>5 DEF LinkStep, SendAcked, SendRefused, SendAsked, SendConfused, Answered, Discard,
                      Silence, SendWaited, Waited, GiveUp, ReceiveOther, ReceiveBad,
                      ReceiveAsked, ReceiveJunk, Receives, Resyncing
<1>3. UNCHANGED <<out, puts>> /\ \A t \in Sides : Carried(t)' \subseteq Carried(t)
  BY <1>1, <1>2, StepCarries DEF LinkStep
<1>. QED
  BY <1>1, <1>2, <1>3, ReplyTakenOnce DEF SessionInv

\* Whatever the line does to the tokens and however often a side gives up, the
\* wait of DoRequest ends only with the reply to the request it has sent, in
\* every session of fewer requests than there are block numbers.
THEOREM RepliesMatchInSessions == ShortSessions => (Spec => RepliesMatch)
<1>. SUFFICES ASSUME ShortSessions PROVE Spec => RepliesMatch
  OBVIOUS
<1>1. Init => SessionInv
  BY InitSession
<1>2. SessionInv /\ [Next]_vars => SessionInv'
  BY NextSession
<1>3. SessionInv /\ [Next]_vars => [ReplyTaken]_vars
  BY SessionReplies
<1>. QED
  BY <1>1, <1>2, <1>3, PTL DEF Spec, RepliesMatch

\* In such a session RemoteGet hands up each block at most once and in order.
THEOREM InOrderInSessions == ShortSessions => (Spec => []InOrderOnce)
<1>. SUFFICES ASSUME ShortSessions PROVE Spec => []InOrderOnce
  OBVIOUS
<1>1. Init => SessionInv
  BY InitSession
<1>2. SessionInv /\ [Next]_vars => SessionInv'
  BY NextSession
<1>3. SessionInv => InOrderOnce
  BY Peers DEF SessionInv, Ordered, HandedUp, InOrderOnce
<1>. QED
  BY <1>1, <1>2, <1>3, PTL DEF Spec

-----------------------------------------------------------------------------
(* One fault at a time.  If both programs come back to the line before the *)
(* first wait ends, the exchange of a block goes through few shapes, and a *)
(* fault moves it to one of a few more, out of which it finds back: x sends*)
(* and y is its peer in all of them.                                       *)

OneFault == /\ MaxFaults <= 1 /\ MaxErrors >= 2 /\ Prompt /\ Patience = 0
            /\ CountMod > 1 /\ (CountMod <= WireMod \/ ShortSessions)

\* The peer of x was given the first n blocks of x.
Delivered(x, n) == LET y == Peer(x)
                   IN  Len(got[y]) = n /\ \A k \in 1 .. n : got[y][k] = k

\* Every block of x is delivered and acknowledged.
Settled(x) == /\ SendBlkNo[x] = ReceiveBlkNo[Peer(x)]
              /\ acked[x] = 1 .. puts[x] /\ Delivered(x, puts[x])

\* x is sending its last block, which its peer has not or has taken.
Sends(x) == /\ out[x].no = SendBlkNo[x] /\ out[x].idx = puts[x]
            /\ acked[x] = 1 .. puts[x] - 1
            /\ x = "client" => out[x].req \in RequestKinds

Untaken(x) == /\ Sends(x) /\ SendBlkNo[x] = ReceiveBlkNo[Peer(x)]
              /\ Delivered(x, puts[x] - 1)

Taken(x) == /\ Sends(x) /\ NextNo(SendBlkNo[x]) = ReceiveBlkNo[Peer(x)]
            /\ Delivered(x, puts[x])

\* The lines of x and y.
Line(x, y, q, r) == wire[x] = q /\ wire[y] = r

\* The one fault has happened, and x has counted at most n errors since.
Fault(x, n) == faults > 0 /\ Errors[x] <= n

\* Before a fault x has counted none.
Clean(x) == faults = 0 => Errors[x] = 0

\* No block is on its way and none is waiting to be acknowledged.
RestPlaces == \/ pc["client"] = "idle" /\ pc["server"] = "receiving"
              \/ pc["client"] = "idle" /\ pc["server"] = "exec" /\ serving.req = "post"
              \/ pc["client"] = "off" /\ pc["server"] = "exec" /\ serving.req = "bye"
              \/ pc["client"] = "receiving" /\ pc["server"] = "exec" /\ serving.req = "call"

Resting == /\ Settled("client") /\ Settled("server")
           /\ Line("client", "server", <<>>, <<>>) /\ RestPlaces

\* The block of x is on its way, damaged or lost, or y refuses it.
AsksFor(y) == \/ pc[y] = "receiving"
              \/ y = "server" /\ pc[y] = "exec" /\ serving.req = "post"

NewLine(x, y) ==
    \/ Line(x, y, <<out[x]>>, <<>>) /\ Clean(x)
    \/ Line(x, y, <<>>, <<>>) /\ Fault(x, 0)
    \/ Line(x, y, <<Byte("bad")>>, <<>>) /\ Fault(x, 0)
    \/ Line(x, y, <<Byte("noise")>>, <<>>) /\ Fault(x, 0)
    \/ Line(x, y, <<Byte("rlr")>>, <<>>) /\ Fault(x, 1) /\ pc[y] = "receiving"
    \/ Line(x, y, <<>>, <<Byte("nak")>>) /\ Fault(x, 1) /\ pc[y] = "receiving"

NewBlock(x, y) == /\ pc[x] = "sending" /\ Untaken(x) /\ Settled(y) /\ AsksFor(y)
                  /\ NewLine(x, y)

\* y has taken the block and x does not know it.
WentOn(x, y) == \/ x = "server" /\ pc[y] = "idle"
                \/ /\ x = "client" /\ serving = out[x]
                   /\ \/ pc[y] = "exec"
                      \/ pc[y] = "receiving" /\ serving.req = "post"
                      \/ pc[y] = "listening" /\ serving.req = "bye"

DoneLine(x, y) ==
    \/ pc[x] = "sending" /\ Line(x, y, <<>>, <<Byte("ack")>>) /\ Clean(x)
    \/ pc[x] = "sending" /\ Line(x, y, <<>>, <<Byte("noise")>>) /\ Fault(x, 0)
    \/ pc[x] \in PutPlaces /\ Line(x, y, <<>>, <<>>) /\ Fault(x, 0)
    \/ pc[x] = "sending" /\ Line(x, y, <<Byte("rlr")>>, <<>>) /\ Fault(x, 1)
    \/ /\ pc[x] = "sending" /\ pc[y] = "receiving"
       /\ \/ Line(x, y, <<>>, <<Byte("nak")>>) /\ Fault(x, 1)
          \/ Line(x, y, <<out[x]>>, <<>>) /\ Fault(x, 2)

DoneBlock(x, y) == Taken(x) /\ Settled(y) /\ WentOn(x, y) /\ DoneLine(x, y)

\* y has taken the block and sends one, and x does not know either.
BothLine(x, y) ==
    \/ pc[x] = "sending" /\ Line(x, y, <<>>, <<Byte("ack"), out[y]>>) /\ Clean(x)
    \/ pc[x] = "sending" /\ Line(x, y, <<>>, <<Byte("noise"), out[y]>>) /\ Fault(x, 0)
    \/ pc[x] \in PutPlaces /\ Line(x, y, <<>>, <<out[y]>>) /\ Fault(x, 1)
    \/ pc[x] = "sending" /\ Line(x, y, <<Byte("rlr")>>, <<out[y]>>) /\ Fault(x, 1)
    \/ pc[x] = "sending" /\ Line(x, y, <<>>, <<out[y], Byte("ack"), out[y]>>) /\ Fault(x, 1)
    \/ pc[x] = "sending" /\ Line(x, y, <<Byte("rlr")>>, <<>>) /\ Fault(x, 2)
    \/ /\ pc[x] = "discarding" /\ Fault(x, 1)
       /\ \/ Line(x, y, <<>>, <<>>)
          \/ Line(x, y, <<Byte("rlr")>>, <<>>)
          \/ Line(x, y, <<>>, <<Byte("ack"), out[y]>>)

BothSend(x, y) == /\ Taken(x) /\ Untaken(y) /\ pc[y] = "sending" /\ Errors[y] = 0
                  /\ (x = "client" => out[x].req = "call") /\ BothLine(x, y)

\* The session has ended, with every block delivered.
Ended == /\ Apart
         /\ \A s \in Sides : Delivered(s, puts[s]) /\ acked[s] \subseteq 1 .. puts[s]

\* Too few errors for a ReSync.
FewErrors == \A s \in Sides : Errors[s] <= 2 /\ out[s].err <= 2

Exchanging == \E x \in Sides : \/ NewBlock(x, Peer(x)) \/ DoneBlock(x, Peer(x))
                               \/ BothSend(x, Peer(x))

Repairing == Ended \/ Resting \/ Exchanging

\* What is read off a short line and said after it.
LEMMA Words ==
    ASSUME NEW a, NEW b, NEW c
    PROVE  /\ <<a>> # <<>> /\ Head(<<a>>) = a /\ Tail(<<a>>) = <<>>
           /\ <<a, b>> # <<>> /\ Head(<<a, b>>) = a /\ Tail(<<a, b>>) = <<b>>
           /\ <<a, b, c>> # <<>> /\ Head(<<a, b, c>>) = a /\ Tail(<<a, b, c>>) = <<b, c>>
           /\ <<>> \o <<a>> = <<a>> /\ <<>> \o <<a, b>> = <<a, b>> /\ <<>> \o <<>> = <<>>
           /\ <<a>> \o <<>> = <<a>>
<1>1. /\ <<a>> # <<>> /\ <<a, b>> # <<>> /\ <<a, b, c>> # <<>>
      /\ Head(<<a>>) = a /\ Head(<<a, b>>) = a /\ Head(<<a, b, c>>) = a
  OBVIOUS
<1>2. Tail(<<a>>) = <<>>
  OBVIOUS
<1>3. Tail(<<a, b>>) = <<b>>
  OBVIOUS
<1>4. Tail(<<a, b, c>>) = <<b, c>>
  OBVIOUS
<1>5. <<>> \o <<a>> = <<a>>
  OBVIOUS
<1>6. <<>> \o <<a, b>> = <<a, b>>
  OBVIOUS
<1>7. <<>> \o <<>> = <<>>
  OBVIOUS
<1>8. <<a>> \o <<>> = <<a>>
  OBVIOUS
<1>. QED
  BY <1>1, <1>2, <1>3, <1>4, <1>5, <1>6, <1>7, <1>8

LEMMA TwoWords == \A a, b : <<a>> \o <<b>> = <<a, b>>
<1>. TAKE a, b
<1>. DEFINE S == {a, b}
            p == <<a>>
            q == <<b>>
            u == <<a, b>>
<1>1. /\ p \in Seq(S) /\ Len(p) = 1 /\ p[1] = a
      /\ q \in Seq(S) /\ Len(q) = 1 /\ q[1] = b
      /\ u \in Seq(S) /\ Len(u) = 2 /\ u[1] = a /\ u[2] = b
  OBVIOUS
<1>. HIDE DEF p, q, u, S
<1>2. /\ p \o q \in Seq(S) /\ Len(p \o q) = Len(p) + Len(q)
      /\ \A k \in 1 .. Len(p) + Len(q) :
            (p \o q)[k] = IF k <= Len(p) THEN p[k] ELSE q[k - Len(p)]
  BY <1>1, ConcatProperties
<1>3. (p \o q)[1] = p[1] /\ (p \o q)[2] = q[1]
  BY <1>1, <1>2
<1>4. \A k \in 1 .. Len(u) : (p \o q)[k] = u[k]
  <2>1. \A k \in 1 .. 2 : k = 1 \/ k = 2
    OBVIOUS
  <2>. QED
    BY <1>1, <1>3, <2>1
<1>5. p \o q = u
  BY <1>1, <1>2, <1>4, SeqEqual
<1>. QED
  BY <1>5 DEF p, q, u

LEMMA ThreeWords == \A a, b, c : <<a>> \o <<b, c>> = <<a, b, c>>
<1>. TAKE a, b, c
<1>. DEFINE S == {a, b, c}
            p == <<a>>
            q == <<b, c>>
            u == <<a, b, c>>
<1>1. /\ p \in Seq(S) /\ Len(p) = 1 /\ p[1] = a
      /\ q \in Seq(S) /\ Len(q) = 2 /\ q[1] = b /\ q[2] = c
      /\ u \in Seq(S) /\ Len(u) = 3 /\ u[1] = a /\ u[2] = b /\ u[3] = c
  OBVIOUS
<1>. HIDE DEF p, q, u, S
<1>2. /\ p \o q \in Seq(S) /\ Len(p \o q) = Len(p) + Len(q)
      /\ \A k \in 1 .. Len(p) + Len(q) :
            (p \o q)[k] = IF k <= Len(p) THEN p[k] ELSE q[k - Len(p)]
  BY <1>1, ConcatProperties
<1>3. (p \o q)[1] = p[1] /\ (p \o q)[2] = q[1] /\ (p \o q)[3] = q[2]
  BY <1>1, <1>2
<1>4. \A k \in 1 .. Len(u) : (p \o q)[k] = u[k]
  <2>1. \A k \in 1 .. 3 : k = 1 \/ k = 2 \/ k = 3
    OBVIOUS
  <2>. QED
    BY <1>1, <1>3, <2>1
<1>5. p \o q = u
  BY <1>1, <1>2, <1>4, SeqEqual
<1>. QED
  BY <1>5 DEF p, q, u

LEMMA ClearEmpty == ClearCom(<<>>) = {<<>>}
<1>1. Len(<<>>) = 0 /\ \A k : k \in 0 .. 0 <=> k = 0
  OBVIOUS
<1>2. SubSeq(<<>>, 0 + 1, 0) = <<>>
  OBVIOUS
<1>3. {SubSeq(<<>>, k + 1, Len(<<>>)) : k \in 0 .. Len(<<>>)} = {<<>>}
  BY <1>1, <1>2
<1>. QED
  BY <1>3 DEF ClearCom

LEMMA ClearOne == ASSUME NEW a, NEW q \in ClearCom(<<a>>) PROVE q = <<a>> \/ q = <<>>
<1>1. SubSeq(<<a>>, 1, 1) = <<a>> /\ SubSeq(<<a>>, 2, 1) = <<>>
  <2>1. <<a>> \in Seq({a}) /\ Len(<<a>>) = 1
    OBVIOUS
  <2>2. SubSeq(<<a>>, 2, 1) = <<>>
    BY <2>1
  <2>. QED
    BY <2>1, <2>2, SubSeqFull
<1>2. Len(<<a>>) = 1 /\ 0 .. 1 = {0, 1}
  OBVIOUS
<1>. QED
  BY <1>1, <1>2 DEF ClearCom

\* What a side does depends on where it is and on what comes next on its line.
LEMMA Dispatch ==
    ASSUME NEW s \in Sides, LinkStep(s)
    PROVE  /\ pc[s] \in Reading
           /\ pc[s] = "sending" /\ Incoming(s) = <<>> =>
                 Waited(s) /\ (SendWaited(s) \/ GiveUp(s))
           /\ pc[s] = "sending" /\ Incoming(s) # <<>> =>
                 LET tok == Head(Incoming(s)).tok
                 IN  /\ tok = "ack" => SendAcked(s)
                     /\ tok = "nak" => SendRefused(s)
                     /\ tok = "rlr" => SendAsked(s)
                     /\ tok \in {"block", "bad", "noise"} => SendConfused(s)
           /\ pc[s] = "discarding" =>
                 (Incoming(s) = <<>> /\ Silence(s)) \/ (Incoming(s) # <<>> /\ Discard(s))
           /\ pc[s] = "receiving" =>
                 /\ Incoming(s) # <<>>
                 /\ LET tok == Head(Incoming(s)).tok
                    IN  /\ tok = "block" => ReceiveBlock(s) \/ ReceiveOther(s)
                        /\ tok = "bad" => ReceiveBad(s)
                        /\ tok = "rlr" => ReceiveAsked(s)
                        /\ tok \in {"ack", "nak", "noise"} => ReceiveJunk(s)
<1>. USE DEF LinkStep, Answered, Receives, Hears, Waited, Quiet, Reading, PutPlaces, Resyncing
<1>1. CASE SendAcked(s) \/ SendRefused(s) \/ SendAsked(s) \/ SendConfused(s)
  BY <1>1 DEF SendAcked, SendRefused, SendAsked, SendConfused
<1>2. CASE Discard(s) \/ Silence(s)
  BY <1>2 DEF Discard, Silence
<1>3. CASE SendWaited(s) \/ GiveUp(s)
  BY <1>3 DEF SendWaited, GiveUp
<1>4. CASE ReceiveBlock(s) \/ ReceiveOther(s)
  BY <1>4 DEF ReceiveBlock, ReceiveOther
<1>5. CASE ReceiveBad(s) \/ ReceiveAsked(s) \/ ReceiveJunk(s)
  BY <1>5 DEF ReceiveBad, ReceiveAsked, ReceiveJunk
<1>. QED
  BY <1>1, <1>2, <1>3, <1>4, <1>5

\* A step that gets no block across: s goes to a place, counts an error or not,
\* leaves rest of what its peer sent and says something.
progress == <<out, serving, puts, acked, got, SendBlkNo, ReceiveBlkNo>>

Chats(s, to, errs, rest, said) ==
    /\ UNCHANGED <<progress, faults>>
    /\ pc'[s] = to /\ pc'[Peer(s)] = pc[Peer(s)]
    /\ Errors'[s] = errs /\ Errors'[Peer(s)] = Errors[Peer(s)]
    /\ wire'[Peer(s)] = rest /\ wire'[s] = wire[s] \o said

LEMMA Chatting ==
    ASSUME LinkTyped, NEW s \in Sides
    PROVE  LET rest == Tail(Incoming(s))
               e == Errors[s]
           IN  /\ SendRefused(s) => Chats(s, "sending", OneMore(e), rest, <<out[s]>>)
               /\ SendAsked(s) =>
                     Chats(s, "sending", e, rest, <<Byte(LastResponse[s]), out[s]>>)
               /\ SendConfused(s) => Chats(s, "discarding", e, rest, <<>>)
               /\ Discard(s) => Chats(s, pc[s], e, rest, <<>>)
               /\ Silence(s) => Chats(s, "sending", OneMore(e), Incoming(s), <<Byte("rlr")>>)
               /\ SendWaited(s) => Chats(s, "sending", OneMore(e), Incoming(s), <<Byte("rlr")>>)
               /\ ReceiveOther(s) =>
                     \E q \in ClearCom(rest) : Chats(s, "receiving", e, q, <<Byte("ack")>>)
               /\ ReceiveBad(s) =>
                     \/ Chats(s, "receiving", e, rest, <<Byte("nak")>>)
                     \/ \E q \in ClearCom(rest) : Chats(s, "receiving", e, q, <<>>)
               /\ ReceiveAsked(s) => Chats(s, "receiving", e, rest, <<Byte("nak")>>)
               /\ ReceiveJunk(s) => Chats(s, "receiving", e, rest, <<>>)
<1>. DEFINE p == Peer(s)
<1>1. p \in Sides /\ p # s
  BY Peers
<1>2. /\ pc \in [Sides -> Reading \cup Away \cup Gone]
      /\ Errors \in [Sides -> 0 .. MaxErrors + 1] /\ wire \in [Sides -> Seq(Tokens)]
  BY DEF LinkTyped, ProgramTyped, CountersTyped, LineTyped
<1>3. ASSUME NEW q, NEW said, Exchange(s, q, said)
      PROVE  wire'[p] = q /\ wire'[s] = wire[s] \o said
  BY <1>1, <1>2, <1>3 DEF Exchange
<1>4. ASSUME NEW v, pc' = [pc EXCEPT ![s] = v] PROVE pc'[s] = v /\ pc'[p] = pc[p]
  BY <1>1, <1>2, <1>4
<1>5. ASSUME NEW v, Errors' = [Errors EXCEPT ![s] = v]
      PROVE  Errors'[s] = v /\ Errors'[p] = Errors[p]
  BY <1>1, <1>2, <1>5
<1>. HIDE DEF p
<1>. USE DEF Chats, progress, p, counters
<1>6. SendRefused(s) => Chats(s, "sending", OneMore(Errors[s]), Tail(Incoming(s)), <<out[s]>>)
  BY <1>3, <1>5 DEF SendRefused, Answered
<1>7. SendAsked(s) => Chats(s, "sending", Errors[s], Tail(Incoming(s)),
                            <<Byte(LastResponse[s]), out[s]>>)
  BY <1>3 DEF SendAsked, Answered
<1>8. SendConfused(s) => Chats(s, "discarding", Errors[s], Tail(Incoming(s)), <<>>)
  BY <1>3, <1>4 DEF SendConfused, Answered
<1>9. Discard(s) => Chats(s, pc[s], Errors[s], Tail(Incoming(s)), <<>>)
  BY <1>3 DEF Discard
<1>10. Silence(s) => Chats(s, "sending", OneMore(Errors[s]), Incoming(s), <<Byte("rlr")>>)
  BY <1>3, <1>4, <1>5 DEF Silence, AskAgain
<1>11. SendWaited(s) => Chats(s, "sending", OneMore(Errors[s]), Incoming(s), <<Byte("rlr")>>)
  BY <1>3, <1>5 DEF SendWaited, Waited, AskAgain
<1>12. ReceiveOther(s) =>
          \E q \in ClearCom(Tail(Incoming(s))) :
             Chats(s, "receiving", Errors[s], q, <<Byte("ack")>>)
  BY <1>3 DEF ReceiveOther, Receives
<1>13. ReceiveBad(s) =>
          \/ Chats(s, "receiving", Errors[s], Tail(Incoming(s)), <<Byte("nak")>>)
          \/ \E q \in ClearCom(Tail(Incoming(s))) : Chats(s, "receiving", Errors[s], q, <<>>)
  BY <1>3 DEF ReceiveBad, Receives
<1>14. ReceiveAsked(s) =>
          Chats(s, "receiving", Errors[s], Tail(Incoming(s)), <<Byte("nak")>>)
  BY <1>3 DEF ReceiveAsked, Receives
<1>15. ReceiveJunk(s) => Chats(s, "receiving", Errors[s], Tail(Incoming(s)), <<>>)
  BY <1>3 DEF ReceiveJunk, Receives
<1>. QED
  BY <1>6, <1>7, <1>8, <1>9, <1>10, <1>11, <1>12, <1>13, <1>14, <1>15

\* Small facts about sides, counters and errors.
LEMMA BothSides == \A s, x \in Sides : s = x \/ s = Peer(x)
BY DEF Sides, Peer

LEMMA OtherNo ==
    ASSUME OneFault, NEW n \in 0 .. CountMod - 1
    PROVE  NextNo(n) # n
<1>1. CountMod \in Nat /\ CountMod > 1
  BY SerLinkAssumption DEF OneFault
<1>2. CASE n + 1 < CountMod
  <2>1. (n + 1) % CountMod = n + 1
    BY <1>1, <1>2
  <2>. QED
    BY <2>1 DEF NextNo
<1>3. CASE n + 1 = CountMod
  <2>1. (n + 1) % CountMod = 0
    BY <1>1, <1>3
  <2>. QED
    BY <1>1, <1>3, <2>1 DEF NextNo
<1>. QED
  BY <1>1, <1>2, <1>3

LEMMA SmallErrors ==
    ASSUME LinkTyped, NEW s \in Sides
    PROVE  Errors[s] \in Nat /\ OneMore(Errors[s]) \in Nat /\ OneMore(Errors[s]) <= Errors[s] + 1
<1>1. Errors[s] \in 0 .. MaxErrors + 1 /\ MaxErrors \in Nat
  BY SerLinkAssumption DEF LinkTyped, CountersTyped
<1>. QED
  BY <1>1 DEF OneMore

\* Nothing gets across: what is settled, taken or not stays so.
LEMMA SameProgress ==
    ASSUME UNCHANGED progress, NEW s
    PROVE  /\ Settled(s) => Settled(s)'
           /\ Untaken(s) => Untaken(s)'
           /\ Taken(s) => Taken(s)'
BY DEF progress, Settled, Untaken, Taken, Sends, Delivered

LEMMA ChatKeepsFew ==
    ASSUME FewErrors, NEW s \in Sides, NEW to, NEW e, NEW rest, NEW said,
           Chats(s, to, e, rest, said), e <= 2
    PROVE  FewErrors'
<1>1. \A t \in Sides : t = s \/ t = Peer(s)
  BY BothSides
<1>. QED
  BY <1>1 DEF FewErrors, Chats, progress

LEMMA ChatKeepsNew ==
    ASSUME NEW x \in Sides, NEW y, y = Peer(x), NewBlock(x, y), NEW s \in Sides,
           NEW e, NEW rest, NEW said, Chats(s, pc[s], e, rest, said), NewLine(x, y)'
    PROVE  NewBlock(x, y)'
<1>1. Untaken(x)' /\ Settled(y)'
  BY SameProgress DEF Chats, NewBlock
<1>2. pc'[x] = pc[x] /\ pc'[y] = pc[y] /\ serving' = serving
  BY BothSides, Peers DEF Chats, progress
<1>. QED
  BY <1>1, <1>2 DEF NewBlock, AsksFor

\* The steps of x with its block under way: it waits in vain, or sends the block
\* again.
LEMMA NewSender ==
    ASSUME OneFault, LinkTyped, FewErrors,
           NEW x \in Sides, NEW y, y = Peer(x), NewBlock(x, y), LinkStep(x)
    PROVE  NewBlock(x, y)' /\ FewErrors'
<1>1. /\ y \in Sides /\ Peer(y) = x /\ Incoming(x) = wire[y] /\ y # x
      /\ pc[x] = "sending" /\ AsksFor(y) /\ NewLine(x, y)
  BY Peers DEF Incoming, NewBlock
<1>2. waits[x] = 0
  BY SerLinkAssumption DEF OneFault, LinkTyped, CountersTyped
<1>3. ~GiveUp(x)
  BY <1>1 DEF OneFault, GiveUp, AsksFor, Gone
<1>4. ASSUME wire[y] = <<>>
      PROVE  pc[y] = "receiving" /\ Line(x, y, <<>>, <<>>) /\ Fault(x, 0) /\ SendWaited(x)
  <2>1. Waited(x) /\ SendWaited(x)
    BY <1>1, <1>3, <1>4, Dispatch
  <2>2. pc[y] = "receiving"
    BY <1>1, <1>2, <2>1 DEF SendWaited, OneFault, AsksFor, Away
  <2>3. wire[x] = <<>>
    BY <1>1, <2>1, <2>2 DEF Waited, Quiet, Reading
  <2>4. \A a : <<a>> # <<>>
    OBVIOUS
  <2>5. Fault(x, 0)
    BY <1>1, <1>4, <2>3, <2>4, Zenon DEF NewLine, Line
  <2>. QED
    BY <1>4, <2>1, <2>2, <2>3, <2>5 DEF Line
<1>5. CASE wire[y] = <<>>
  <2>1. Chats(x, "sending", OneMore(Errors[x]), <<>>, <<Byte("rlr")>>)
    BY <1>1, <1>4, <1>5, Chatting
  <2>2. Errors[x] \in Nat /\ OneMore(Errors[x]) \in Nat /\ OneMore(Errors[x]) <= Errors[x] + 1
    BY SmallErrors
  <2>3. Errors'[x] <= 1 /\ OneMore(Errors[x]) <= 2 /\ faults' > 0
    BY <1>4, <1>5, <2>1, <2>2 DEF Chats, Fault
  <2>4. wire'[x] = <<Byte("rlr")>> /\ wire'[y] = <<>> /\ pc'[y] = "receiving"
    BY <1>1, <1>4, <1>5, <2>1, Words DEF Chats, Line
  <2>5. NewLine(x, y)'
    BY <2>3, <2>4 DEF NewLine, Line, Fault
  <2>. QED
    BY <1>1, <2>1, <2>3, <2>5, ChatKeepsNew, ChatKeepsFew
<1>6. CASE wire[y] # <<>>
  <2>1. Line(x, y, <<>>, <<Byte("nak")>>) /\ Fault(x, 1) /\ pc[y] = "receiving"
    BY <1>1, <1>6 DEF NewLine, Line
  <2>2. SendRefused(x)
    <3>1. Head(wire[y]).tok = "nak"
      BY <2>1, Words DEF Line, Byte
    <3>. QED
      BY <1>1, <1>6, <3>1, Dispatch
  <2>3. Chats(x, "sending", OneMore(Errors[x]), <<>>, <<out[x]>>)
    <3>1. Tail(Incoming(x)) = <<>>
      BY <1>1, <2>1, Words DEF Line
    <3>. QED
      BY <2>2, <3>1, Chatting
  <2>4. Errors[x] \in Nat /\ OneMore(Errors[x]) \in Nat /\ OneMore(Errors[x]) <= Errors[x] + 1
    BY SmallErrors
  <2>5. OneMore(Errors[x]) <= 2 /\ faults' > 0 /\ faults' \in Nat
    BY <2>1, <2>3, <2>4 DEF Chats, Fault, LinkTyped, LineTyped
  <2>6. wire'[x] = <<out[x]>> /\ wire'[y] = <<>> /\ out'[x] = out[x]
    BY <1>1, <2>1, <2>3, Words DEF Chats, Line, progress
  <2>7. NewLine(x, y)'
    BY <2>5, <2>6 DEF NewLine, Line, Clean
  <2>. QED
    BY <1>1, <2>3, <2>5, <2>7, ChatKeepsNew, ChatKeepsFew
<1>. QED
  BY <1>5, <1>6

\* y takes the block, or refuses it or an RLR, or clears the line.
LEMMA NewTaken ==
    ASSUME OneFault, LinkTyped, FewErrors,
           NEW x \in Sides, NEW y, y = Peer(x), NewBlock(x, y), ReceiveBlock(y),
           Line(x, y, <<out[x]>>, <<>>), Clean(x)
    PROVE  DoneBlock(x, y)' /\ FewErrors'
<1>1. /\ y \in Sides /\ Peer(y) = x /\ Incoming(y) = wire[x] /\ y # x
      /\ pc[x] = "sending" /\ Untaken(x) /\ Settled(y)
      /\ wire[x] = <<out[x]>> /\ wire[y] = <<>>
  BY Peers DEF Incoming, NewBlock, Line
<1>2. Head(Incoming(y)) = out[x] /\ Tail(Incoming(y)) = <<>>
  BY <1>1, Words
<1>3. out[x].err <= 2 /\ MaxErrors >= 2 /\ out[x].err \in Nat /\ MaxErrors \in Nat
  BY SerLinkAssumption DEF FewErrors, OneFault, LinkTyped, ProgramTyped, Blocks
<1>4. /\ Receives(y, {"block"}, <<>>, <<Byte("ack")>>)
      /\ ReceiveBlkNo' = [ReceiveBlkNo EXCEPT ![y] = NextNo(@)]
      /\ serving' = IF y = "server" THEN out[x] ELSE serving
      /\ pc' = [pc EXCEPT ![y] = AfterGet(y)]
      /\ got' = [got EXCEPT ![y] = Append(@, out[x].idx)]
  <2>. DEFINE b == Head(Incoming(y))
  <2>1. b = out[x] /\ b.err <= MaxErrors /\ ~(b.err > MaxErrors)
    BY <1>2, <1>3
  <2>. HIDE DEF b
  <2>2. /\ Receives(y, {"block"}, Tail(Incoming(y)), <<Byte("ack")>>)
        /\ ReceiveBlkNo' = [ReceiveBlkNo EXCEPT ![y] = NextNo(@)]
        /\ serving' = IF y = "server" THEN b ELSE serving
        /\ \/ b.err > MaxErrors
           \/ /\ pc' = [pc EXCEPT ![y] = AfterGet(y)]
              /\ got' = [got EXCEPT ![y] = Append(@, b.idx)]
    BY DEF ReceiveBlock, b
  <2>. QED
    BY <1>2, <2>1, <2>2
<1>5. /\ pc \in [Sides -> Reading \cup Away \cup Gone] /\ wire \in [Sides -> Seq(Tokens)]
      /\ ReceiveBlkNo \in [Sides -> 0 .. CountMod - 1] /\ got \in [Sides -> Seq(Nat)]
      /\ puts[x] \in Nat /\ out[x].idx \in Nat /\ got[y] \in Seq(Nat) /\ out[x].idx > 0
  BY <1>1 DEF LinkTyped, ProgramTyped, CountersTyped, LineTyped, GhostsTyped, Blocks, PutPlaces
<1>6. /\ pc'[y] = AfterGet(y) /\ pc'[x] = "sending"
      /\ ReceiveBlkNo'[y] = NextNo(ReceiveBlkNo[y]) /\ ReceiveBlkNo'[x] = ReceiveBlkNo[x]
      /\ got'[y] = Append(got[y], out[x].idx) /\ got'[x] = got[x]
      /\ UNCHANGED <<out, SendBlkNo, Errors, faults, puts, acked>>
  BY <1>1, <1>4, <1>5 DEF Receives
<1>7. wire'[x] = <<>> /\ wire'[y] = <<Byte("ack")>>
  BY <1>1, <1>4, <1>5, Words DEF Receives, Exchange
<1>8. Settled(y)'
  BY <1>1, <1>6 DEF Settled, Delivered
<1>9. Delivered(x, puts[x])'
  <2>1. Len(got[y]) = puts[x] - 1 /\ (\A k \in 1 .. puts[x] - 1 : got[y][k] = k)
        /\ out[x].idx = puts[x]
    BY <1>1 DEF Untaken, Sends, Delivered
  <2>. DEFINE n == puts[x]
              g == got[y]
  <2>2. got'[y] = Append(g, n) /\ n \in Nat /\ g \in Seq(Nat) /\ n > 0
    BY <1>5, <1>6, <2>1
  <2>3. Len(g) = n - 1 /\ \A k \in 1 .. n - 1 : g[k] = k
    BY <2>1
  <2>. HIDE DEF n, g
  <2>4. Len(Append(g, n)) = n /\ \A k \in 1 .. n : Append(g, n)[k] = k
    <3>1. /\ Len(Append(g, n)) = Len(g) + 1 /\ Append(g, n)[n] = n
          /\ \A k \in 1 .. n - 1 : Append(g, n)[k] = g[k]
      BY <2>2, <2>3, AppendProperties
    <3>. QED
      BY <2>2, <2>3, <3>1
  <2>5. Len(got'[y]) = puts[x] /\ \A k \in 1 .. puts[x] : got'[y][k] = k
    BY <2>2, <2>4 DEF n
  <2>. QED
    BY <1>1, <1>6, <2>5 DEF Delivered
<1>10. Taken(x)'
  BY <1>1, <1>6, <1>9 DEF Taken, Untaken, Sends
<1>11. WentOn(x, y)'
  BY <1>1, <1>4, <1>6, BothSides DEF WentOn, AfterGet, Sides, Peer
<1>12. DoneLine(x, y)'
  BY <1>6, <1>7 DEF DoneLine, Line, Clean
<1>13. FewErrors'
  BY <1>6 DEF FewErrors
<1>. QED
  BY <1>8, <1>10, <1>11, <1>12, <1>13 DEF DoneBlock

LEMMA NewRefused ==
    ASSUME OneFault, LinkTyped, FewErrors,
           NEW x \in Sides, NEW y, y = Peer(x), NewBlock(x, y), LinkStep(y), ~ReceiveBlock(y)
    PROVE  NewBlock(x, y)' /\ FewErrors'
<1>1. /\ y \in Sides /\ Peer(y) = x /\ Incoming(y) = wire[x] /\ y # x
      /\ pc[x] = "sending" /\ Untaken(x) /\ AsksFor(y) /\ NewLine(x, y)
  BY Peers DEF Incoming, NewBlock
<1>2. pc[y] = "receiving" /\ wire[x] # <<>>
  <2>1. pc[y] \in Reading
    BY <1>1, Dispatch
  <2>2. pc[y] = "receiving"
    BY <1>1, <2>1 DEF AsksFor, Reading, PutPlaces, Resyncing
  <2>. QED
    BY <1>1, <2>2, Dispatch
<1>3. wire[x] # <<out[x]>>
  <2>. SUFFICES ASSUME wire[x] = <<out[x]>> PROVE FALSE
    OBVIOUS
  <2>1. Head(Incoming(y)) = out[x] /\ out[x].tok = "block"
    BY <1>1, Words DEF LinkTyped, ProgramTyped, Blocks
  <2>2. ReceiveOther(y)
    BY <1>1, <1>2, <2>1, Dispatch
  <2>3. out[x].no # ReceiveBlkNo[y]
    BY <2>1, <2>2 DEF ReceiveOther, Expected
  <2>. QED
    BY <1>1, <2>3 DEF Untaken, Sends
<1>4. /\ wire[y] = <<>> /\ faults > 0 /\ Errors[x] <= 1
      /\ \/ wire[x] = <<Byte("bad")>> /\ Errors[x] <= 0
         \/ wire[x] = <<Byte("noise")>> /\ Errors[x] <= 0
         \/ wire[x] = <<Byte("rlr")>>
  <2>1. Errors[x] \in Nat
    BY SmallErrors
  <2>2. wire[x] # <<>> /\ wire[x] # <<out[x]>>
    BY <1>2, <1>3
  <2>. QED
    BY <1>1, <2>1, <2>2 DEF NewLine, Line, Fault
<1>5. ASSUME Chats(y, "receiving", Errors[y], <<>>, <<Byte("nak")>>)
      PROVE  NewBlock(x, y)' /\ FewErrors'
  <2>1. wire'[x] = <<>> /\ wire'[y] = <<Byte("nak")>> /\ pc'[y] = "receiving"
        /\ faults' > 0 /\ Errors'[x] <= 1
    BY <1>1, <1>4, <1>5, Words DEF Chats
  <2>2. NewLine(x, y)'
    BY <2>1 DEF NewLine, Line, Fault
  <2>3. Errors[y] <= 2
    BY <1>1 DEF FewErrors
  <2>. QED
    BY <1>1, <1>2, <1>5, <2>2, <2>3, ChatKeepsNew, ChatKeepsFew
<1>6. ASSUME Chats(y, "receiving", Errors[y], <<>>, <<>>), Errors[x] <= 0
      PROVE  NewBlock(x, y)' /\ FewErrors'
  <2>1. wire'[x] = <<>> /\ wire'[y] = <<>> /\ faults' > 0 /\ Errors'[x] <= 0
    BY <1>1, <1>4, <1>6, Words DEF Chats
  <2>2. NewLine(x, y)'
    BY <2>1 DEF NewLine, Line, Fault
  <2>3. Errors[y] <= 2
    BY <1>1 DEF FewErrors
  <2>. QED
    BY <1>1, <1>2, <1>6, <2>2, <2>3, ChatKeepsNew, ChatKeepsFew
<1>7. CASE wire[x] = <<Byte("bad")>> /\ Errors[x] <= 0
  <2>1. Head(Incoming(y)).tok = "bad" /\ Tail(Incoming(y)) = <<>>
    BY <1>1, <1>7, Words DEF Byte
  <2>2. ReceiveBad(y)
    BY <1>1, <1>2, <2>1, Dispatch
  <2>3. \/ Chats(y, "receiving", Errors[y], <<>>, <<Byte("nak")>>)
        \/ \E q \in ClearCom(<<>>) : Chats(y, "receiving", Errors[y], q, <<>>)
    BY <1>1, <2>1, <2>2, Chatting
  <2>4. \/ Chats(y, "receiving", Errors[y], <<>>, <<Byte("nak")>>)
        \/ Chats(y, "receiving", Errors[y], <<>>, <<>>)
    BY <2>3, ClearEmpty
  <2>. QED
    BY <1>5, <1>6, <1>7, <2>4
<1>8. CASE wire[x] = <<Byte("noise")>> /\ Errors[x] <= 0
  <2>1. Head(Incoming(y)).tok = "noise" /\ Tail(Incoming(y)) = <<>>
    BY <1>1, <1>8, Words DEF Byte
  <2>2. ReceiveJunk(y)
    BY <1>1, <1>2, <2>1, Dispatch
  <2>3. Chats(y, "receiving", Errors[y], <<>>, <<>>)
    BY <1>1, <2>1, <2>2, Chatting
  <2>. QED
    BY <1>6, <1>8, <2>3
<1>9. CASE wire[x] = <<Byte("rlr")>>
  <2>1. Head(Incoming(y)).tok = "rlr" /\ Tail(Incoming(y)) = <<>>
    BY <1>1, <1>9, Words DEF Byte
  <2>2. ReceiveAsked(y)
    BY <1>1, <1>2, <2>1, Dispatch
  <2>3. Chats(y, "receiving", Errors[y], <<>>, <<Byte("nak")>>)
    BY <1>1, <2>1, <2>2, Chatting
  <2>. QED
    BY <1>5, <2>3
<1>. QED
  BY <1>4, <1>7, <1>8, <1>9

\* A block is taken only as it was sent.
LEMMA NewReceived ==
    ASSUME LinkTyped, NEW x \in Sides, NEW y, y = Peer(x), NewBlock(x, y), ReceiveBlock(y)
    PROVE  Line(x, y, <<out[x]>>, <<>>) /\ Clean(x)
<1>1. wire[x] # <<>> /\ Head(wire[x]).tok = "block"
  BY Peers DEF ReceiveBlock, Hears, Incoming
<1>2. ASSUME NEW t, t # "block" PROVE wire[x] # <<Byte(t)>>
  BY <1>1, <1>2, Words DEF Byte
<1>3. wire[x] # <<Byte("bad")>> /\ wire[x] # <<Byte("noise")>> /\ wire[x] # <<Byte("rlr")>>
  BY <1>2
<1>. QED
  BY <1>1, <1>3 DEF NewBlock, NewLine, Line

LEMMA NewStep ==
    ASSUME OneFault, LinkTyped, FewErrors,
           NEW x \in Sides, NewBlock(x, Peer(x)), NEW s \in Sides, LinkStep(s)
    PROVE  (NewBlock(x, Peer(x))' \/ DoneBlock(x, Peer(x))') /\ FewErrors'
<1>1. CASE s = x
  BY <1>1, NewSender
<1>2. CASE s = Peer(x) /\ ReceiveBlock(s)
  <2>1. Line(x, Peer(x), <<out[x]>>, <<>>) /\ Clean(x)
    BY <1>2, NewReceived
  <2>. QED
    BY <1>2, <2>1, NewTaken
<1>3. CASE s = Peer(x) /\ ~ReceiveBlock(s)
  BY <1>3, NewRefused
<1>. QED
  BY <1>1, <1>2, <1>3, BothSides

LEMMA ChatKeepsDone ==
    ASSUME NEW x \in Sides, NEW y, y = Peer(x), DoneBlock(x, y), NEW s \in Sides,
           NEW to, NEW e, NEW rest, NEW said, Chats(s, to, e, rest, said),
           s = x \/ to = pc[y], DoneLine(x, y)'
    PROVE  DoneBlock(x, y)'
<1>1. Taken(x)' /\ Settled(y)'
  BY SameProgress DEF Chats, DoneBlock
<1>2. pc'[y] = pc[y] /\ serving' = serving /\ out' = out
  BY BothSides, Peers DEF Chats, progress
<1>. QED
  BY <1>1, <1>2 DEF DoneBlock, WentOn

\* The block counts as sent, and its receiver as told.
LEMMA AckedSettled ==
    ASSUME LinkTyped, NEW x \in Sides, Taken(x), pc[x] = "sending", SendAcked(x)
    PROVE  /\ Settled(x)' /\ (Settled(Peer(x)) => Settled(Peer(x))')
           /\ Untaken(Peer(x)) => Untaken(Peer(x))'
           /\ UNCHANGED <<out, serving, puts, got, Errors, faults>>
           /\ wire'[x] = wire[x] /\ wire'[Peer(x)] = Tail(wire[Peer(x)])
           /\ pc'[Peer(x)] = pc[Peer(x)]
<1>. DEFINE y == Peer(x)
<1>1. y \in Sides /\ y # x /\ Peer(y) = x /\ Incoming(x) = wire[y]
  BY Peers DEF Incoming
<1>2. /\ pc \in [Sides -> Reading \cup Away \cup Gone] /\ wire \in [Sides -> Seq(Tokens)]
      /\ SendBlkNo \in [Sides -> 0 .. CountMod - 1] /\ acked \in [Sides -> SUBSET Nat]
      /\ puts[x] \in Nat /\ out[x].idx \in Nat /\ out[x].idx > 0
  BY DEF LinkTyped, ProgramTyped, CountersTyped, LineTyped, GhostsTyped, Blocks, PutPlaces
<1>3. wire[x] \o <<>> = wire[x]
  BY <1>2, ConcatEmptySeq
<1>4. /\ SendBlkNo'[x] = NextNo(SendBlkNo[x]) /\ SendBlkNo'[y] = SendBlkNo[y]
      /\ acked'[x] = acked[x] \cup {out[x].idx} /\ acked'[y] = acked[y]
      /\ UNCHANGED <<out, serving, puts, got, ReceiveBlkNo, Errors, faults>>
      /\ pc'[y] = pc[y]
  BY <1>1, <1>2 DEF SendAcked, Answered
<1>5. wire'[x] = wire[x] /\ wire'[y] = Tail(wire[y])
  BY <1>1, <1>2, <1>3 DEF SendAcked, Answered, Exchange
<1>6. acked'[x] = 1 .. puts[x]
  <2>1. acked'[x] = (1 .. puts[x] - 1) \cup {puts[x]} /\ puts[x] > 0
    BY <1>2, <1>4 DEF Taken, Sends
  <2>. QED
    BY <1>2, <2>1
<1>7. Settled(x)'
  BY <1>1, <1>4, <1>6 DEF Settled, Taken, Delivered
<1>8. Settled(y) => Settled(y)'
  BY <1>1, <1>4 DEF Settled, Delivered
<1>9. Untaken(y) => Untaken(y)'
  BY <1>1, <1>4 DEF Untaken, Sends, Delivered
<1>. QED
  BY <1>4, <1>5, <1>7, <1>8, <1>9

\* The end of an exchange.
LEMMA DoneAcked ==
    ASSUME OneFault, LinkTyped, FewErrors,
           NEW x \in Sides, NEW y, y = Peer(x), DoneBlock(x, y),
           Line(x, y, <<>>, <<Byte("ack")>>), SendAcked(x)
    PROVE  (Resting' \/ Ended') /\ FewErrors'
<1>1. pc[x] = "sending" /\ Taken(x) /\ Settled(y) /\ WentOn(x, y)
  BY DEF DoneBlock, SendAcked, Answered
<1>2. /\ Settled(x)' /\ Settled(y)' /\ UNCHANGED <<out, serving, Errors>>
      /\ wire'[x] = <<>> /\ wire'[y] = <<>> /\ pc'[y] = pc[y]
  BY <1>1, AckedSettled, Words DEF Line
<1>3. FewErrors'
  BY <1>2 DEF FewErrors
<1>4. pc'[x] = AfterPut(x)
  <2>1. out[x].err <= 2 /\ MaxErrors >= 2 /\ out[x].err \in Nat /\ MaxErrors \in Nat
    BY SerLinkAssumption DEF FewErrors, OneFault, LinkTyped, ProgramTyped, Blocks
  <2>2. pc \in [Sides -> Reading \cup Away \cup Gone] /\ ~(out[x].err > MaxErrors)
    BY <2>1 DEF LinkTyped, ProgramTyped
  <2>. QED
    BY <2>2 DEF SendAcked
<1>5. \A s \in Sides : Settled(s)'
  BY <1>2, BothSides
<1>6. Line("client", "server", <<>>, <<>>)'
  BY <1>2 DEF Sides, Peer, Line
<1>7. CASE x = "server"
  <2>1. pc'["server"] = "receiving" /\ pc'["client"] = "idle"
    BY <1>1, <1>2, <1>4, <1>7 DEF WentOn, AfterPut, Peer
  <2>. QED
    BY <1>3, <1>5, <1>6, <2>1 DEF Resting, RestPlaces, Sides
<1>8. CASE x = "client"
  <2>1. out[x].req \in RequestKinds /\ serving = out[x] /\ y = "server"
    BY <1>1, <1>8 DEF Taken, Sends, WentOn, Peer
  <2>2. RestPlaces' \/ Apart'
    BY <1>1, <1>2, <1>4, <1>8, <2>1 DEF WentOn, AfterPut, RestPlaces, Apart, RequestKinds
  <2>3. Apart' => Ended'
    BY <1>5 DEF Settled, Ended
  <2>. QED
    BY <1>3, <1>5, <1>6, <2>2, <2>3 DEF Resting, Sides
<1>. QED
  BY <1>7, <1>8 DEF Sides

\* The sender of a block that was taken does not know it: it discards, asks, or
\* sends the block again.
LEMMA DoneAsks ==
    ASSUME OneFault, LinkTyped, FewErrors,
           NEW x \in Sides, NEW y, y = Peer(x), DoneBlock(x, y),
           LinkStep(x), ~SendAcked(x), ~GiveUp(x)
    PROVE  DoneBlock(x, y)' /\ FewErrors'
<1>1. /\ y \in Sides /\ Peer(y) = x /\ Incoming(x) = wire[y] /\ y # x
      /\ pc[x] \in PutPlaces /\ WentOn(x, y) /\ DoneLine(x, y)
  BY Peers DEF Incoming, DoneBlock, DoneLine, PutPlaces
<1>2. Errors[x] \in Nat /\ OneMore(Errors[x]) \in Nat /\ OneMore(Errors[x]) <= Errors[x] + 1
      /\ Errors[x] <= 2 /\ faults \in Nat
  BY SmallErrors DEF FewErrors, LinkTyped, LineTyped
<1>3. ASSUME SendWaited(x)
      PROVE  pc[y] = "receiving" /\ wire[x] = <<>>
  <2>1. waits[x] = 0 /\ Patience = 0
    BY SerLinkAssumption DEF OneFault, LinkTyped, CountersTyped
  <2>2. pc[y] \notin Away \cup Gone
    BY <1>1, <1>3, <2>1 DEF SendWaited
  <2>3. pc[y] = "receiving"
    BY <1>1, <2>2 DEF WentOn, Away, Gone
  <2>. QED
    BY <1>1, <1>3, <2>3 DEF SendWaited, Waited, Quiet, Reading
<1>4. ASSUME Chats(x, "sending", OneMore(Errors[x]), <<>>, <<Byte("rlr")>>),
             wire[x] = <<>>, wire[y] = <<>>, Fault(x, 0)
      PROVE  DoneBlock(x, y)' /\ FewErrors'
  <2>1. wire'[x] = <<Byte("rlr")>> /\ wire'[y] = <<>> /\ pc'[x] = "sending"
        /\ faults' > 0 /\ Errors'[x] <= 1 /\ OneMore(Errors[x]) <= 2
    BY <1>1, <1>2, <1>4, Words DEF Chats, Fault
  <2>2. DoneLine(x, y)'
    BY <2>1 DEF DoneLine, Line, Fault
  <2>. QED
    BY <1>1, <1>4, <2>1, <2>2, ChatKeepsDone, ChatKeepsFew
<1>5. CASE pc[x] = "sending" /\ Line(x, y, <<>>, <<Byte("ack")>>)
  <2>1. wire[y] # <<>> /\ Head(wire[y]).tok = "ack"
    BY <1>5, Words DEF Line, Byte
  <2>. QED
    BY <1>1, <1>5, <2>1, Dispatch
<1>6. CASE pc[x] = "sending" /\ Line(x, y, <<>>, <<Byte("noise")>>) /\ Fault(x, 0)
  <2>1. wire[y] # <<>> /\ Head(wire[y]).tok = "noise" /\ Tail(wire[y]) = <<>>
    BY <1>6, Words DEF Line, Byte
  <2>2. SendConfused(x)
    BY <1>1, <1>6, <2>1, Dispatch
  <2>3. Chats(x, "discarding", Errors[x], <<>>, <<>>)
    BY <1>1, <2>1, <2>2, Chatting
  <2>4. wire'[x] = <<>> /\ wire'[y] = <<>> /\ pc'[x] = "discarding" /\ Fault(x, 0)'
    BY <1>1, <1>6, <2>3, Words DEF Chats, Line, Fault
  <2>5. DoneLine(x, y)'
    BY <2>4 DEF DoneLine, Line, PutPlaces
  <2>. QED
    BY <1>1, <1>2, <2>3, <2>5, ChatKeepsDone, ChatKeepsFew
<1>7. CASE Line(x, y, <<>>, <<>>) /\ Fault(x, 0)
  <2>1. SendWaited(x) \/ Silence(x)
    BY <1>1, <1>7, Dispatch DEF Line, PutPlaces
  <2>2. Chats(x, "sending", OneMore(Errors[x]), <<>>, <<Byte("rlr")>>)
    BY <1>1, <1>7, <2>1, Chatting DEF Line
  <2>. QED
    BY <1>4, <1>7, <2>2 DEF Line
<1>8. CASE pc[x] = "sending" /\ Line(x, y, <<Byte("rlr")>>, <<>>)
  <2>1. SendWaited(x)
    BY <1>1, <1>8, Dispatch DEF Line
  <2>. QED
    BY <1>3, <1>8, <2>1, Words DEF Line
<1>9. CASE pc[x] = "sending" /\ Line(x, y, <<>>, <<Byte("nak")>>) /\ Fault(x, 1) /\ pc[y] = "receiving"
  <2>1. wire[y] # <<>> /\ Head(wire[y]).tok = "nak" /\ Tail(wire[y]) = <<>>
    BY <1>9, Words DEF Line, Byte
  <2>2. SendRefused(x)
    BY <1>1, <1>9, <2>1, Dispatch
  <2>3. Chats(x, "sending", OneMore(Errors[x]), <<>>, <<out[x]>>)
    BY <1>1, <2>1, <2>2, Chatting
  <2>4. wire'[x] = <<out[x]>> /\ wire'[y] = <<>> /\ pc'[x] = "sending" /\ out'[x] = out[x]
    BY <1>1, <1>9, <2>3, Words DEF Chats, Line, progress
  <2>5. pc'[y] = "receiving" /\ Fault(x, 2)' /\ OneMore(Errors[x]) <= 2
    BY <1>1, <1>2, <1>9, <2>3 DEF Chats, Fault
  <2>6. DoneLine(x, y)'
    BY <2>4, <2>5 DEF DoneLine, Line
  <2>. QED
    BY <1>1, <2>3, <2>5, <2>6, ChatKeepsDone, ChatKeepsFew
<1>10. CASE pc[x] = "sending" /\ Line(x, y, <<out[x]>>, <<>>)
  <2>1. SendWaited(x)
    BY <1>1, <1>10, Dispatch DEF Line
  <2>. QED
    BY <1>3, <1>10, <2>1, Words DEF Line
<1>. QED
  BY <1>1, <1>5, <1>6, <1>7, <1>8, <1>9, <1>10 DEF DoneLine

\* The receiver of the block hears from it again.
LEMMA DoneAnswers ==
    ASSUME OneFault, LinkTyped, FewErrors,
           NEW x \in Sides, NEW y, y = Peer(x), DoneBlock(x, y), LinkStep(y)
    PROVE  DoneBlock(x, y)' /\ FewErrors'
<1>1. /\ y \in Sides /\ Peer(y) = x /\ Incoming(y) = wire[x] /\ y # x
      /\ pc[x] \in PutPlaces /\ WentOn(x, y) /\ DoneLine(x, y) /\ Taken(x)
  BY Peers DEF Incoming, DoneBlock, DoneLine, PutPlaces
<1>2. Errors[y] \in Nat /\ Errors[y] <= 2 /\ faults \in Nat
  BY <1>1, SmallErrors DEF FewErrors, LinkTyped, LineTyped
<1>3. pc[y] = "receiving" /\ wire[x] # <<>>
  <2>1. pc[y] \in Reading
    BY <1>1, Dispatch
  <2>2. pc[y] = "receiving"
    BY <1>1, <2>1 DEF WentOn, Reading, PutPlaces, Resyncing
  <2>. QED
    BY <1>1, <2>2, Dispatch
<1>4. \/ Line(x, y, <<Byte("rlr")>>, <<>>) /\ Fault(x, 1) /\ pc[x] = "sending"
      \/ Line(x, y, <<out[x]>>, <<>>) /\ Fault(x, 2) /\ pc[x] = "sending"
  BY <1>1, <1>3 DEF DoneLine, Line
<1>5. CASE Line(x, y, <<Byte("rlr")>>, <<>>) /\ Fault(x, 1) /\ pc[x] = "sending"
  <2>1. Head(Incoming(y)).tok = "rlr" /\ Tail(Incoming(y)) = <<>>
    BY <1>1, <1>5, Words DEF Line, Byte
  <2>2. ReceiveAsked(y)
    BY <1>1, <1>3, <2>1, Dispatch
  <2>3. Chats(y, "receiving", Errors[y], <<>>, <<Byte("nak")>>)
    BY <1>1, <2>1, <2>2, Chatting
  <2>4. /\ wire'[x] = <<>> /\ wire'[y] = <<Byte("nak")>> /\ pc'[x] = "sending"
        /\ pc'[y] = "receiving" /\ Fault(x, 1)'
    BY <1>1, <1>5, <2>3, Words DEF Chats, Line, Fault
  <2>5. DoneLine(x, y)'
    BY <2>4 DEF DoneLine, Line
  <2>. QED
    BY <1>1, <1>2, <1>3, <2>3, <2>5, ChatKeepsDone, ChatKeepsFew
<1>6. CASE Line(x, y, <<out[x]>>, <<>>) /\ Fault(x, 2) /\ pc[x] = "sending"
  <2>1. Head(Incoming(y)) = out[x] /\ Tail(Incoming(y)) = <<>> /\ out[x].tok = "block"
    BY <1>1, <1>6, Words DEF Line, LinkTyped, ProgramTyped, Blocks
  <2>2. out[x].no # ReceiveBlkNo[y]
    BY <1>1, OtherNo DEF Taken, Sends, LinkTyped, CountersTyped
  <2>3. ReceiveOther(y)
    <3>1. ReceiveBlock(y) \/ ReceiveOther(y)
      BY <1>1, <1>3, <2>1, Dispatch
    <3>. QED
      BY <2>1, <2>2, <3>1 DEF ReceiveBlock, Expected
  <2>4. Chats(y, "receiving", Errors[y], <<>>, <<Byte("ack")>>)
    <3>1. \E q \in ClearCom(<<>>) : Chats(y, "receiving", Errors[y], q, <<Byte("ack")>>)
      BY <1>1, <2>1, <2>3, Chatting
    <3>. QED
      BY <3>1, ClearEmpty
  <2>5. /\ wire'[x] = <<>> /\ wire'[y] = <<Byte("ack")>> /\ pc'[x] = "sending"
        /\ faults' > 0 /\ faults' \in Nat
    BY <1>1, <1>2, <1>6, <2>4, Words DEF Chats, Line, Fault
  <2>6. DoneLine(x, y)'
    BY <2>5 DEF DoneLine, Line, Clean
  <2>. QED
    BY <1>1, <1>2, <1>3, <2>4, <2>6, ChatKeepsDone, ChatKeepsFew
<1>. QED
  BY <1>4, <1>5, <1>6

\* The client that takes its leave does not learn that the server has gone.
LEMMA DoneLeft ==
    ASSUME OneFault, LinkTyped, FewErrors,
           NEW x \in Sides, NEW y, y = Peer(x), DoneBlock(x, y), GiveUp(x)
    PROVE  Ended' /\ FewErrors'
<1>1. WentOn(x, y) /\ Settled(y) /\ Taken(x) /\ y \in Sides /\ x # y
  BY Peers DEF DoneBlock
<1>2. pc[y] \in Gone /\ UNCHANGED <<out, counters, puts, acked, got>>
  BY <1>1 DEF GiveUp, OneFault
<1>3. x = "client" /\ y = "server" /\ pc[y] = "listening" /\ out[x].req = "bye"
  BY <1>1, <1>2 DEF WentOn, Gone, Sides, Peer
<1>4. pc'["client"] = "off" /\ pc'["server"] = "listening"
  <2>1. pc \in [Sides -> Reading \cup Away \cup Gone]
    BY DEF LinkTyped, ProgramTyped
  <2>. QED
    BY <1>1, <1>3, <2>1 DEF GiveUp
<1>5. puts[x] \in Nat /\ acked[x] = 1 .. puts[x] - 1 /\ Delivered(x, puts[x])
      /\ acked[y] = 1 .. puts[y] /\ Delivered(y, puts[y])
  BY <1>1 DEF Taken, Sends, Settled, LinkTyped, GhostsTyped
<1>6. \A s \in Sides : Delivered(s, puts[s]) /\ acked[s] \subseteq 1 .. puts[s]
  <2>1. acked[x] \subseteq 1 .. puts[x]
    BY <1>5
  <2>2. \A s \in Sides : s = x \/ s = y
    BY BothSides
  <2>. QED
    BY <1>5, <2>1, <2>2, Zenon
<1>7. \A s \in Sides : Delivered(s, puts[s])' /\ acked'[s] \subseteq 1 .. puts'[s]
  BY <1>2, <1>6 DEF Delivered
<1>. QED
  BY <1>2, <1>4, <1>7 DEF Ended, Apart, FewErrors, counters

LEMMA DoneStep ==
    ASSUME OneFault, LinkTyped, FewErrors,
           NEW x \in Sides, DoneBlock(x, Peer(x)), NEW s \in Sides, LinkStep(s)
    PROVE  (DoneBlock(x, Peer(x))' \/ Resting' \/ Ended') /\ FewErrors'
<1>1. CASE s = x /\ SendAcked(s)
  <2>1. Incoming(x) # <<>> /\ Head(Incoming(x)).tok = "ack" /\ pc[x] = "sending"
        /\ Incoming(x) = wire[Peer(x)]
    BY <1>1 DEF SendAcked, Answered, Hears, Incoming
  <2>2. ASSUME NEW t, t # "ack" PROVE wire[Peer(x)] # <<Byte(t)>>
    BY <2>1, <2>2, Words DEF Byte
  <2>3. wire[Peer(x)] # <<Byte("noise")>> /\ wire[Peer(x)] # <<Byte("nak")>>
    BY <2>2
  <2>4. Line(x, Peer(x), <<>>, <<Byte("ack")>>)
    BY <2>1, <2>3 DEF DoneBlock, DoneLine, Line
  <2>. QED
    BY <1>1, <2>4, DoneAcked
<1>2. CASE s = x /\ GiveUp(s)
  BY <1>2, DoneLeft
<1>3. CASE s = x /\ ~SendAcked(s) /\ ~GiveUp(s)
  BY <1>3, DoneAsks
<1>4. CASE s = Peer(x)
  BY <1>4, DoneAnswers
<1>. QED
  BY <1>1, <1>2, <1>3, <1>4, BothSides

LEMMA ChatKeepsBoth ==
    ASSUME NEW x \in Sides, NEW y, y = Peer(x), BothSend(x, y), NEW s \in Sides,
           NEW to, NEW e, NEW rest, NEW said, Chats(s, to, e, rest, said),
           s = x \/ (to = "sending" /\ e = Errors[y]), BothLine(x, y)'
    PROVE  BothSend(x, y)'
<1>1. Taken(x)' /\ Untaken(y)'
  BY SameProgress DEF Chats, BothSend
<1>2. pc'[y] = "sending" /\ Errors'[y] = 0 /\ out' = out
  BY BothSides, Peers DEF Chats, progress, BothSend
<1>. QED
  BY <1>1, <1>2 DEF BothSend


\* The acknowledgement comes before the block behind it.
LEMMA BothAcked ==
    ASSUME OneFault, LinkTyped, FewErrors,
           NEW x \in Sides, NEW y, y = Peer(x), BothSend(x, y),
           Line(x, y, <<>>, <<Byte("ack"), out[y]>>), SendAcked(x)
    PROVE  NewBlock(y, x)' /\ FewErrors'
<1>1. /\ pc[x] = "sending" /\ Taken(x) /\ Untaken(y) /\ pc[y] = "sending" /\ Errors[y] = 0
      /\ x = "client" => out[x].req = "call"
  BY DEF BothSend, SendAcked, Answered
<1>2. /\ Settled(x)' /\ Untaken(y)' /\ UNCHANGED <<out, serving, Errors, faults>>
      /\ wire'[x] = <<>> /\ wire'[y] = <<out[y]>> /\ pc'[y] = pc[y]
  <2>1. Tail(wire[y]) = <<out[y]>> /\ wire[x] = <<>>
    BY Words DEF Line
  <2>2. /\ Settled(x)' /\ (Untaken(y) => Untaken(y)') /\ UNCHANGED <<out, serving, Errors, faults>>
        /\ wire'[x] = wire[x] /\ wire'[y] = Tail(wire[y]) /\ pc'[y] = pc[y]
    BY <1>1, AckedSettled
  <2>. QED
    BY <1>1, <2>1, <2>2
<1>3. FewErrors'
  BY <1>2 DEF FewErrors
<1>4. pc'[x] = AfterPut(x)
  <2>1. out[x].err <= 2 /\ MaxErrors >= 2 /\ out[x].err \in Nat /\ MaxErrors \in Nat
    BY SerLinkAssumption DEF FewErrors, OneFault, LinkTyped, ProgramTyped, Blocks
  <2>2. pc \in [Sides -> Reading \cup Away \cup Gone] /\ ~(out[x].err > MaxErrors)
    BY <2>1 DEF LinkTyped, ProgramTyped
  <2>. QED
    BY <2>2 DEF SendAcked
<1>5. pc'[x] = "receiving"
  BY <1>1, <1>4 DEF AfterPut, Sides
<1>6. NewLine(y, x)'
  BY <1>1, <1>2 DEF NewLine, Line, Clean
<1>. QED
  BY <1>1, <1>2, <1>3, <1>5, <1>6 DEF NewBlock, AsksFor

\* Until then x throws away what it does not understand and asks again.
LEMMA BothAsks ==
    ASSUME OneFault, LinkTyped, FewErrors,
           NEW x \in Sides, NEW y, y = Peer(x), BothSend(x, y), LinkStep(x), ~SendAcked(x)
    PROVE  BothSend(x, y)' /\ FewErrors'
<1>1. /\ y \in Sides /\ Peer(y) = x /\ Incoming(x) = wire[y] /\ y # x
      /\ pc[x] \in PutPlaces /\ pc[y] = "sending" /\ BothLine(x, y)
  BY Peers DEF Incoming, BothSend, BothLine, PutPlaces
<1>2. Errors[x] \in Nat /\ OneMore(Errors[x]) \in Nat /\ OneMore(Errors[x]) <= Errors[x] + 1
      /\ Errors[x] <= 2 /\ faults \in Nat /\ out[y].tok = "block"
  <2>1. out[y].tok = "block"
    BY <1>1 DEF LinkTyped, ProgramTyped, Blocks
  <2>2. Errors[x] \in Nat /\ OneMore(Errors[x]) \in Nat /\ OneMore(Errors[x]) <= Errors[x] + 1
    BY SmallErrors
  <2>3. Errors[x] <= 2 /\ faults \in Nat
    BY DEF FewErrors, LinkTyped, LineTyped
  <2>. QED
    BY <2>1, <2>2, <2>3
<1>3. Quiet(x) => wire[x] = <<>> /\ wire[y] = <<>>
  BY <1>1 DEF Quiet, Reading, PutPlaces
<1>4. ASSUME Fault(x, 1), wire[y] # <<>>, wire'[x] = wire[x],
             Chats(x, "discarding", Errors[x], Tail(wire[y]), <<>>),
             \/ wire[x] = <<>> /\ Tail(wire[y]) = <<out[y]>>
             \/ wire[x] = <<>> /\ Tail(wire[y]) = <<>>
             \/ wire[x] = <<Byte("rlr")>> /\ Tail(wire[y]) = <<>>
             \/ wire[x] = <<>> /\ Tail(wire[y]) = <<Byte("ack"), out[y]>>
      PROVE  BothSend(x, y)' /\ FewErrors'
  <2>1. /\ pc'[x] = "discarding" /\ wire'[y] = Tail(wire[y]) /\ out'[y] = out[y]
        /\ Fault(x, 1)'
    BY <1>1, <1>4 DEF Chats, Fault, progress
  <2>2. BothLine(x, y)'
    BY <1>4, <2>1 DEF BothLine, Line, PutPlaces
  <2>. QED
    BY <1>1, <1>2, <1>4, <2>2, ChatKeepsBoth, ChatKeepsFew
<1>5. ASSUME wire[y] # <<>>, Head(wire[y]).tok \in {"block", "noise"} \/ pc[x] = "discarding"
      PROVE  Chats(x, "discarding", Errors[x], Tail(wire[y]), <<>>) /\ wire'[x] = wire[x]
  <2>1. SendConfused(x) \/ (pc[x] = "discarding" /\ Discard(x))
    BY <1>1, <1>5, Dispatch DEF PutPlaces
  <2>2. Chats(x, "discarding", Errors[x], Tail(wire[y]), <<>>)
    BY <1>1, <2>1, Chatting
  <2>3. wire[x] \o <<>> = wire[x]
    BY ConcatEmptySeq DEF LinkTyped, LineTyped
  <2>. QED
    BY <2>2, <2>3 DEF Chats
<1>6. CASE pc[x] = "sending" /\ Line(x, y, <<>>, <<Byte("ack"), out[y]>>)
  <2>1. wire[y] # <<>> /\ Head(wire[y]).tok = "ack"
    BY <1>6, Words DEF Line, Byte
  <2>. QED
    BY <1>1, <1>6, <2>1, Dispatch
<1>7. CASE pc[x] = "sending" /\ Line(x, y, <<>>, <<Byte("noise"), out[y]>>) /\ Fault(x, 0)
  <2>1. wire[y] # <<>> /\ Head(wire[y]).tok = "noise" /\ Tail(wire[y]) = <<out[y]>>
    BY <1>7, Words DEF Line, Byte
  <2>. QED
    BY <1>2, <1>4, <1>5, <1>7, <2>1 DEF Line, Fault
<1>8. CASE Line(x, y, <<>>, <<out[y]>>) /\ Fault(x, 1)
  <2>1. wire[y] # <<>> /\ Head(wire[y]).tok = "block" /\ Tail(wire[y]) = <<>>
    BY <1>2, <1>8, Words DEF Line
  <2>. QED
    BY <1>4, <1>5, <1>8, <2>1 DEF Line
<1>9. CASE pc[x] = "sending" /\ Line(x, y, <<Byte("rlr")>>, <<out[y]>>) /\ Fault(x, 1)
  <2>1. wire[y] # <<>> /\ Head(wire[y]).tok = "block" /\ Tail(wire[y]) = <<>>
    BY <1>2, <1>9, Words DEF Line
  <2>. QED
    BY <1>4, <1>5, <1>9, <2>1 DEF Line
<1>10. CASE pc[x] = "sending" /\ Line(x, y, <<>>, <<out[y], Byte("ack"), out[y]>>) /\ Fault(x, 1)
  <2>1. /\ wire[y] # <<>> /\ Head(wire[y]).tok = "block"
        /\ Tail(wire[y]) = <<Byte("ack"), out[y]>>
    BY <1>2, <1>10, Words DEF Line
  <2>. QED
    BY <1>4, <1>5, <1>10, <2>1 DEF Line
<1>11. CASE pc[x] = "sending" /\ Line(x, y, <<Byte("rlr")>>, <<>>)
  <2>1. Waited(x)
    BY <1>1, <1>11, Dispatch DEF Line
  <2>. QED
    BY <1>3, <1>11, <2>1, Words DEF Waited, Line
<1>12. CASE pc[x] = "discarding" /\ Line(x, y, <<>>, <<>>) /\ Fault(x, 1)
  <2>1. Silence(x)
    BY <1>1, <1>12, Dispatch DEF Line
  <2>2. Chats(x, "sending", OneMore(Errors[x]), <<>>, <<Byte("rlr")>>)
    BY <1>1, <1>12, <2>1, Chatting DEF Line
  <2>3. wire'[x] = <<Byte("rlr")>> /\ wire'[y] = <<>> /\ pc'[x] = "sending"
        /\ Fault(x, 2)' /\ OneMore(Errors[x]) <= 2
    BY <1>1, <1>2, <1>12, <2>2, Words DEF Chats, Fault, Line
  <2>4. BothLine(x, y)'
    BY <2>3 DEF BothLine, Line
  <2>. QED
    BY <1>1, <2>2, <2>3, <2>4, ChatKeepsBoth, ChatKeepsFew
<1>13. CASE pc[x] = "discarding" /\ Line(x, y, <<Byte("rlr")>>, <<>>)
  <2>1. Silence(x)
    BY <1>1, <1>13, Dispatch DEF Line
  <2>. QED
    BY <1>3, <1>13, <2>1, Words DEF Silence, Line
<1>14. CASE pc[x] = "discarding" /\ Line(x, y, <<>>, <<Byte("ack"), out[y]>>) /\ Fault(x, 1)
  <2>1. wire[y] # <<>> /\ Tail(wire[y]) = <<out[y]>>
    BY <1>14, Words DEF Line
  <2>. QED
    BY <1>4, <1>5, <1>14, <2>1 DEF Line
<1>. QED
  BY <1>1, <1>6, <1>7, <1>8, <1>9, <1>10, <1>11, <1>12, <1>13, <1>14 DEF BothLine

\* y repeats its acknowledgement and its block when it is asked.
LEMMA BothAnswers ==
    ASSUME OneFault, LinkTyped, FewErrors, HasAcked,
           NEW x \in Sides, NEW y, y = Peer(x), BothSend(x, y), LinkStep(y)
    PROVE  BothSend(x, y)' /\ FewErrors'
<1>1. /\ y \in Sides /\ Peer(y) = x /\ Incoming(y) = wire[x] /\ y # x
      /\ pc[x] \in PutPlaces /\ pc[y] = "sending" /\ BothLine(x, y) /\ LastResponse[y] = "ack"
  BY Peers DEF Incoming, BothSend, BothLine, PutPlaces, HasAcked
<1>2. Errors[y] = 0
  BY DEF BothSend
<1>3. wire[x] # <<>>
  <2>. SUFFICES ASSUME wire[x] = <<>> PROVE FALSE
    OBVIOUS
  <2>1. Waited(y)
    BY <1>1, Dispatch
  <2>2. wire[y] = <<>> /\ pc[x] = "sending"
    BY <1>1, <2>1 DEF Waited, Quiet, Reading, PutPlaces
  <2>3. BothLine(x, y) => wire[y] # <<>> \/ wire[x] # <<>> \/ pc[x] = "discarding"
    <3>1. \A a, b, c : <<a>> # <<>> /\ <<a, b>> # <<>> /\ <<a, b, c>> # <<>>
      OBVIOUS
    <3>. QED
      BY <3>1, Zenon DEF BothLine, Line
  <2>. QED
    BY <1>1, <2>2, <2>3
<1>4. /\ wire[x] = <<Byte("rlr")>>
      /\ \/ pc[x] = "sending" /\ wire[y] = <<out[y]>> /\ Fault(x, 1)
         \/ pc[x] = "sending" /\ wire[y] = <<>> /\ Fault(x, 2)
         \/ pc[x] = "discarding" /\ wire[y] = <<>> /\ Fault(x, 1)
  BY <1>1, <1>3 DEF BothLine, Line
<1>5. Chats(y, "sending", Errors[y], <<>>, <<Byte("ack"), out[y]>>)
  <2>1. Head(Incoming(y)).tok = "rlr" /\ Tail(Incoming(y)) = <<>>
    BY <1>1, <1>4, Words DEF Byte
  <2>2. SendAsked(y)
    BY <1>1, <1>3, <2>1, Dispatch
  <2>3. Chats(y, "sending", Errors[y], <<>>, <<Byte(LastResponse[y]), out[y]>>)
    BY <2>1, <2>2, <1>1, Chatting
  <2>. QED
    BY <1>1, <2>3
<1>6. /\ wire'[x] = <<>> /\ pc'[x] = pc[x] /\ out'[y] = out[y] /\ Errors'[x] = Errors[x]
      /\ faults' = faults /\ faults \in Nat
      /\ wire'[y] = wire[y] \o <<Byte("ack"), out[y]>>
  BY <1>1, <1>5 DEF Chats, progress, LinkTyped, LineTyped
<1>7. wire[y] = <<out[y]>> => wire'[y] = <<out[y], Byte("ack"), out[y]>>
  <2>1. <<out[y]>> \o <<Byte("ack"), out[y]>> = <<out[y], Byte("ack"), out[y]>>
    BY ThreeWords, Zenon
  <2>. QED
    BY <1>6, <2>1
<1>8. wire[y] = <<>> => wire'[y] = <<Byte("ack"), out[y]>>
  BY <1>6, Words
<1>9. BothLine(x, y)'
  BY <1>4, <1>6, <1>7, <1>8 DEF BothLine, Line, Fault, Clean
<1>. QED
  BY <1>1, <1>2, <1>5, <1>9, ChatKeepsBoth, ChatKeepsFew

LEMMA BothStep ==
    ASSUME OneFault, LinkTyped, FewErrors, HasAcked,
           NEW x \in Sides, BothSend(x, Peer(x)), NEW s \in Sides, LinkStep(s)
    PROVE  (BothSend(x, Peer(x))' \/ NewBlock(Peer(x), x)') /\ FewErrors'
<1>1. CASE s = x /\ SendAcked(s)
  <2>. DEFINE y == Peer(x)
  <2>1. Incoming(x) # <<>> /\ Head(wire[y]).tok = "ack" /\ pc[x] = "sending"
        /\ Incoming(x) = wire[y] /\ y \in Sides
    BY <1>1, Peers DEF SendAcked, Answered, Hears, Incoming
  <2>2. out[y].tok = "block"
    BY <2>1 DEF LinkTyped, ProgramTyped, Blocks
  <2>3. ASSUME NEW a, NEW b, NEW c, wire[y] = <<a>> \/ wire[y] = <<a, b>> \/ wire[y] = <<a, b, c>>
        PROVE  a.tok = "ack"
    BY <2>1, <2>3, Words
  <2>4. /\ wire[y] # <<Byte("noise"), out[y]>> /\ wire[y] # <<out[y]>>
        /\ wire[y] # <<out[y], Byte("ack"), out[y]>> /\ wire[y] # <<>>
    <3>1. Byte("noise").tok # "ack"
      BY DEF Byte
    <3>. QED
      BY <2>1, <2>2, <2>3, <3>1
  <2>5. Line(x, y, <<>>, <<Byte("ack"), out[y]>>)
    BY <2>1, <2>4 DEF BothSend, BothLine, Line
  <2>. QED
    BY <1>1, <2>5, BothAcked
<1>2. CASE s = x /\ ~SendAcked(s)
  BY <1>2, BothAsks
<1>3. CASE s = Peer(x)
  BY <1>3, BothAnswers
<1>. QED
  BY <1>1, <1>2, <1>3, BothSides

\* The one fault of the line: it can hit the block, or what acknowledges it.
LEMMA Faulted ==
    ASSUME OneFault, LinkTyped, NEW s \in Sides, Lose(s) \/ Damage(s)
    PROVE  /\ faults = 0 /\ faults' = 1 /\ UNCHANGED <<progress, pc, Errors>>
           /\ wire[s] # <<>> /\ wire'[Peer(s)] = wire[Peer(s)]
           /\ \/ wire'[s] = Tail(wire[s])
              \/ \E t \in {"bad", "noise"} : /\ wire'[s] = <<Byte(t)>> \o Tail(wire[s])
                                             /\ Head(wire[s]).tok # "block" => t = "noise"
<1>1. PICK q : /\ Faulty(s, q) /\ wire[s] # <<>>
               /\ \/ q = Tail(wire[s])
                  \/ \E t \in {"bad", "noise"} : /\ q = <<Byte(t)>> \o Tail(wire[s])
                                                 /\ Head(wire[s]).tok # "block" => t = "noise"
  BY DEF Lose, Damage
<1>2. faults = 0 /\ faults' = 1
  BY <1>1, SerLinkAssumption DEF Faulty, OneFault, LinkTyped, LineTyped
<1>3. wire'[s] = q /\ wire'[Peer(s)] = wire[Peer(s)]
  BY <1>1, Peers DEF Faulty, LinkTyped, LineTyped
<1>4. UNCHANGED <<progress, pc, Errors>>
  BY <1>1 DEF Faulty, progress, counters
<1>. QED
  BY <1>1, <1>2, <1>3, <1>4

LEMMA NewFault ==
    ASSUME OneFault, LinkTyped, NEW x \in Sides, NEW y, y = Peer(x), NewBlock(x, y),
           NEW s \in Sides, Lose(s) \/ Damage(s)
    PROVE  NewBlock(x, y)'
<1>1. faults = 0 /\ faults' = 1 /\ UNCHANGED <<progress, pc, Errors>> /\ wire[s] # <<>>
  BY Faulted
<1>2. wire[x] = <<out[x]>> /\ wire[y] = <<>> /\ Errors[x] = 0
  BY <1>1 DEF NewBlock, NewLine, Line, Fault, Clean
<1>3. s = x
  BY <1>1, <1>2, BothSides
<1>4. Tail(wire[x]) = <<>> /\ \A t : <<Byte(t)>> \o <<>> = <<Byte(t)>>
  BY <1>2, Words
<1>5. /\ wire'[y] = <<>>
      /\ wire'[x] = <<>> \/ wire'[x] = <<Byte("bad")>> \/ wire'[x] = <<Byte("noise")>>
  BY <1>2, <1>3, <1>4, Faulted
<1>6. NewLine(x, y)'
  BY <1>1, <1>2, <1>5 DEF NewLine, Line, Fault
<1>7. Untaken(x)' /\ Settled(y)'
  BY <1>1, SameProgress DEF NewBlock
<1>. QED
  BY <1>1, <1>6, <1>7 DEF NewBlock, AsksFor, progress

LEMMA DoneFault ==
    ASSUME OneFault, LinkTyped, NEW x \in Sides, NEW y, y = Peer(x), DoneBlock(x, y),
           NEW s \in Sides, Lose(s) \/ Damage(s)
    PROVE  DoneBlock(x, y)'
<1>1. faults = 0 /\ faults' = 1 /\ UNCHANGED <<progress, pc, Errors>> /\ wire[s] # <<>>
  BY Faulted
<1>2. wire[y] = <<Byte("ack")>> /\ wire[x] = <<>> /\ Errors[x] = 0 /\ pc[x] = "sending"
  BY <1>1 DEF DoneBlock, DoneLine, Line, Fault, Clean
<1>3. s = y /\ Peer(y) = x
  BY <1>1, <1>2, BothSides, Peers
<1>4. /\ Tail(wire[y]) = <<>> /\ Head(wire[y]) = Byte("ack")
      /\ \A t : <<Byte(t)>> \o <<>> = <<Byte(t)>>
  BY <1>2, Words
<1>5. Head(wire[y]).tok # "block"
  BY <1>4 DEF Byte
<1>6. wire'[x] = <<>> /\ (wire'[y] = <<>> \/ wire'[y] = <<Byte("noise")>>)
  <2>1. /\ wire'[x] = wire[x]
        /\ \/ wire'[y] = Tail(wire[y])
           \/ \E t \in {"bad", "noise"} : /\ wire'[y] = <<Byte(t)>> \o Tail(wire[y])
                                          /\ Head(wire[y]).tok # "block" => t = "noise"
    BY <1>3, Faulted
  <2>2. wire'[y] = <<>> \/ wire'[y] = <<Byte("noise")>> \o <<>>
    BY <1>4, <1>5, <2>1
  <2>. QED
    BY <1>2, <1>4, <2>1, <2>2
<1>7. DoneLine(x, y)'
  BY <1>1, <1>2, <1>6 DEF DoneLine, Line, Fault, PutPlaces
<1>8. Taken(x)' /\ Settled(y)'
  BY <1>1, SameProgress DEF DoneBlock
<1>. QED
  BY <1>1, <1>7, <1>8 DEF DoneBlock, WentOn, progress

LEMMA BothFault ==
    ASSUME OneFault, LinkTyped, NEW x \in Sides, NEW y, y = Peer(x), BothSend(x, y),
           NEW s \in Sides, Lose(s) \/ Damage(s)
    PROVE  BothSend(x, y)'
<1>1. faults = 0 /\ faults' = 1 /\ UNCHANGED <<progress, pc, Errors>> /\ wire[s] # <<>>
  BY Faulted
<1>2. wire[y] = <<Byte("ack"), out[y]>> /\ wire[x] = <<>> /\ Errors[x] = 0 /\ pc[x] = "sending"
  BY <1>1 DEF BothSend, BothLine, Line, Fault, Clean
<1>3. s = y /\ Peer(y) = x
  BY <1>1, <1>2, BothSides, Peers
<1>4. Tail(wire[y]) = <<out[y]>> /\ Head(wire[y]) = Byte("ack")
  BY <1>2, Words
<1>5. <<Byte("noise")>> \o <<out[y]>> = <<Byte("noise"), out[y]>>
  BY TwoWords, Zenon
<1>6. Head(wire[y]).tok # "block"
  BY <1>4 DEF Byte
<1>7. wire'[x] = <<>> /\ (wire'[y] = <<out[y]>> \/ wire'[y] = <<Byte("noise"), out[y]>>)
  <2>1. /\ wire'[x] = wire[x]
        /\ \/ wire'[y] = Tail(wire[y])
           \/ \E t \in {"bad", "noise"} : /\ wire'[y] = <<Byte(t)>> \o Tail(wire[y])
                                          /\ Head(wire[y]).tok # "block" => t = "noise"
    BY <1>3, Faulted
  <2>2. wire'[y] = <<out[y]>> \/ wire'[y] = <<Byte("noise")>> \o <<out[y]>>
    BY <1>4, <1>6, <2>1
  <2>. QED
    BY <1>2, <1>5, <2>1, <2>2
<1>8. out'[y] = out[y]
  BY <1>1 DEF progress
<1>9. BothLine(x, y)'
  BY <1>1, <1>2, <1>7, <1>8 DEF BothLine, Line, Fault, PutPlaces
<1>10. Taken(x)' /\ Untaken(y)'
  BY <1>1, SameProgress DEF BothSend
<1>. QED
  BY <1>1, <1>9, <1>10 DEF BothSend, progress

LEMMA RepairingFault ==
    ASSUME OneFault, LinkTyped, FewErrors, Repairing, NEW s \in Sides, Lose(s) \/ Damage(s)
    PROVE  Repairing' /\ FewErrors'
<1>1. UNCHANGED <<progress, pc, Errors>> /\ wire[s] # <<>>
  BY Faulted
<1>2. FewErrors'
  BY <1>1 DEF FewErrors, progress
<1>3. ~Resting
  BY <1>1 DEF Resting, Line, Sides
<1>4. CASE Ended
  BY <1>1, <1>4, <1>2 DEF Ended, Apart, Delivered, progress, Repairing
<1>5. ASSUME NEW x \in Sides, NewBlock(x, Peer(x)) PROVE NewBlock(x, Peer(x))'
  BY <1>5, NewFault
<1>6. ASSUME NEW x \in Sides, DoneBlock(x, Peer(x)) PROVE DoneBlock(x, Peer(x))'
  BY <1>6, DoneFault
<1>7. ASSUME NEW x \in Sides, BothSend(x, Peer(x)) PROVE BothSend(x, Peer(x))'
  BY <1>7, BothFault
<1>8. CASE Exchanging
  <2>1. Exchanging'
    BY <1>5, <1>6, <1>7, <1>8, Zenon DEF Exchanging
  <2>. QED
    BY <1>2, <2>1 DEF Repairing
<1>. QED
  BY <1>3, <1>4, <1>8 DEF Repairing

\* A block number fits the wire: the counter has come round no further than its
\* field, or it never comes that far.
NumbersFit == \A s \in Sides : SendBlkNo[s] % WireMod = SendBlkNo[s]

\* BlockSend begins: s has a block under way that its peer has not taken.
LEMMA StartsBlock ==
    ASSUME LinkTyped, FewErrors, NumbersFit, NEW s \in Sides, NEW r, NEW re, StartSend(s, r, re),
           UNCHANGED serving, Settled(s), s = "client" => r \in RequestKinds
    PROVE  LET p == Peer(s)
           IN  /\ Untaken(s)' /\ FewErrors'
               /\ pc'[s] = "sending" /\ pc'[p] = pc[p]
               /\ Errors'[s] = 0 /\ Errors'[p] = Errors[p]
               /\ wire'[p] \in ClearCom(wire[p]) /\ wire'[s] = wire[s] \o <<out'[s]>>
               /\ out'[s].req = r /\ out'[p] = out[p]
               /\ Settled(p) => Settled(p)'
               /\ Taken(p) => Taken(p)'
<1>. DEFINE p == Peer(s)
            b == Block(SendBlkNo[s] % WireMod, Errors[s], r, puts[s] + 1, re)
<1>1. p \in Sides /\ p # s /\ Peer(p) = s /\ Incoming(s) = wire[p]
  BY Peers DEF Incoming
<1>2. /\ pc \in [Sides -> Reading \cup Away \cup Gone] /\ out \in [Sides -> Blocks]
      /\ Errors \in [Sides -> 0 .. MaxErrors + 1] /\ wire \in [Sides -> Seq(Tokens)]
      /\ puts \in [Sides -> Nat] /\ puts[s] \in Nat
  BY DEF LinkTyped, ProgramTyped, CountersTyped, LineTyped, GhostsTyped
<1>3. /\ b.no = SendBlkNo[s] /\ b.err = Errors[s] /\ b.req = r /\ b.idx = puts[s] + 1
  BY DEF NumbersFit, Block
<1>. HIDE DEF b, p
<1>4. /\ out' = [out EXCEPT ![s] = b] /\ puts' = [puts EXCEPT ![s] = @ + 1]
      /\ Errors' = [Errors EXCEPT ![s] = 0] /\ pc' = [pc EXCEPT ![s] = "sending"]
      /\ UNCHANGED <<SendBlkNo, ReceiveBlkNo, acked, got>>
      /\ \E rest \in ClearCom(Incoming(s)) : Exchange(s, rest, <<b>>)
  BY DEF StartSend, b
<1>5. /\ out'[s] = b /\ out'[p] = out[p] /\ puts'[s] = puts[s] + 1 /\ puts'[p] = puts[p]
      /\ Errors'[s] = 0 /\ Errors'[p] = Errors[p] /\ pc'[s] = "sending" /\ pc'[p] = pc[p]
  BY <1>1, <1>2, <1>4
<1>6. wire'[p] \in ClearCom(wire[p]) /\ wire'[s] = wire[s] \o <<out'[s]>>
  <2>1. PICK rest \in ClearCom(Incoming(s)) : Exchange(s, rest, <<b>>)
    BY <1>4
  <2>2. wire'[p] = rest /\ wire'[s] = wire[s] \o <<b>>
    BY <1>1, <1>2, <2>1 DEF Exchange, p
  <2>. QED
    BY <1>1, <1>5, <2>1, <2>2
<1>7. FewErrors'
  BY <1>1, <1>3, <1>5, BothSides DEF FewErrors, p
<1>8. Settled(p) => Settled(p)'
  BY <1>1, <1>4, <1>5 DEF Settled, Delivered, p
<1>9. Taken(p) => Taken(p)'
  BY <1>1, <1>4, <1>5 DEF Taken, Sends, Delivered, p
<1>10. puts'[s] - 1 = puts[s]
  BY <1>2, <1>5
<1>11. Untaken(s)'
  <2>1. /\ SendBlkNo[s] = ReceiveBlkNo[p] /\ acked[s] = 1 .. puts[s]
        /\ Len(got[p]) = puts[s] /\ \A k \in 1 .. puts[s] : got[p][k] = k
    BY DEF Settled, Delivered, p
  <2>2. Len(got'[p]) = puts'[s] - 1 /\ \A k \in 1 .. puts'[s] - 1 : got'[p][k] = k
    BY <1>4, <1>10, <2>1
  <2>3. /\ out'[s].no = SendBlkNo'[s] /\ out'[s].idx = puts'[s] /\ acked'[s] = 1 .. puts'[s] - 1
        /\ SendBlkNo'[s] = ReceiveBlkNo'[p] /\ (s = "client" => out'[s].req \in RequestKinds)
    BY <1>3, <1>4, <1>5, <1>10, <2>1
  <2>. QED
    BY <2>2, <2>3 DEF Untaken, Sends, Delivered, p
<1>. QED
  BY <1>3, <1>5, <1>6, <1>7, <1>8, <1>9, <1>11 DEF p

\* A block begins when none is under way, or when the other side does not know
\* yet that its own was taken.
LEMMA StartsNew ==
    ASSUME LinkTyped, FewErrors, NumbersFit, NEW s \in Sides, NEW p, p = Peer(s), NEW r, NEW re,
           StartSend(s, r, re), UNCHANGED serving, s = "client" => r \in RequestKinds,
           Settled(s), Settled(p), Line(s, p, <<>>, <<>>), AsksFor(p)
    PROVE  NewBlock(s, p)' /\ FewErrors'
<1>1. /\ Untaken(s)' /\ FewErrors' /\ Settled(p)'
      /\ pc'[s] = "sending" /\ pc'[p] = pc[p] /\ Errors'[s] = 0
      /\ wire'[p] \in ClearCom(<<>>) /\ wire'[s] = <<>> \o <<out'[s]>>
  BY StartsBlock DEF Line
<1>2. wire'[p] = <<>> /\ wire'[s] = <<out'[s]>>
  BY <1>1, ClearEmpty, Words
<1>3. NewLine(s, p)'
  BY <1>1, <1>2 DEF NewLine, Line, Clean
<1>. QED
  BY <1>1, <1>3 DEF NewBlock, AsksFor

LEMMA StartsBoth ==
    ASSUME LinkTyped, FewErrors, NumbersFit, NEW s \in Sides, NEW x, x = Peer(s), NEW r, NEW re,
           StartSend(s, r, re), UNCHANGED <<serving, faults>>, s = "client" => r \in RequestKinds,
           DoneBlock(x, s), pc[s] # "receiving", x = "client" => out[x].req = "call"
    PROVE  BothSend(x, s)' /\ FewErrors'
<1>1. x \in Sides /\ x # s /\ Peer(x) = s
  BY Peers
<1>2. Settled(s) /\ Taken(x) /\ DoneLine(x, s) /\ faults \in Nat
  BY DEF DoneBlock, LinkTyped, LineTyped
<1>3. /\ Untaken(s)' /\ FewErrors' /\ Taken(x)' /\ Errors'[s] = 0
      /\ pc'[s] = "sending" /\ pc'[x] = pc[x] /\ Errors'[x] = Errors[x] /\ out'[x] = out[x]
      /\ wire'[x] \in ClearCom(wire[x]) /\ wire'[s] = wire[s] \o <<out'[s]>>
  BY <1>2, StartsBlock
<1>4. wire'[x] = <<>> \/ (wire'[x] = <<Byte("rlr")>> /\ wire[x] = <<Byte("rlr")>>)
  <2>1. wire[x] = <<>> \/ wire[x] = <<Byte("rlr")>>
    BY <1>2 DEF DoneLine, Line
  <2>. QED
    BY <1>3, <2>1, ClearEmpty, ClearOne
<1>5. ASSUME NEW a PROVE <<a>> \o <<out'[s]>> = <<a, out'[s]>>
  BY TwoWords
<1>6. <<>> \o <<out'[s]>> = <<out'[s]>>
  BY Words
<1>7. CASE pc[x] = "sending" /\ Line(x, s, <<>>, <<Byte("ack")>>) /\ Clean(x)
  <2>1. wire[x] # <<Byte("rlr")>> /\ wire'[s] = <<Byte("ack"), out'[s]>>
    BY <1>3, <1>5, <1>7, Words DEF Line
  <2>. QED
    BY <1>3, <1>4, <1>7, <2>1 DEF BothSend, BothLine, Line, Clean
<1>8. CASE pc[x] = "sending" /\ Line(x, s, <<>>, <<Byte("noise")>>) /\ Fault(x, 0)
  <2>1. wire[x] # <<Byte("rlr")>> /\ wire'[s] = <<Byte("noise"), out'[s]>>
    BY <1>3, <1>5, <1>8, Words DEF Line
  <2>. QED
    BY <1>3, <1>4, <1>8, <2>1 DEF BothSend, BothLine, Line, Fault
<1>9. CASE pc[x] \in PutPlaces /\ Line(x, s, <<>>, <<>>) /\ Fault(x, 0)
  <2>1. wire[x] # <<Byte("rlr")>> /\ wire'[s] = <<out'[s]>> /\ Fault(x, 1)'
    BY <1>3, <1>6, <1>9, SmallErrors, <1>1, Words DEF Line, Fault
  <2>. QED
    BY <1>3, <1>4, <1>9, <2>1 DEF BothSend, BothLine, Line
<1>10. CASE pc[x] = "sending" /\ Line(x, s, <<Byte("rlr")>>, <<>>) /\ Fault(x, 1)
  <2>1. wire'[s] = <<out'[s]>> /\ Fault(x, 1)' /\ pc[x] \in PutPlaces
    BY <1>3, <1>6, <1>10 DEF Line, Fault, PutPlaces
  <2>. QED
    BY <1>3, <1>4, <1>10, <2>1 DEF BothSend, BothLine, Line
<1>. QED
  BY <1>2, <1>7, <1>8, <1>9, <1>10 DEF DoneLine

LEMMA FitNumbers ==
    ASSUME OneFault, LinkTyped, ShortSessions => SessionInv
    PROVE  NumbersFit
<1>. SUFFICES ASSUME NEW s \in Sides PROVE SendBlkNo[s] % WireMod = SendBlkNo[s]
  BY DEF NumbersFit
<1>. DEFINE n == SendBlkNo[s]
<1>1. n \in 0 .. CountMod - 1 /\ WireMod \in Nat \ {0} /\ CountMod \in Nat /\ puts[s] \in Nat
  BY SerLinkAssumption DEF LinkTyped, CountersTyped, GhostsTyped
<1>2. CASE CountMod <= WireMod
  BY <1>1, <1>2
<1>3. CASE ShortSessions
  <2>1. n <= puts[s] + 1 /\ puts[s] + 1 < WireMod
    BY <1>1, <1>3 DEF SessionInv, Ordered, Numbered, NoReuse
  <2>. QED
    BY <1>1, <2>1
<1>. QED
  BY <1>2, <1>3 DEF OneFault

\* What a side is doing tells how far the exchange of a block is.
LEMMA Standing ==
    ASSUME Repairing
    PROVE  \/ Ended /\ \A s \in Sides : pc[s] \in Gone
           \/ Resting /\ pc["client"] \in {"idle", "off", "receiving"}
                      /\ pc["server"] \in {"receiving", "exec"}
           \/ \E x \in Sides :
                 /\ pc[x] \in PutPlaces
                 /\ \/ NewBlock(x, Peer(x))
                    \/ DoneBlock(x, Peer(x))
                    \/ BothSend(x, Peer(x)) /\ pc[Peer(x)] = "sending"
<1>1. Ended => \A s \in Sides : pc[s] \in Gone
  BY DEF Ended, Apart, Gone, Sides
<1>2. Resting => /\ pc["client"] \in {"idle", "off", "receiving"}
                 /\ pc["server"] \in {"receiving", "exec"}
  BY DEF Resting, RestPlaces
<1>3. ASSUME NEW x \in Sides, NewBlock(x, Peer(x)) \/ DoneBlock(x, Peer(x)) \/ BothSend(x, Peer(x))
      PROVE  pc[x] \in PutPlaces /\ (BothSend(x, Peer(x)) => pc[Peer(x)] = "sending")
  BY <1>3 DEF NewBlock, DoneBlock, DoneLine, BothSend, BothLine, PutPlaces
<1>. QED
  BY <1>1, <1>2, <1>3, Zenon DEF Repairing, Exchanging

LEMMA RepairingStep ==
    ASSUME OneFault, LinkTyped, FewErrors, HasAcked, Repairing, NEW s \in Sides, LinkStep(s)
    PROVE  Repairing' /\ FewErrors'
<1>1. pc[s] \in Reading /\ (pc[s] = "receiving" => Incoming(s) # <<>>)
  BY Dispatch
<1>2. ~Ended
  BY <1>1 DEF Ended, Apart, Sides, Reading, PutPlaces, Resyncing
<1>3. ~Resting
  BY <1>1 DEF Resting, RestPlaces, Line, Incoming, Sides, Peer, Reading, PutPlaces, Resyncing
<1>4. ASSUME NEW x \in Sides, NewBlock(x, Peer(x)) PROVE Repairing' /\ FewErrors'
  BY <1>4, NewStep, Zenon DEF Repairing, Exchanging
<1>5. ASSUME NEW x \in Sides, DoneBlock(x, Peer(x)) PROVE Repairing' /\ FewErrors'
  BY <1>5, DoneStep, Zenon DEF Repairing, Exchanging
<1>6. ASSUME NEW x \in Sides, BothSend(x, Peer(x)) PROVE Repairing' /\ FewErrors'
  <2>. DEFINE y == Peer(x)
  <2>1. y \in Sides /\ Peer(y) = x
    BY Peers
  <2>2. (BothSend(x, y)' \/ NewBlock(y, Peer(y))') /\ FewErrors'
    BY <1>6, <2>1, BothStep
  <2>. QED
    BY <2>1, <2>2, Zenon DEF Repairing, Exchanging
<1>. QED
  BY <1>2, <1>3, <1>4, <1>5, <1>6, Zenon DEF Repairing, Exchanging

\* The client begins a request.
LEMMA RepairingRequest ==
    ASSUME LinkTyped, FewErrors, NumbersFit, Repairing, NEW r \in Requests, DoRequest(r)
    PROVE  Repairing' /\ FewErrors'
<1>1. /\ pc["client"] = "idle" /\ StartSend("client", r, 0) /\ UNCHANGED serving
      /\ faults' = IF AtRest THEN 0 ELSE faults
      /\ r \in RequestKinds
  BY SerLinkAssumption DEF DoRequest
<1>2. "client" \in Sides /\ "server" \in Sides /\ Peer("client") = "server"
      /\ Peer("server") = "client"
  BY DEF Sides, Peer
<1>3. CASE Resting
  <2>1. /\ Settled("client") /\ Settled("server") /\ Line("client", "server", <<>>, <<>>)
        /\ AsksFor("server")
    BY <1>1, <1>3 DEF Resting, RestPlaces, AsksFor
  <2>2. NewBlock("client", "server")' /\ FewErrors'
    BY <1>1, <1>2, <2>1, StartsNew
  <2>. QED
    BY <1>2, <2>2 DEF Repairing, Exchanging
<1>4. ASSUME NEW x \in Sides, pc[x] \in PutPlaces PROVE x = "server" /\ Peer(x) = "client"
  BY <1>1, <1>4 DEF Sides, Peer, PutPlaces
<1>5. ~Ended
  BY <1>1 DEF Ended, Apart
<1>6. CASE DoneBlock("server", "client") /\ pc["server"] \in PutPlaces
  <2>1. faults' = faults
    BY <1>1, <1>6 DEF AtRest, PutPlaces
  <2>2. BothSend("server", "client")' /\ FewErrors'
    BY <1>1, <1>2, <1>6, <2>1, StartsBoth
  <2>. QED
    BY <1>2, <2>2 DEF Repairing, Exchanging
<1>7. ~NewBlock("server", "client")
  BY <1>1 DEF NewBlock, AsksFor
<1>8. pc["client"] # "sending"
  BY <1>1
<1>. QED
  <2>1. \/ Resting
        \/ \E x \in Sides : /\ pc[x] \in PutPlaces
                            /\ \/ NewBlock(x, Peer(x)) \/ DoneBlock(x, Peer(x))
                               \/ pc[Peer(x)] = "sending"
    BY <1>5, Standing
  <2>. QED
    BY <1>3, <1>4, <1>6, <1>7, <1>8, <2>1, Zenon

\* The server answers.
LEMMA RepairingReply ==
    ASSUME LinkTyped, FewErrors, NumbersFit, Repairing, pc["server"] = "exec",
           serving.req = "call", StartSend("server", "reply", serving.idx),
           UNCHANGED <<serving, faults>>
    PROVE  Repairing' /\ FewErrors'
<1>2. "client" \in Sides /\ "server" \in Sides /\ Peer("client") = "server"
      /\ Peer("server") = "client"
  BY DEF Sides, Peer
<1>3. CASE Resting
  <2>1. /\ Settled("client") /\ Settled("server") /\ Line("server", "client", <<>>, <<>>)
        /\ AsksFor("client")
    BY <1>3 DEF Resting, RestPlaces, AsksFor, Line
  <2>2. NewBlock("server", "client")' /\ FewErrors'
    BY <1>2, <2>1, StartsNew
  <2>. QED
    BY <1>2, <2>2 DEF Repairing, Exchanging
<1>4. ASSUME NEW x \in Sides, pc[x] \in PutPlaces PROVE x = "client" /\ Peer(x) = "server"
  BY <1>4 DEF Sides, Peer, PutPlaces
<1>5. ~Ended
  BY DEF Ended, Apart
<1>6. CASE DoneBlock("client", "server")
  <2>1. out["client"].req = "call"
    BY <1>6 DEF DoneBlock, WentOn
  <2>2. BothSend("client", "server")' /\ FewErrors'
    BY <1>2, <1>6, <2>1, StartsBoth
  <2>. QED
    BY <1>2, <2>2 DEF Repairing, Exchanging
<1>7. ~NewBlock("client", "server")
  BY DEF NewBlock, AsksFor
<1>8. pc["server"] # "sending"
  OBVIOUS
<1>. QED
  <2>1. \/ Resting
        \/ \E x \in Sides : /\ pc[x] \in PutPlaces
                            /\ \/ NewBlock(x, Peer(x)) \/ DoneBlock(x, Peer(x))
                               \/ pc[Peer(x)] = "sending"
    BY <1>5, Standing
  <2>. QED
    BY <1>3, <1>4, <1>6, <1>7, <1>8, <2>1, Zenon

\* The server has done a request that wants no answer.
LEMMA RepairingWorked ==
    ASSUME LinkTyped, FewErrors, Repairing, pc["server"] = "exec", serving.req # "call",
           pc' = [pc EXCEPT !["server"] = IF serving.req = "bye" THEN "listening" ELSE "receiving"],
           UNCHANGED <<out, counters, waits, wire, faults, puts, acked, got, serving>>
    PROVE  Repairing' /\ FewErrors'
<1>1. /\ UNCHANGED <<progress, wire, Errors, faults>> /\ FewErrors'
      /\ pc'["client"] = pc["client"]
      /\ pc'["server"] = IF serving.req = "bye" THEN "listening" ELSE "receiving"
  BY DEF progress, counters, FewErrors, LinkTyped, ProgramTyped, Sides
<1>2. "client" \in Sides /\ "server" \in Sides /\ Peer("client") = "server"
      /\ Peer("server") = "client"
  BY DEF Sides, Peer
<1>3. CASE Resting
  <2>1. \A s \in Sides : Settled(s)'
    BY <1>1, <1>3, SameProgress DEF Resting, Sides
  <2>2. RestPlaces' \/ Apart'
    BY <1>1, <1>3 DEF Resting, RestPlaces, Apart, progress
  <2>3. Apart' => Ended'
    BY <2>1 DEF Settled, Ended
  <2>4. RestPlaces' => Resting'
    BY <1>1, <1>2, <1>3, <2>1 DEF Resting, Line
  <2>. QED
    BY <1>1, <2>2, <2>3, <2>4 DEF Repairing
<1>4. ASSUME NEW x \in Sides, pc[x] \in PutPlaces PROVE x = "client" /\ Peer(x) = "server"
  BY <1>4 DEF Sides, Peer, PutPlaces
<1>5. ~Ended
  BY DEF Ended, Apart
<1>6. CASE DoneBlock("client", "server")
  <2>1. serving.req \in {"post", "bye"} /\ serving = out["client"]
    BY <1>6 DEF DoneBlock, Taken, Sends, WentOn, RequestKinds
  <2>2. Taken("client")' /\ Settled("server")'
    BY <1>1, <1>6, SameProgress DEF DoneBlock
  <2>3. WentOn("client", "server")'
    BY <1>1, <2>1 DEF WentOn, progress
  <2>4. DoneLine("client", "server")'
    BY <1>1, <1>6 DEF DoneBlock, DoneLine, Line, Clean, Fault, progress
  <2>5. DoneBlock("client", "server")'
    BY <2>2, <2>3, <2>4 DEF DoneBlock
  <2>. QED
    BY <1>1, <1>2, <2>5 DEF Repairing, Exchanging
<1>7. CASE NewBlock("client", "server")
  <2>1. Untaken("client")' /\ Settled("server")'
    BY <1>1, <1>7, SameProgress DEF NewBlock
  <2>2. serving.req = "post" /\ pc'["server"] = "receiving"
    BY <1>1, <1>7 DEF NewBlock, AsksFor
  <2>3. NewLine("client", "server")'
    BY <1>1, <1>7, <2>2 DEF NewBlock, NewLine, Line, Clean, Fault, progress
  <2>4. NewBlock("client", "server")'
    BY <1>1, <1>7, <2>1, <2>2, <2>3 DEF NewBlock, AsksFor
  <2>. QED
    BY <1>1, <1>2, <2>4 DEF Repairing, Exchanging
<1>8. pc["server"] # "sending"
  OBVIOUS
<1>. QED
  <2>1. \/ Resting
        \/ \E x \in Sides : /\ pc[x] \in PutPlaces
                            /\ \/ NewBlock(x, Peer(x)) \/ DoneBlock(x, Peer(x))
                               \/ pc[Peer(x)] = "sending"
    BY <1>5, Standing
  <2>. QED
    BY <1>3, <1>4, <1>6, <1>7, <1>8, <2>1, Zenon

LEMMA RepairingConnect == ASSUME RemoteConnect PROVE Repairing' /\ FewErrors'
<1>1. /\ pc'["client"] = "idle" /\ pc'["server"] = "receiving"
      /\ \A s \in Sides : /\ SendBlkNo'[s] = 1 % CountMod /\ ReceiveBlkNo'[Peer(s)] = 1 % CountMod
                          /\ Errors'[s] = 0 /\ wire'[s] = <<>> /\ puts'[s] = 0
                          /\ acked'[s] = {} /\ got'[Peer(s)] = <<>> /\ out'[s] = NoBlock
  BY Peers DEF RemoteConnect, Sides
<1>2. \A s \in Sides : Settled(s)'
  <2>1. 1 .. 0 = {} /\ Len(<<>>) = 0
    OBVIOUS
  <2>. QED
    BY <1>1, <2>1 DEF Settled, Delivered
<1>3. Resting'
  BY <1>1, <1>2 DEF Resting, RestPlaces, Line, Sides
<1>. QED
  BY <1>1, <1>3 DEF Repairing, FewErrors, NoBlock, Block

LEMMA RepairingInit == ASSUME Init PROVE Repairing /\ FewErrors
<1>1. \A s \in Sides : /\ Errors[s] = 0 /\ puts[s] = 0 /\ acked[s] = {} /\ got[Peer(s)] = <<>>
                       /\ out[s] = NoBlock
  BY Peers DEF Init
<1>2. \A s \in Sides : Delivered(s, puts[s]) /\ acked[s] \subseteq 1 .. puts[s]
  <2>1. Len(<<>>) = 0 /\ \A k : k \notin 1 .. 0
    OBVIOUS
  <2>. QED
    BY <1>1, <2>1 DEF Delivered
<1>3. Apart
  BY DEF Init, Apart, Sides
<1>. QED
  BY <1>1, <1>2, <1>3 DEF Repairing, Ended, FewErrors, NoBlock, Block

\* The inductive invariant of a line with one fault at a time.
SingleInv == /\ LinkTyped /\ HasAcked /\ FewErrors /\ Repairing
             /\ ShortSessions => SessionInv

LEMMA InitSingle == ASSUME Init PROVE SingleInv
<1>1. HasAcked
  BY DEF Init, HasAcked, PutPlaces, Resyncing, Away, Sides
<1>. QED
  BY <1>1, InitTyped, InitSession, RepairingInit DEF SingleInv

LEMMA NextSingle == ASSUME OneFault, SingleInv, [Next]_vars PROVE SingleInv'
<1>1. LinkTyped' /\ HasAcked' /\ NumbersFit
  BY NextTyped, NextAcked, FitNumbers DEF SingleInv
<1>2. ShortSessions => SessionInv'
  BY NextSession DEF SingleInv
<1>3. ShortSessions' <=> ShortSessions
  BY DEF ShortSessions
<1>4. ASSUME NEW s \in Sides, LinkStep(s) PROVE Repairing' /\ FewErrors'
  BY <1>4, RepairingStep DEF SingleInv
<1>5. ASSUME NEW s \in Sides, Lose(s) \/ Damage(s) PROVE Repairing' /\ FewErrors'
  BY <1>5, RepairingFault DEF SingleInv
<1>6. ASSUME ReSync PROVE FALSE
  <2>1. \A s \in Sides : pc[s] \in Resyncing
    BY <1>6 DEF ReSync
  <2>. QED
    BY <2>1, Standing DEF SingleInv, Resyncing, PutPlaces, Gone, Sides
<1>7. RemoteConnect => Repairing' /\ FewErrors'
  BY RepairingConnect
<1>8. ASSUME Session PROVE Repairing' /\ FewErrors'
  <2>1. CASE serving.req = "call"
    BY <1>1, <1>8, <2>1, RepairingReply DEF Session, SingleInv
  <2>2. CASE serving.req # "call"
    BY <1>8, <2>2, RepairingWorked DEF Session, SingleInv
  <2>. QED
    BY <2>1, <2>2
<1>9. ASSUME NEW r \in Requests, DoRequest(r) PROVE Repairing' /\ FewErrors'
  BY <1>1, <1>9, RepairingRequest DEF SingleInv
<1>10. ASSUME UNCHANGED vars PROVE Repairing' /\ FewErrors'
  <2>1. UNCHANGED <<progress, pc, Errors, wire, faults>>
    BY <1>10 DEF vars, counters, progress
  <2>2. Repairing' = Repairing /\ FewErrors' = FewErrors
    BY <2>1 DEF progress, Repairing, Ended, Apart, Resting, RestPlaces, Exchanging, NewBlock, NewLine,
                AsksFor, DoneBlock, DoneLine, WentOn, BothSend, BothLine, Settled, Untaken, Taken,
                Sends, Delivered, Line, Fault, Clean, FewErrors
  <2>. QED
    BY <2>2 DEF SingleInv
<1>11. Repairing' /\ FewErrors'
  BY <1>4, <1>5, <1>6, <1>7, <1>8, <1>9, <1>10 DEF Next
<1>. QED
  BY <1>1, <1>2, <1>3, <1>11 DEF SingleInv

\* What is acknowledged is among what the peer was given.
LEMMA DeliveredSoFar ==
    ASSUME LinkTyped, Repairing, NEW s \in Sides
    PROVE  \E n \in Nat : acked[s] \subseteq 1 .. n /\ Delivered(s, n)
<1>1. puts[s] \in Nat
  BY DEF LinkTyped, GhostsTyped
<1>2. CASE Settled(s)
  BY <1>1, <1>2 DEF Settled
<1>3. CASE Untaken(s) /\ pc[s] \in PutPlaces
  <2>1. puts[s] - 1 \in Nat
    BY <1>1, <1>3 DEF Untaken, Sends, LinkTyped, GhostsTyped, ProgramTyped, Blocks
  <2>. QED
    BY <1>3, <2>1 DEF Untaken, Sends
<1>4. CASE Taken(s)
  <2>1. 1 .. puts[s] - 1 \subseteq 1 .. puts[s]
    BY <1>1
  <2>. QED
    BY <1>1, <1>4, <2>1 DEF Taken, Sends
<1>5. CASE Ended
  BY <1>1, <1>5 DEF Ended
<1>6. CASE Resting
  BY <1>2, <1>6 DEF Resting, Sides
<1>7. ASSUME NEW x \in Sides, pc[x] \in PutPlaces,
             \/ NewBlock(x, Peer(x)) \/ DoneBlock(x, Peer(x))
             \/ BothSend(x, Peer(x)) /\ pc[Peer(x)] = "sending"
      PROVE  Settled(s) \/ (Untaken(s) /\ pc[s] \in PutPlaces) \/ Taken(s)
  <2>1. s = x \/ s = Peer(x)
    BY BothSides
  <2>. QED
    BY <1>7, <2>1 DEF NewBlock, DoneBlock, BothSend, PutPlaces
<1>. QED
  BY <1>2, <1>3, <1>4, <1>5, <1>6, <1>7, Standing

\* If the line loses or damages at most one block or answer at a time, and both
\* programs come back to it before the first wait ends, a block for which
\* BlockSend returns true was handed to the peer's program: for every number of
\* blocks, every CountMod not above WireMod, and beyond it in short sessions.
THEOREM SingleFaultDelivers == OneFault => (Spec => []AckedDelivered)
<1>. SUFFICES ASSUME OneFault PROVE Spec => []AckedDelivered
  OBVIOUS
<1>1. Init => SingleInv
  BY InitSingle
<1>2. SingleInv /\ [Next]_vars => SingleInv'
  BY NextSingle
<1>3. SingleInv => AckedDelivered
  <2>. SUFFICES ASSUME SingleInv, NEW s \in Sides, NEW i \in acked[s]
                PROVE  \E k \in DOMAIN got[Peer(s)] : got[Peer(s)][k] = i
    BY DEF AckedDelivered
  <2>1. PICK n \in Nat : acked[s] \subseteq 1 .. n /\ Delivered(s, n)
    BY DeliveredSoFar DEF SingleInv
  <2>2. got[Peer(s)] \in Seq(Nat)
    BY Peers DEF SingleInv, LinkTyped, GhostsTyped
  <2>3. i \in DOMAIN got[Peer(s)] /\ got[Peer(s)][i] = i
    BY <2>1, <2>2 DEF Delivered
  <2>. QED
    BY <2>3
<1>. QED
  BY <1>1, <1>2, <1>3, PTL DEF Spec

\* The steps of the link, as a link that delivers each block once before it
\* reports it as sent.
LEMMA OtherSide == \A s \in Sides : Link!Other(s) = Peer(s)
<1>. SUFFICES ASSUME NEW s \in Sides PROVE Link!Other(s) = Peer(s)
  OBVIOUS
<1>1. Link!Other(s) \in Sides /\ Link!Other(s) # s
  <2>1. \E t \in Sides : t # s
    BY Peers
  <2>. QED
    BY <2>1 DEF Link!Other
<1>. QED
  BY <1>1, BothSides

LEMMA CountUpTo == \A n \in Nat : Cardinality(1 .. n) = n
<1>. SUFFICES ASSUME NEW n \in Nat PROVE Cardinality(1 .. n) = n
  OBVIOUS
<1>1. Cardinality(1 .. n) = IF 1 > n THEN 0 ELSE n - 1 + 1
  BY FS_Interval
<1>. QED
  BY <1>1

\* Who is away from the line has nothing under way.
LEMMA AwaySettled ==
    ASSUME Repairing, NEW s \in Sides, pc[s] \in Away
    PROVE  Settled(s)
<1>1. ~Ended
  BY DEF Ended, Apart, Away, Sides
<1>2. Resting => Settled(s)
  BY DEF Resting, Sides
<1>3. ASSUME NEW x \in Sides, pc[x] \in PutPlaces,
             \/ NewBlock(x, Peer(x)) \/ DoneBlock(x, Peer(x))
             \/ pc[Peer(x)] = "sending"
      PROVE  Settled(s)
  BY <1>3, BothSides DEF NewBlock, DoneBlock, Away, PutPlaces
<1>. QED
  BY <1>1, <1>2, <1>3, Standing

\* A block is taken while it is new, and acknowledged when it is taken.
LEMMA TakenWhileNew ==
    ASSUME OneFault, LinkTyped, Repairing, NEW y \in Sides, ReceiveBlock(y)
    PROVE  NewBlock(Peer(y), y)
<1>. DEFINE x == Peer(y)
<1>1. /\ pc[y] = "receiving" /\ wire[x] # <<>> /\ Head(wire[x]).tok = "block"
      /\ Head(wire[x]).no = ReceiveBlkNo[y] /\ x \in Sides /\ Peer(x) = y /\ Incoming(y) = wire[x]
  BY Peers DEF ReceiveBlock, Receives, Hears, Incoming, Expected
<1>2. ~Ended /\ ~Resting
  BY <1>1 DEF Ended, Apart, Resting, Line, Sides
<1>3. ~DoneBlock(x, y)
  <2>. SUFFICES ASSUME DoneBlock(x, y) PROVE FALSE
    OBVIOUS
  <2>1. wire[x] = <<Byte("rlr")>> \/ wire[x] = <<out[x]>>
    BY <1>1 DEF DoneBlock, DoneLine, Line
  <2>2. wire[x] # <<Byte("rlr")>>
    BY <1>1, Words DEF Byte
  <2>3. Head(wire[x]) = out[x]
    BY <2>1, <2>2, Words
  <2>4. NextNo(SendBlkNo[x]) # SendBlkNo[x]
    BY <1>1, OtherNo DEF LinkTyped, CountersTyped
  <2>. QED
    BY <1>1, <2>3, <2>4 DEF DoneBlock, Taken, Sends
<1>4. ASSUME NEW z \in Sides, pc[z] \in PutPlaces PROVE z = x
  BY <1>1, <1>4, BothSides DEF PutPlaces
<1>5. pc[y] # "sending"
  BY <1>1
<1>. QED
  BY <1>1, <1>2, <1>3, <1>4, <1>5, Standing

LEMMA AckedWhenTaken ==
    ASSUME LinkTyped, Repairing, NEW s \in Sides, SendAcked(s)
    PROVE  Taken(s)
<1>. DEFINE p == Peer(s)
<1>1. /\ pc[s] = "sending" /\ wire[p] # <<>> /\ Head(wire[p]).tok = "ack"
      /\ p \in Sides /\ Peer(p) = s /\ p # s
  BY Peers DEF SendAcked, Answered, Hears, Incoming
<1>2. ~Ended /\ ~Resting
  BY <1>1 DEF Ended, Apart, Resting, RestPlaces, Sides
<1>3. ASSUME NEW t, t # "ack" PROVE wire[p] # <<Byte(t)>>
  BY <1>1, <1>3, Words DEF Byte
<1>4. wire[p] # <<Byte("nak")>> /\ wire[p] # <<Byte("rlr")>>
  BY <1>3
<1>5. ~NewBlock(s, p)
  BY <1>1, <1>4 DEF NewBlock, NewLine, Line
<1>6. ~BothSend(p, s) /\ ~NewBlock(p, s) /\ ~DoneBlock(p, s)
  BY <1>1, <1>4 DEF BothSend, BothLine, Line, NewBlock, AsksFor, DoneBlock, WentOn
<1>7. DoneBlock(s, p) \/ BothSend(s, p) => Taken(s)
  BY DEF DoneBlock, BothSend
<1>. QED
  BY <1>1, <1>2, <1>5, <1>6, <1>7, BothSides, Standing

LEMMA SubmitStep ==
    ASSUME LinkTyped, NEW s \in Sides, NEW r, NEW re, StartSend(s, r, re), Settled(s)
    PROVE  Link!Submit(s)
<1>1. puts' = [puts EXCEPT ![s] = @ + 1] /\ UNCHANGED <<acked, got>>
  BY DEF StartSend
<1>2. Cardinality(acked[s]) = puts[s]
  BY CountUpTo DEF Settled, LinkTyped, GhostsTyped
<1>. QED
  BY <1>1, <1>2 DEF Link!Submit

LEMMA DeliverStep ==
    ASSUME OneFault, LinkTyped, FewErrors, Repairing, NEW y \in Sides, ReceiveBlock(y)
    PROVE  Link!Deliver(Peer(y))
<1>. DEFINE x == Peer(y)
<1>1. x \in Sides /\ Peer(x) = y /\ Incoming(y) = wire[x] /\ NewBlock(x, y)
  BY Peers, TakenWhileNew DEF Incoming
<1>2. wire[x] = <<out[x]>>
  BY <1>1, NewReceived DEF Line
<1>3. Head(Incoming(y)) = out[x]
  BY <1>1, <1>2, Words
<1>4. out[x].err <= MaxErrors
  BY <1>1, SerLinkAssumption DEF FewErrors, OneFault, LinkTyped, ProgramTyped, Blocks
<1>5. /\ got' = [got EXCEPT ![y] = Append(@, out[x].idx)]
      /\ UNCHANGED <<puts, acked>>
  <2>. DEFINE b == Head(Incoming(y))
  <2>1. /\ UNCHANGED <<puts, acked>>
        /\ \/ b.err > MaxErrors
           \/ got' = [got EXCEPT ![y] = Append(@, b.idx)]
    BY DEF ReceiveBlock, Receives, b
  <2>2. b = out[x] /\ ~(out[x].err > MaxErrors)
    <3>1. out[x].err \in Nat /\ MaxErrors \in Nat
      BY <1>1, SerLinkAssumption DEF LinkTyped, ProgramTyped, Blocks
    <3>. QED
      BY <1>3, <1>4, <3>1
  <2>. HIDE DEF b
  <2>. QED
    BY <2>1, <2>2
<1>6. out[x].idx = puts[x] /\ Len(got[y]) < puts[x]
  <2>1. puts[x] \in Nat
    BY <1>1 DEF LinkTyped, GhostsTyped
  <2>. QED
    BY <1>1, <2>1 DEF NewBlock, Untaken, Sends, Delivered
<1>7. Link!Other(x) = y
  BY <1>1, OtherSide
<1>. QED
  BY <1>5, <1>6, <1>7 DEF Link!Deliver

LEMMA ConfirmStep ==
    ASSUME LinkTyped, Repairing, NEW s \in Sides, SendAcked(s)
    PROVE  Link!Confirm(s)
<1>1. /\ acked' = [acked EXCEPT ![s] = @ \cup {out[s].idx}] /\ UNCHANGED <<puts, got>>
  BY DEF SendAcked, Answered
<1>2. Taken(s) /\ puts[s] \in Nat /\ out[s].idx > 0 /\ acked \in [Sides -> SUBSET Nat]
      /\ pc[s] = "sending"
  BY AckedWhenTaken DEF SendAcked, Answered, LinkTyped, GhostsTyped, PutPlaces
<1>3. acked[s] = 1 .. puts[s] - 1 /\ out[s].idx = puts[s] /\ Len(got[Peer(s)]) = puts[s]
  BY <1>2 DEF Taken, Sends, Delivered
<1>4. acked'[s] = 1 .. puts[s] /\ \A t \in Sides : t # s => acked'[t] = acked[t]
  <2>1. acked'[s] = (1 .. puts[s] - 1) \cup {puts[s]} /\ puts[s] > 0
    BY <1>1, <1>2, <1>3
  <2>2. acked'[s] = 1 .. puts[s]
    BY <1>2, <2>1
  <2>. QED
    BY <1>1, <1>2, <2>2
<1>5. puts[s] - 1 \in Nat /\ puts[s] > 0
  BY <1>2, <1>3
<1>6. Cardinality(acked[s]) = puts[s] - 1 /\ Cardinality(acked'[s]) = puts[s]
  BY <1>2, <1>3, <1>4, <1>5, CountUpTo
<1>. DEFINE c == [t \in Sides |-> Cardinality(acked[t])]
            d == [t \in Sides |-> Cardinality(acked'[t])]
<1>7. d = [c EXCEPT ![s] = @ + 1]
  <2>1. d[s] = Cardinality(acked'[s]) /\ c[s] = Cardinality(acked[s])
    OBVIOUS
  <2>2. d[s] = c[s] + 1
    BY <1>2, <1>6, <2>1
  <2>3. \A t \in Sides : t # s => d[t] = c[t]
    BY <1>4
  <2>. HIDE DEF c
  <2>4. c \in [Sides -> {c[t] : t \in Sides}]
    BY DEF c
  <2>. QED
    BY <2>2, <2>3, <2>4
<1>8. c[s] < Len(got[Link!Other(s)])
  BY <1>3, <1>5, <1>6, OtherSide
<1>. QED
  BY <1>1, <1>7, <1>8 DEF Link!Confirm

LEMMA ResetStep ==
    ASSUME Repairing, RemoteConnect
    PROVE  Link!Reset
<1>1. pc["client"] = "off" /\ pc["server"] = "listening"
  BY DEF RemoteConnect
<1>2. Ended
  BY <1>1, Standing DEF PutPlaces, Sides
<1>3. \A s \in Sides : Len(got[Link!Other(s)]) = puts[s]
  BY <1>2, OtherSide DEF Ended, Delivered
<1>4. puts' = [s \in Sides |-> 0] /\ got' = [s \in Sides |-> <<>>] /\ acked' = [s \in Sides |-> {}]
  BY DEF RemoteConnect
<1>5. [s \in Sides |-> Cardinality(acked'[s])] = [s \in Sides |-> 0]
  BY <1>4, FS_EmptySet
<1>. QED
  BY <1>3, <1>4, <1>5 DEF Link!Reset

LEMMA LinkNext ==
    ASSUME OneFault, SingleInv, [Next]_vars
    PROVE  Link!Next \/ UNCHANGED Link!vars
<1>1. LinkTyped /\ Repairing /\ FewErrors
  BY DEF SingleInv
<1>2. UNCHANGED <<puts, acked, got>> => UNCHANGED Link!vars
  BY DEF Link!vars
<1>3. ASSUME NEW s \in Sides, LinkStep(s) PROVE Link!Next \/ UNCHANGED Link!vars
  <2>1. CASE ReceiveBlock(s)
    BY <1>1, <2>1, DeliverStep, Peers DEF Link!Next
  <2>2. CASE SendAcked(s)
    BY <1>1, <2>2, ConfirmStep DEF Link!Next
  <2>3. CASE ~ReceiveBlock(s) /\ ~SendAcked(s)
    BY <1>2, <1>3, <2>3
    DEF LinkStep, SendRefused, SendAsked, SendConfused, Answered, Discard, Silence, SendWaited,
        AskAgain, GiveUp, ReceiveOther, ReceiveBad, ReceiveAsked, ReceiveJunk, Receives
  <2>. QED
    BY <2>1, <2>2, <2>3
<1>4. ASSUME NEW s \in Sides, Lose(s) \/ Damage(s) PROVE UNCHANGED Link!vars
  BY <1>1, <1>2, <1>4, FaultTyped
<1>5. ReSync \/ UNCHANGED vars => UNCHANGED Link!vars
  BY <1>2 DEF ReSync, vars
<1>6. RemoteConnect => Link!Next
  BY <1>1, ResetStep DEF Link!Next
<1>7. ASSUME Session PROVE Link!Next \/ UNCHANGED Link!vars
  <2>1. "server" \in Sides /\ pc["server"] \in Away
    BY <1>7 DEF Session, Sides, Away
  <2>2. Settled("server")
    BY <1>1, <2>1, AwaySettled
  <2>3. StartSend("server", "reply", serving.idx) \/ UNCHANGED <<puts, acked, got>>
    BY <1>7 DEF Session
  <2>. QED
    BY <1>1, <1>2, <2>1, <2>2, <2>3, SubmitStep DEF Link!Next
<1>8. ASSUME NEW r \in Requests, DoRequest(r) PROVE Link!Next
  <2>1. "client" \in Sides /\ pc["client"] \in Away /\ StartSend("client", r, 0)
    BY <1>8 DEF DoRequest, Sides, Away
  <2>2. Settled("client")
    BY <1>1, <2>1, AwaySettled
  <2>. QED
    BY <1>1, <2>1, <2>2, SubmitStep DEF Link!Next
<1>. QED
  BY <1>3, <1>4, <1>5, <1>6, <1>7, <1>8 DEF Next

\* On such a line BlockSend and RemoteGet implement ReliableLink in both
\* directions, repeated and refused blocks, RLRs and lost answers included: one
\* block at a time, delivered exactly once, and only then reported as sent.
THEOREM SingleFaultReliable == OneFault => (Spec => ImplementsReliableLink)
<1>. SUFFICES ASSUME OneFault PROVE Spec => ImplementsReliableLink
  OBVIOUS
<1>1. Init => SingleInv
  BY InitSingle
<1>2. SingleInv /\ [Next]_vars => SingleInv'
  BY NextSingle
<1>3. Init => Link!Init
  <2>. SUFFICES ASSUME Init PROVE Link!Init
    OBVIOUS
  <2>1. [s \in Sides |-> Cardinality(acked[s])] = [s \in Sides |-> 0]
    BY FS_EmptySet DEF Init
  <2>. QED
    BY <2>1 DEF Init, Link!Init
<1>4. SingleInv /\ [Next]_vars => [Link!Next]_(Link!vars)
  BY LinkNext
<1>. QED
  BY <1>1, <1>2, <1>3, <1>4, PTL DEF Spec, ImplementsReliableLink, Link!Spec
=============================================================================
