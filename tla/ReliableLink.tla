---------------------------- MODULE ReliableLink ----------------------------
(***************************************************************************)
(* What a pair of RemotePut and RemoteGet promises for each direction of a *)
(* link: one block at a time is handed over, delivered exactly once, and   *)
(* only then reported as sent.                                             *)
(***************************************************************************)
EXTENDS Naturals, Sequences

CONSTANT Sides

VARIABLES sent,       \* number of blocks each side has handed over
          got,        \* the blocks each side was given, by number
          confirmed   \* number of blocks reported as sent

vars == <<sent, got, confirmed>>

Other(s) == CHOOSE t \in Sides : t # s

Init == /\ sent = [s \in Sides |-> 0]
        /\ got = [s \in Sides |-> <<>>]
        /\ confirmed = [s \in Sides |-> 0]

Submit(s) == /\ confirmed[s] = sent[s]
             /\ sent' = [sent EXCEPT ![s] = @ + 1]
             /\ UNCHANGED <<got, confirmed>>

Deliver(s) == /\ Len(got[Other(s)]) < sent[s]
              /\ got' = [got EXCEPT ![Other(s)] = Append(@, sent[s])]
              /\ UNCHANGED <<sent, confirmed>>

Confirm(s) == /\ confirmed[s] < Len(got[Other(s)])
              /\ confirmed' = [confirmed EXCEPT ![s] = @ + 1]
              /\ UNCHANGED <<sent, got>>

\* A new session begins when everything of the last one is delivered.
\* What ended it need not be confirmed.
Reset == /\ \A s \in Sides : Len(got[Other(s)]) = sent[s]
         /\ sent' = [s \in Sides |-> 0]
         /\ got' = [s \in Sides |-> <<>>]
         /\ confirmed' = [s \in Sides |-> 0]

Next == Reset \/ \E s \in Sides : Submit(s) \/ Deliver(s) \/ Confirm(s)

Spec == Init /\ [][Next]_vars
=============================================================================
