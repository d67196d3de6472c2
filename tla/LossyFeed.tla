----------------------------- MODULE LossyFeed -----------------------------
(***************************************************************************)
(* What the dashboard's hub promises a browser: from the moment it joins,  *)
(* it gets messages published after that moment, those of one publisher in *)
(* the order they were published, none of them twice.  Any message may be  *)
(* lost, and after it left nothing reaches it.                             *)
(***************************************************************************)
EXTENDS Naturals

CONSTANTS Clients, Publishers

VARIABLES
    sent,    \* how many messages each publisher has published
    last,    \* last[c][p]: the last message of p that c got or may not get
    member   \* has the client not joined yet, joined, or left?

vars == <<sent, last, member>>

Init ==
    /\ sent = [p \in Publishers |-> 0]
    /\ last = [c \in Clients |-> [p \in Publishers |-> 0]]
    /\ member = [c \in Clients |-> "out"]

Publish(p) ==
    /\ sent' = [sent EXCEPT ![p] = @ + 1]
    /\ UNCHANGED <<last, member>>

Join(c) ==
    /\ member[c] = "out"
    /\ member' = [member EXCEPT ![c] = "in"]
    /\ last' = [last EXCEPT ![c] = sent]
    /\ UNCHANGED sent

Deliver(c, p, n) ==
    /\ member[c] = "in"
    /\ last[c][p] < n /\ n <= sent[p]
    /\ last' = [last EXCEPT ![c] = [@ EXCEPT ![p] = n]]
    /\ UNCHANGED <<sent, member>>

Leave(c) ==
    /\ member[c] # "left"
    /\ member' = [member EXCEPT ![c] = "left"]
    /\ UNCHANGED <<sent, last>>

Next ==
    \/ \E p \in Publishers : Publish(p)
    \/ \E c \in Clients : Join(c) \/ Leave(c)
    \/ \E c \in Clients, p \in Publishers : \E n \in 1..sent[p] : Deliver(c, p, n)

Spec == Init /\ [][Next]_vars

=============================================================================
