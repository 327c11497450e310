------------------------------ MODULE Delivery ------------------------------
(***************************************************************************)
(* What a receiver is promised of its channels.  The buffers of a channel  *)
(* are numbered as they arrive.  Each is handed over at most once, the     *)
(* oldest of those that wait first, and none after the end of the channel  *)
(* was reported.  A channel that has lost nothing hands over all of them;  *)
(* one that has may lose more.  The receiver may refuse one buffer of a    *)
(* channel, the first it is given: that one waits on, and may be handed    *)
(* over again.                                                             *)
(***************************************************************************)
EXTENDS Naturals, Sequences

CONSTANT Chan

VARIABLES
    nrecv,      \* buffers that arrived
    waiting,    \* those that may still be handed over
    delivered,  \* those that were, in order
    refused,    \* the one that was refused, 0 if none
    over,       \* the end was reported
    lossy       \* something may have been lost, or left behind

vars == <<nrecv, waiting, delivered, refused, over, lossy>>

Init ==
    /\ nrecv = [ch \in Chan |-> 0] /\ waiting = [ch \in Chan |-> {}]
    /\ delivered = [ch \in Chan |-> <<>>] /\ refused = [ch \in Chan |-> 0]
    /\ over = [ch \in Chan |-> FALSE] /\ lossy = [ch \in Chan |-> FALSE]

\* Of the buffers S of a channel none but a lossy one loses any; the other channels
\* keep theirs, and what is lost cannot be made good.
Remains(ch, S) ==
    /\ waiting'[ch] \subseteq S
    /\ ~lossy'[ch] => waiting'[ch] = S
    /\ \A x \in Chan \ {ch} : waiting'[x] = waiting[x]
    /\ \A x \in Chan : lossy[x] => lossy'[x]

Arrive(ch) ==
    /\ nrecv' = [nrecv EXCEPT ![ch] = @ + 1]
    /\ Remains(ch, waiting[ch] \cup {nrecv[ch] + 1})
    /\ UNCHANGED <<delivered, refused, over>>

HandOver(ch) ==
    /\ ~over[ch]
    /\ \E n \in waiting[ch] :
         /\ \A m \in waiting[ch] : n <= m
         /\ delivered' = [delivered EXCEPT ![ch] = Append(@, n)]
         /\ Remains(ch, waiting[ch] \ {n})
    /\ UNCHANGED <<nrecv, refused, over>>

\* The receiver breaks the hand-over off.
Refuse(ch) ==
    /\ ~over[ch] /\ delivered[ch] = <<>> /\ refused[ch] = 0
    /\ \E n \in waiting[ch] :
         /\ \A m \in waiting[ch] : n <= m
         /\ refused' = [refused EXCEPT ![ch] = n]
    /\ lossy'[ch]
    /\ Remains(ch, waiting[ch])
    /\ UNCHANGED <<nrecv, delivered, over>>

End(ch) ==
    /\ over' = [over EXCEPT ![ch] = TRUE]
    /\ Remains(ch, waiting[ch])
    /\ UNCHANGED <<nrecv, delivered, refused>>

Lose(ch) ==
    /\ Remains(ch, waiting[ch])
    /\ UNCHANGED <<nrecv, delivered, refused, over>>

Next == \E ch \in Chan : Arrive(ch) \/ HandOver(ch) \/ Refuse(ch) \/ End(ch) \/ Lose(ch)

Spec == Init /\ [][Next]_vars
=============================================================================
