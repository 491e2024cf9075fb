---------------------------- MODULE TrapChannel ----------------------------
(***************************************************************************)
(* What a remote link promises to the debugger client (remote.c) and to    *)
(* the debug server (servacc.c), whatever medium carries it: link.doc      *)
(* describes RemotePut and RemoteGet as the two ends of a connection that  *)
(* "is assumed to be error free".  Every packet one end puts is got by the *)
(* other end once, unchanged and in order.                                 *)
(***************************************************************************)
EXTENDS Naturals, Sequences

CONSTANTS Data                  \* what a packet may hold

VARIABLES sent, got             \* per end: the packets put, the packets got

vars == <<sent, got>>

End == {"client", "server"}
Peer(e) == IF e = "client" THEN "server" ELSE "client"

Init == /\ sent = [e \in End |-> <<>>]
        /\ got  = [e \in End |-> <<>>]

\* RemotePut is called at end e with packet d.
Put(e, d) == /\ sent' = [sent EXCEPT ![e] = Append(@, d)]
             /\ UNCHANGED got

\* The next packet of the peer reaches end e.
Deliver(e) == /\ Len(got[e]) < Len(sent[Peer(e)])
              /\ got' = [got EXCEPT ![e] =
                           Append(@, sent[Peer(e)][Len(got[e]) + 1])]
              /\ UNCHANGED sent

Next == \E e \in End : Deliver(e) \/ \E d \in Data : Put(e, d)

Spec == Init /\ [][Next]_vars
=============================================================================
