--------------------------- MODULE PacketChannel ---------------------------
(***************************************************************************)
(* What a packet connection promises its reader: the packets the other end *)
(* sent, whole, once each and in order, until the connection goes down,    *)
(* and none after that.                                                    *)
(***************************************************************************)
EXTENDS Sequences

CONSTANTS Packets, NoPacket

VARIABLES
    queue, \* packets sent and not delivered
    got,   \* the packet delivered last
    up     \* the connection still delivers

vars == <<queue, got, up>>

Init == queue = <<>> /\ got = NoPacket /\ up = TRUE

Send(p) == queue' = Append(queue, p) /\ UNCHANGED <<got, up>>

Deliver ==
    /\ up /\ queue # <<>>
    /\ got' = Head(queue)
    /\ queue' = Tail(queue)
    /\ UNCHANGED up

GoDown == up /\ up' = FALSE /\ UNCHANGED <<queue, got>>

Next == Deliver \/ GoDown \/ \E p \in Packets : Send(p)

Spec == Init /\ [][Next]_vars /\ WF_vars(Deliver)

=============================================================================
