------------------------- MODULE BeamMPClientProofs -------------------------
(***************************************************************************)
(* Theorems about BeamMPClient, for every set of packet codes and every    *)
(* number of frames in flight: in which order the user is told why the     *)
(* connection ended, what is known when success is reported, and that the  *)
(* packets come through whole and in order.                                *)
(***************************************************************************)
EXTENDS BeamMPClient, SequenceTheorems, TLAPS

Ending == {"ended", "report"}

\* What has been reported by the time the threads are where they are: no thread
\* reports "closed" or "disconnected" twice because its label only moves on, and
\* no second kick is handled because nothing sets m_connected again.
ReportsInv ==
    /\ main \in {"connect", "prompt", "close", "join", "report", "destroy",
                 "exited", "terminated"}
    /\ reader \in {"none", "loop", "read", "handle", "kicked", "ended", "report",
                   "done"}
    /\ main = "connect" => reader = "none"
    /\ main = "report" => reader = "done"
    /\ reader = "kicked" => ~m_connected
    /\ reader \in {"none", "read", "handle", "kicked"} => discReports = <<>>
    /\ reader = "loop" =>
         discReports = <<>> \/ (discReports = <<"kicked">> /\ ~m_connected)
    /\ reader \in Ending => discReports \in {<<>>, <<"kicked">>}
    /\ reader = "done" =>
         \/ discReports \in {<<"closed">>, <<"kicked", "closed">>}
         \/ /\ main \in {"destroy", "exited", "terminated"}
            /\ discReports \in {<<"closed", "disconnected">>,
                                <<"kicked", "closed", "disconnected">>}

\* Two sequences of the same length and with the same elements, in the form the
\* two lemmas below have them.
LEMMA SameUpTo ==
    ASSUME NEW S, NEW s \in Seq(S), NEW t \in Seq(S), NEW n,
           Len(s) = n, Len(t) = n, \A i \in 1..n : s[i] = t[i]
    PROVE  s = t
  BY SeqEqual

LEMMA AppendToOne == ASSUME NEW a, NEW b PROVE Append(<<a>>, b) = <<a, b>>
  <1> DEFINE S == {a, b}
             s == Append(<<a>>, b)
             t == <<a, b>>
  <1>1. <<a>> \in Seq(S) /\ Len(<<a>>) = 1
    OBVIOUS
  <1>2. s \in Seq(S) /\ Len(s) = 2 /\ s[1] = a /\ s[2] = b
    BY <1>1
  <1>3. t \in Seq(S) /\ Len(t) = 2 /\ t[1] = a /\ t[2] = b
    OBVIOUS
  <1> HIDE DEF S, s, t
  <1>4. \A i \in 1..2 : s[i] = t[i]
    BY <1>2, <1>3
  <1>5. s = t
    BY <1>2, <1>3, <1>4, SameUpTo
  <1> QED BY <1>5 DEF s, t

LEMMA AppendToTwo == ASSUME NEW a, NEW b, NEW c PROVE Append(<<a, b>>, c) = <<a, b, c>>
  <1> DEFINE S == {a, b, c}
             s == Append(<<a, b>>, c)
             t == <<a, b, c>>
  <1>1. <<a, b>> \in Seq(S) /\ Len(<<a, b>>) = 2
    OBVIOUS
  <1>2. s \in Seq(S) /\ Len(s) = 3 /\ s[1] = a /\ s[2] = b /\ s[3] = c
    BY <1>1
  <1>3. t \in Seq(S) /\ Len(t) = 3 /\ t[1] = a /\ t[2] = b /\ t[3] = c
    OBVIOUS
  <1> HIDE DEF S, s, t
  <1>4. \A i \in 1..3 : s[i] = t[i]
    BY <1>2, <1>3
  <1>5. s = t
    BY <1>2, <1>3, <1>4, SameUpTo
  <1> QED BY <1>5 DEF s, t

\* The reports as they grow.
LEMMA AppendFacts ==
    /\ Append(<<>>, "kicked") = <<"kicked">>
    /\ Append(<<>>, "closed") = <<"closed">>
    /\ Append(<<"kicked">>, "closed") = <<"kicked", "closed">>
    /\ Append(<<"closed">>, "disconnected") = <<"closed", "disconnected">>
    /\ Append(<<"kicked", "closed">>, "disconnected")
         = <<"kicked", "closed", "disconnected">>
  <1>1. Append(<<>>, "kicked") = <<"kicked">> /\ Append(<<>>, "closed") = <<"closed">>
    OBVIOUS
  <1> QED BY <1>1, AppendToOne, AppendToTwo

\* The server touches neither thread nor the reports.
LEMMA ServerFrame ==
    ASSUME ServerStep
    PROVE  UNCHANGED <<main, reader, m_connected, discReports>>
  <1>1. ASSUME NEW frames, ServerSends(frames)
        PROVE  UNCHANGED <<main, reader, m_connected, discReports>>
    BY <1>1 DEF ServerSends, reportVars
  <1>2. ASSUME NEW p, SendWhole(p)
        PROVE  UNCHANGED <<main, reader, m_connected, discReports>>
    BY <1>1, <1>2 DEF SendWhole
  <1>3. ASSUME NEW p, NEW n, SendPiece(p, n)
        PROVE  UNCHANGED <<main, reader, m_connected, discReports>>
    BY <1>1, <1>3, Zenon DEF SendPiece
  <1>4. CASE SendLastPiece
    BY <1>1, <1>4, Zenon DEF SendLastPiece
  <1>5. CASE ServerCloses
    BY <1>5 DEF ServerCloses, reportVars
  <1> QED BY <1>2, <1>3, <1>4, <1>5 DEF ServerStep

LEMMA ReportsStep == ReportsInv /\ [Next]_vars => ReportsInv'
  <1> SUFFICES ASSUME ReportsInv, [Next]_vars PROVE ReportsInv'
    OBVIOUS
  <1> USE DEF ReportsInv, Ending, reportVars
  <1>1. CASE Connect \/ ConnectFails \/ Disconnect
    BY <1>1 DEF Connect, ConnectFails, Disconnect
  <1>2. CASE CloseSocket \/ Join \/ Destroy
    BY <1>2 DEF CloseSocket, Join, Destroy
  <1>3. CASE ReportDisconnected
    BY <1>3, AppendFacts DEF ReportDisconnected
  <1>4. CASE LoopTest \/ ReadFails \/ EndLoop
    BY <1>4 DEF LoopTest, ReadFails, EndLoop
  <1>5. CASE ReadFrame
    <2>1. /\ UNCHANGED <<main, m_connected, discReports>>
          /\ reader = "read" /\ reader' \in {"loop", "handle"}
      BY <1>5 DEF ReadFrame, Handle
    <2> QED BY <2>1
  <1>6. CASE HandleMap \/ HandleAuth \/ HandleRequest \/ HandleNotice
    <2>1. /\ UNCHANGED <<main, discReports>>
          /\ reader = "handle" /\ reader' = "loop"
      BY <1>6 DEF HandleMap, HandleAuth, HandleRequest, HandleNotice, Handling
    <2> QED BY <2>1
  <1>7. CASE HandleKick
    BY <1>7 DEF HandleKick, Handling, GivesUp
  <1>8. CASE ReportKicked
    BY <1>8, AppendFacts DEF ReportKicked
  <1>9. CASE ReportClosed
    BY <1>9, AppendFacts DEF ReportClosed, ClosedReport
  <1>10. CASE ServerStep
    BY <1>10, ServerFrame
  <1>11. CASE UNCHANGED vars
    BY <1>11 DEF vars
  <1> QED
    BY <1>1, <1>2, <1>3, <1>4, <1>5, <1>6, <1>7, <1>8, <1>9, <1>10, <1>11
    DEF Next, MainStep, ReaderStep

\* The user learns of a kick, of the end of the connection and of the completed
\* disconnect() in that order and at most once each, however readLoop and
\* disconnect() interleave and whatever the server sends.
THEOREM ReasonsOrdered == Spec => []DisconnectReasons
  <1>1. Init => ReportsInv
    BY DEF Init, ReportsInv, Ending
  <1>2. ReportsInv => DisconnectReasons
    BY DEF ReportsInv, Ending, DisconnectReasons
  <1> QED BY <1>1, <1>2, ReportsStep, PTL DEF Spec

-----------------------------------------------------------------------------
(* What is in flight.  The frames on the wire are, for the read thread, the *)
(* packets of queue: there is a run of readLoop over them, which starts     *)
(* with m_split_buf, hands over the packets of queue one by one, and ends   *)
(* with the pieces of the packet the server is splitting.                   *)

Tokens == {"MAP", "AUTH_PLAYER", "AUTH_KICK", "CHAT", "WAIT", "PING", "gridmap", "7",
           "overflow", "no", "why", "hi"}
Texts == Seq(Tokens)
Frames == [code : Tokens \cup {"SPLIT", "SPLIT_FINISH"}, data : Texts]

\* The beginnings of packets.
Parts == {b \in Texts : b = <<>> \/ \E p \in Packets, r \in Texts : b \o r = p}

\* Reading frame f takes readLoop from buffer b and packets l to come to b2, l2.
Reads(f, b, l, b2, l2) ==
    \/ f.code = "SPLIT" /\ b2 = b \o f.data /\ l2 = l
    \/ /\ f.code = "SPLIT_FINISH" /\ b2 = <<>>
       /\ l # <<>> /\ b \o f.data = Head(l) /\ l2 = Tail(l)
    \/ /\ f.code \notin {"SPLIT", "SPLIT_FINISH"} /\ b2 = b
       /\ l # <<>> /\ <<f.code>> \o f.data = Head(l) /\ l2 = Tail(l)

\* Behind the last frame the buffer holds what was sent of cur.
SentOf(b) ==
    /\ cur = <<>> => b = <<>> /\ rest = <<>>
    /\ cur # <<>> => b \o rest = cur

IsRun(buf, left) ==
    /\ buf[1] = m_split_buf /\ left[1] = queue
    /\ \A i \in 1..Len(wire) : Reads(wire[i], buf[i], left[i], buf[i + 1], left[i + 1])
    /\ left[Len(wire) + 1] = <<>>
    /\ SentOf(buf[Len(wire) + 1])

RunInv == \E buf \in [Nat -> Parts], left \in [Nat -> Seq(Packets)] : IsRun(buf, left)

\* The server's answer to the key, a player id or a refusal.
Answer(p) == p # <<>> /\ p[1] = "AUTH_PLAYER"

\* The server answers no key it did not get, and the key was sent when the
\* map's name was stored.
HandshakeInv ==
    /\ main = "connect" =>
         ~serverUp /\ wire = <<>> /\ cur = <<>> /\ ~keySent /\ connReports = {}
    /\ keySent => m_map_name # ""
    /\ MapKnownWhenConnected
    /\ Answer(pkt) \/ Answer(cur) => keySent
    /\ \A i \in 1..Len(queue) : Answer(queue[i]) => keySent

FlagsInv ==
    /\ m_connected \in BOOLEAN /\ sock \in BOOLEAN /\ threads \in BOOLEAN
    /\ serverUp \in BOOLEAN /\ keySent \in BOOLEAN

ValuesInv ==
    /\ m_map_name \in {"", "gridmap"} /\ m_player_id \in {0, 7}
    /\ connReports \subseteq {"ok", "failed"}
    /\ pkt \in Packets \cup {<<>>}
    /\ reader = "handle" => pkt \in Packets

WireInv ==
    /\ wire \in Seq(Frames) /\ Len(wire) <= MaxWire
    /\ cur \in Packets \cup {<<>>} /\ rest \in Texts

Inv == ReportsInv /\ FlagsInv /\ ValuesInv /\ WireInv /\ RunInv /\ HandshakeInv

\* A packet of one token and of two.
LEMMA OneToken ==
    ASSUME NEW S, NEW a \in S
    PROVE  <<a>> \in Seq(S) /\ <<a>> # <<>> /\ <<a>>[1] = a
  OBVIOUS

LEMMA TwoTokens ==
    ASSUME NEW S, NEW a \in S, NEW b \in S
    PROVE  <<a, b>> \in Seq(S) /\ <<a, b>> # <<>> /\ <<a, b>>[1] = a /\ <<a, b>>[2] = b
  OBVIOUS

LEMMA PacketFacts ==
    /\ Packets \subseteq Texts
    /\ \A p \in Packets : /\ p # <<>> /\ p[1] \in Tokens /\ p[1] \notin {"SPLIT", "SPLIT_FINISH"}
                          /\ Tail(p) \in Texts /\ <<p[1]>> \o Tail(p) = p
                          /\ p[1] = "MAP" => p[2] = "gridmap"
  <1> SUFFICES ASSUME NEW p \in Packets
               PROVE  /\ p \in Texts /\ p # <<>> /\ p[1] \in Tokens
                      /\ p[1] \notin {"SPLIT", "SPLIT_FINISH"}
                      /\ Tail(p) \in Texts /\ <<p[1]>> \o Tail(p) = p
                      /\ p[1] = "MAP" => p[2] = "gridmap"
    OBVIOUS
  <1>1. /\ p \in Texts /\ p # <<>> /\ p[1] \in Tokens
        /\ p[1] \notin {"SPLIT", "SPLIT_FINISH"}
        /\ p[1] = "MAP" => p[2] = "gridmap"
    <2>1. \A a \in Tokens : <<a>> \in Texts /\ <<a>> # <<>> /\ <<a>>[1] = a
      BY OneToken, Zenon DEF Texts
    <2>2. \A a, b \in Tokens :
            <<a, b>> \in Texts /\ <<a, b>> # <<>> /\ <<a, b>>[1] = a /\ <<a, b>>[2] = b
      BY TwoTokens, Zenon DEF Texts
    <2> DEFINE One == {"AUTH_PLAYER", "WAIT", "PING"}
               Two == {<<"AUTH_PLAYER", "7">>, <<"AUTH_PLAYER", "overflow">>,
                       <<"AUTH_PLAYER", "no">>, <<"AUTH_KICK", "why">>, <<"CHAT", "hi">>}
    <2>3. \/ \E a \in One : p = <<a>>
          \/ p \in Two
          \/ p = <<"MAP", "gridmap">>
      BY Zenon DEF Packets, AllPackets
    <2>4. ASSUME NEW a \in One, p = <<a>>
          PROVE  p \in Texts /\ p # <<>> /\ p[1] = a
      <3>1. a \in Tokens
        BY DEF Tokens
      <3> QED BY <2>1, <2>4, <3>1, Zenon
    <2>5. ASSUME NEW a \in Tokens, NEW b \in Tokens, p = <<a, b>>
          PROVE  p \in Texts /\ p # <<>> /\ p[1] = a /\ p[2] = b
      BY <2>2, <2>5, Zenon
    <2>6. /\ One \subseteq Tokens /\ {"7", "overflow", "no", "why", "hi"} \subseteq Tokens
          /\ {"AUTH_PLAYER", "AUTH_KICK", "CHAT"} \subseteq Tokens
          /\ "MAP" \in Tokens /\ "gridmap" \in Tokens
      BY DEF Tokens
    <2>7. CASE p \in Two
      <3>1. \E a \in {"AUTH_PLAYER", "AUTH_KICK", "CHAT"},
               b \in {"7", "overflow", "no", "why", "hi"} : p = <<a, b>>
        BY <2>7, Zenon
      <3>2. PICK a \in {"AUTH_PLAYER", "AUTH_KICK", "CHAT"}, b \in Tokens : p = <<a, b>>
        BY <2>6, <3>1
      <3>3. p \in Texts /\ p # <<>> /\ p[1] = a
        BY <2>5, <2>6, <3>2
      <3> QED BY <2>6, <3>3
    <2>8. CASE p = <<"MAP", "gridmap">>
      BY <2>5, <2>6, <2>8, Zenon
    <2>9. CASE \E a \in One : p = <<a>>
      <3>1. PICK a \in One : p = <<a>>
        BY <2>9
      <3>2. p \in Texts /\ p # <<>> /\ p[1] = a
        BY <2>4, <3>1
      <3> QED BY <2>6, <3>2
    <2> QED BY <2>3, <2>7, <2>8, <2>9
  <1>2. Tail(p) \in Texts
    BY <1>1, HeadTailProperties DEF Texts
  <1>3. <<p[1]>> \o Tail(p) = p
    <2>1. Len(p) \in Nat /\ Len(p) >= 1
      BY <1>1, EmptySeq, LenProperties DEF Texts
    <2>2. Tail(p) = SubSeq(p, 2, Len(p)) /\ SubSeq(p, 1, Len(p)) = p
      BY <1>1, TailIsSubSeq, SubSeqFull DEF Texts
    <2>3. SubSeq(p, 1, Len(p)) = <<p[1]>> \o SubSeq(p, 1 + 1, Len(p))
      BY <1>1, <2>1, SubSeqRecursiveFirst DEF Texts
    <2> QED BY <2>2, <2>3
  <1> QED BY <1>1, <1>2, <1>3

\* The beginnings of packets are what TypeOK says of m_split_buf.
LEMMA PartsAreBeginnings ==
    ASSUME NEW b \in Parts
    PROVE  b \in {<<>>} \cup UNION {{SubSeq(p, 1, n) : n \in 1..Len(p)} : p \in Packets}
  <1>1. CASE b = <<>>
    BY <1>1
  <1>2. ASSUME b # <<>>, NEW p \in Packets, NEW r \in Texts, b \o r = p
        PROVE  \E n \in 1..Len(p) : b = SubSeq(p, 1, n)
    <2>1. b \in Seq(Tokens) /\ r \in Seq(Tokens) /\ Len(b) \in Nat /\ Len(r) \in Nat /\ Len(b) >= 1
      BY <1>2, EmptySeq, LenProperties DEF Parts, Texts
    <2>2. SubSeq(p, 1, Len(b)) = SubSeq(b, 1, Len(b))
      BY <1>2, <2>1, SubSeqOfConcat1
    <2>3. SubSeq(b, 1, Len(b)) = b
      BY <2>1, SubSeqFull
    <2>4. Len(p) = Len(b) + Len(r)
      BY <1>2, <2>1, ConcatProperties
    <2>5. Len(b) \in 1..Len(p) /\ b = SubSeq(p, 1, Len(b))
      BY <2>1, <2>2, <2>3, <2>4
    <2> QED BY <2>5
  <1> QED BY <1>1, <1>2 DEF Parts

\* left is what n frames w and one more, with the buffers buf, leave of the
\* packets q: the packets l remain for the last one.
Leaves(w, n, buf, q, l, left) ==
    /\ left \in [Nat -> Seq(Packets)]
    /\ left[1] = q /\ left[n + 1] = l /\ left[n + 2] = <<>>
    /\ \A i \in 1..n : Reads(w[i], buf[i], left[i], buf[i + 1], left[i + 1])

\* The next frame completes no packet.
LEMMA ReadsOn ==
    ASSUME NEW left \in [Nat -> Seq(Packets)], NEW buf, NEW w, NEW n \in Nat, left[n + 1] = <<>>,
           \A i \in 1..n : Reads(w[i], buf[i], left[i], buf[i + 1], left[i + 1])
    PROVE  \E l2 : Leaves(w, n, buf, left[1], <<>>, l2)
  <1>1. <<>> \in Seq(Packets)
    OBVIOUS
  <1> DEFINE l2 == [left EXCEPT ![n + 2] = <<>>]
  <1>2. /\ l2 \in [Nat -> Seq(Packets)] /\ l2[n + 2] = <<>>
        /\ \A i \in Nat : i # n + 2 => l2[i] = left[i]
    BY <1>1
  <1> HIDE DEF l2
  <1>3. \A i \in 1..n : i \in Nat /\ i # n + 2 /\ i + 1 \in Nat /\ i + 1 # n + 2
    OBVIOUS
  <1>4. \A i \in 1..n : Reads(w[i], buf[i], l2[i], buf[i + 1], l2[i + 1])
    BY <1>2, <1>3
  <1>5. 1 # n + 2 /\ n + 1 \in Nat /\ n + 1 # n + 2
    OBVIOUS
  <1> QED BY <1>2, <1>4, <1>5 DEF Leaves

\* The next frame completes packet p.
LEMMA ReadsOnTo ==
    ASSUME NEW left \in [Nat -> Seq(Packets)], NEW buf, NEW w, NEW n \in Nat, left[n + 1] = <<>>,
           \A i \in 1..n : Reads(w[i], buf[i], left[i], buf[i + 1], left[i + 1])
    PROVE  \A p \in Packets : \E l2 : Leaves(w, n, buf, Append(left[1], p), <<p>>, l2)
  <1> SUFFICES ASSUME NEW p \in Packets
               PROVE  \E l2 : Leaves(w, n, buf, Append(left[1], p), <<p>>, l2)
    OBVIOUS
  <1> DEFINE l2 == [i \in Nat |-> IF i = n + 2 THEN <<>> ELSE Append(left[i], p)]
  <1>1. l2 \in [Nat -> Seq(Packets)]
    OBVIOUS
  <1>2. l2[n + 2] = <<>>
    OBVIOUS
  <1>3. \A i \in Nat : i # n + 2 => l2[i] = Append(left[i], p)
    OBVIOUS
  <1> HIDE DEF l2
  <1>4. ASSUME NEW i \in 1..n
        PROVE  Reads(w[i], buf[i], l2[i], buf[i + 1], l2[i + 1])
    <2>1. i \in Nat /\ i # n + 2 /\ i + 1 \in Nat /\ i + 1 # n + 2
      OBVIOUS
    <2>2. l2[i] = Append(left[i], p) /\ l2[i + 1] = Append(left[i + 1], p)
      BY <1>3, <2>1
    <2>3. left[i] \in Seq(Packets)
      BY <2>1
    <2>4. Append(left[i], p) # <<>>
      BY <2>3, AppendProperties
    <2>5. left[i] # <<>> =>
            /\ Head(Append(left[i], p)) = Head(left[i])
            /\ Tail(Append(left[i], p)) = Append(Tail(left[i]), p)
      BY <2>3, HeadTailAppend, Zenon
    <2>6. Reads(w[i], buf[i], left[i], buf[i + 1], left[i + 1])
      OBVIOUS
    <2> HIDE DEF Reads
    <2>7. Reads(w[i], buf[i], Append(left[i], p), buf[i + 1], Append(left[i + 1], p))
      BY <2>4, <2>5, <2>6, Zenon DEF Reads
    <2> QED BY <2>2, <2>7, Zenon
  <1>5. 1 # n + 2 /\ n + 1 \in Nat /\ n + 1 # n + 2
    OBVIOUS
  <1>6. l2[1] = Append(left[1], p) /\ l2[n + 1] = Append(<<>>, p)
    BY <1>3, <1>5
  <1>7. Append(<<>>, p) = <<p>>
    OBVIOUS
  <1> QED BY <1>1, <1>2, <1>4, <1>6, <1>7 DEF Leaves

\* A frame is put on the wire: the run goes on by one frame, which may complete
\* a packet.
LEMMA RunGrows ==
    ASSUME wire \in Seq(Frames), NEW f \in Frames, wire' = Append(wire, f),
           m_split_buf' = m_split_buf,
           NEW buf \in [Nat -> Parts], NEW left \in [Nat -> Seq(Packets)], IsRun(buf, left),
           NEW b \in Parts, SentOf(b)',
           \/ queue' = queue /\ Reads(f, buf[Len(wire) + 1], <<>>, b, <<>>)
           \/ \E p \in Packets :
                queue' = Append(queue, p) /\ Reads(f, buf[Len(wire) + 1], <<p>>, b, <<>>)
    PROVE  RunInv'
  <1>1. PICK n \in Nat : n = Len(wire)
    BY LenProperties
  <1>2. /\ Len(wire') = n + 1 /\ wire'[n + 1] = f
        /\ \A i \in 1..n : wire'[i] = wire[i]
    BY <1>1, AppendProperties
  <1> DEFINE buf2 == [buf EXCEPT ![n + 2] = b]
  <1>3. /\ buf2 \in [Nat -> Parts] /\ buf2[n + 2] = b
        /\ \A i \in Nat : i # n + 2 => buf2[i] = buf[i]
    OBVIOUS
  <1> HIDE DEF buf2
  <1>4. /\ left[n + 1] = <<>> /\ left[1] = queue /\ buf[1] = m_split_buf
        /\ \A i \in 1..n : Reads(wire[i], buf[i], left[i], buf[i + 1], left[i + 1])
    BY <1>1 DEF IsRun
  <1>5. \E l, l2 : Leaves(wire, n, buf, queue', l, l2) /\ Reads(f, buf[n + 1], l, b, <<>>)
    <2>1. CASE queue' = queue /\ Reads(f, buf[n + 1], <<>>, b, <<>>)
      <3>1. \E l2 : Leaves(wire, n, buf, left[1], <<>>, l2)
        BY <1>4, ReadsOn, Zenon
      <3> QED BY <1>4, <2>1, <3>1, Zenon
    <2>2. ASSUME NEW p \in Packets, queue' = Append(queue, p), Reads(f, buf[n + 1], <<p>>, b, <<>>)
          PROVE  <1>5
      <3>1. \E l2 : Leaves(wire, n, buf, Append(left[1], p), <<p>>, l2)
        BY <1>4, ReadsOnTo, Zenon
      <3> QED BY <1>4, <2>2, <3>1, Zenon
    <2> QED BY <1>1, <2>1, <2>2
  <1>6. PICK l2 \in [Nat -> Seq(Packets)] :
          /\ l2[1] = queue' /\ l2[n + 2] = <<>>
          /\ \A i \in 1..n : Reads(wire[i], buf[i], l2[i], buf[i + 1], l2[i + 1])
          /\ Reads(f, buf[n + 1], l2[n + 1], b, l2[n + 2])
    BY <1>5 DEF Leaves
  <1>7. ASSUME NEW i \in 1..(n + 1)
        PROVE  Reads(wire'[i], buf2[i], l2[i], buf2[i + 1], l2[i + 1])
    <2>1. CASE i = n + 1
      <3>1. i + 1 = n + 2 /\ buf2[i] = buf[n + 1] /\ buf2[i + 1] = b /\ wire'[i] = f
        <4>1. i + 1 = n + 2 /\ n + 1 \in Nat /\ n + 1 # n + 2
          BY <2>1
        <4> QED BY <1>2, <1>3, <2>1, <4>1
      <3> QED BY <1>6, <2>1, <3>1
    <2>2. CASE i \in 1..n
      <3>1. i \in Nat /\ i # n + 2 /\ i + 1 \in Nat /\ i + 1 # n + 2
        BY <2>2
      <3>2. buf2[i] = buf[i] /\ buf2[i + 1] = buf[i + 1] /\ wire'[i] = wire[i]
        BY <1>2, <1>3, <2>2, <3>1
      <3> QED BY <1>6, <2>2, <3>2
    <2>3. i = n + 1 \/ i \in 1..n
      OBVIOUS
    <2> QED BY <2>1, <2>2, <2>3
  <1>8. buf2[1] = m_split_buf'
    <2>1. 1 # n + 2
      OBVIOUS
    <2> QED BY <1>3, <1>4, <2>1
  <1>9. Len(wire') + 1 = n + 2
    BY <1>2
  <1>10. IsRun(buf2, l2)'
    BY <1>2, <1>3, <1>6, <1>7, <1>8, <1>9 DEF IsRun
  <1> QED BY <1>3, <1>6, <1>10 DEF RunInv

\* The first frame is taken off the wire: the run goes on from the second.
LEMMA RunShrinks ==
    ASSUME wire \in Seq(Frames), wire # <<>>, wire' = Tail(wire), UNCHANGED <<cur, rest>>,
           NEW buf \in [Nat -> Parts], NEW left \in [Nat -> Seq(Packets)], IsRun(buf, left),
           m_split_buf' = buf[2], queue' = left[2]
    PROVE  RunInv'
  <1>0. PICK L \in Nat : L = Len(wire)
    BY LenProperties
  <1> DEFINE buf2 == [i \in Nat |-> buf[i + 1]]
             left2 == [i \in Nat |-> left[i + 1]]
  <1>1. /\ L >= 1 /\ Len(wire') = L - 1
        /\ \A i \in 1..(L - 1) : wire'[i] = wire[i + 1]
    BY <1>0, LenProperties, EmptySeq, HeadTailProperties
  <1>2. buf2 \in [Nat -> Parts] /\ left2 \in [Nat -> Seq(Packets)]
    OBVIOUS
  <1>3. buf2[1] = m_split_buf' /\ left2[1] = queue'
    OBVIOUS
  <1>4. buf2[L] = buf[L + 1] /\ left2[L] = <<>>
    BY <1>0, <1>1 DEF IsRun
  <1>5. SentOf(buf2[L])'
    <2>1. SentOf(buf[L + 1])
      BY <1>0 DEF IsRun
    <2> QED BY <1>4, <2>1 DEF SentOf
  <1>6. ASSUME NEW i \in 1..(L - 1)
        PROVE  Reads(wire'[i], buf2[i], left2[i], buf2[i + 1], left2[i + 1])
    <2>1. i \in Nat /\ i + 1 \in 1..L
      BY <1>1
    <2>2. Reads(wire[i + 1], buf[i + 1], left[i + 1], buf[(i + 1) + 1], left[(i + 1) + 1])
      BY <1>0, <2>1 DEF IsRun
    <2>3. /\ buf2[i] = buf[i + 1] /\ buf2[i + 1] = buf[(i + 1) + 1]
          /\ left2[i] = left[i + 1] /\ left2[i + 1] = left[(i + 1) + 1]
      <3>1. i + 1 \in Nat
        BY <2>1
      <3> QED BY <2>1, <3>1, Zenon
    <2> QED BY <1>1, <2>2, <2>3
  <1>7. Len(wire') + 1 = L
    BY <1>1
  <1> HIDE DEF buf2, left2
  <1>8. IsRun(buf2, left2)'
    BY <1>1, <1>3, <1>4, <1>5, <1>6, <1>7 DEF IsRun
  <1> QED BY <1>2, <1>8 DEF RunInv
LEMMA RunStays == RunInv /\ UNCHANGED <<m_split_buf, wire, cur, rest, queue>> => RunInv'
  <1> SUFFICES ASSUME RunInv, UNCHANGED <<m_split_buf, wire, cur, rest, queue>> PROVE RunInv'
    OBVIOUS
  <1>1. PICK buf \in [Nat -> Parts], left \in [Nat -> Seq(Packets)] : IsRun(buf, left)
    BY DEF RunInv
  <1>2. IsRun(buf, left)'
    BY <1>1 DEF IsRun, SentOf
  <1> QED BY <1>2 DEF RunInv

\* A run's first and last buffers, and the packets in flight.
LEMMA RunFacts ==
    ASSUME WireInv, NEW buf \in [Nat -> Parts], NEW left \in [Nat -> Seq(Packets)], IsRun(buf, left)
    PROVE  /\ Len(wire) \in Nat
           /\ m_split_buf \in Parts /\ queue \in Seq(Packets)
           /\ buf[Len(wire) + 1] \in Parts /\ buf[Len(wire) + 1] \in Texts
           /\ SentOf(buf[Len(wire) + 1])
  <1>1. PICK n \in Nat : n = Len(wire)
    BY LenProperties DEF WireInv
  <1>2. /\ buf[1] = m_split_buf /\ left[1] = queue /\ SentOf(buf[n + 1])
    BY <1>1 DEF IsRun
  <1>3. buf[1] \in Parts /\ left[1] \in Seq(Packets) /\ buf[n + 1] \in Parts
    OBVIOUS
  <1>4. \A b \in Parts : b \in Texts
    BY Zenon DEF Parts
  <1> QED BY <1>1, <1>2, <1>3, <1>4

\* The server puts a frame on the wire: a whole packet, a piece of one, the last
\* piece.
LEMMA WholeKeepsRun ==
    ASSUME WireInv, RunInv, NEW p \in Packets, SendWhole(p)
    PROVE  RunInv' /\ WireInv' /\ queue' = Append(queue, p)
  <1> DEFINE f == [code |-> p[1], data |-> Tail(p)]
  <1>1. f \in Frames /\ f.code = p[1] /\ f.data = Tail(p)
    <2>1. p[1] \in Tokens /\ Tail(p) \in Texts
      BY PacketFacts
    <2> QED BY <2>1 DEF Frames
  <1>2. /\ wire' = wire \o <<f>> /\ Len(wire) < MaxWire
        /\ queue' = Append(queue, p) /\ cur = <<>>
        /\ UNCHANGED <<cur, rest, m_split_buf>>
    BY DEF SendWhole, ServerSends, clientVars
  <1> HIDE DEF f
  <1>3. wire' = Append(wire, f) /\ wire' \in Seq(Frames) /\ Len(wire') = Len(wire) + 1
    BY <1>1, <1>2, AppendIsConcat, AppendProperties DEF WireInv
  <1>4. PICK buf \in [Nat -> Parts], left \in [Nat -> Seq(Packets)] : IsRun(buf, left)
    BY DEF RunInv
  <1>5. PICK b \in Parts : b = buf[Len(wire) + 1] /\ SentOf(b)
    BY <1>4, RunFacts
  <1>6. SentOf(b)'
    BY <1>2, <1>5 DEF SentOf
  <1>7. Reads(f, b, <<p>>, b, <<>>)
    <2>1. f.code \notin {"SPLIT", "SPLIT_FINISH"} /\ <<f.code>> \o f.data = p
      BY <1>1, PacketFacts
    <2>2. <<p>> # <<>> /\ Head(<<p>>) = p /\ Tail(<<p>>) = <<>>
      OBVIOUS
    <2> QED BY <2>1, <2>2, Zenon DEF Reads
  <1>8. RunInv'
    BY <1>1, <1>2, <1>3, <1>4, <1>5, <1>6, <1>7, RunGrows DEF WireInv
  <1>9. WireInv'
    BY <1>2, <1>3, BoundAssumption, LenProperties DEF WireInv
  <1> QED BY <1>2, <1>8, <1>9

LEMMA JoinPieces ==
    ASSUME NEW a \in Texts, NEW b \in Texts, NEW c \in Texts
    PROVE  (a \o b) \o c = a \o (b \o c)
  <1> DEFINE l == (a \o b) \o c
             r == a \o (b \o c)
  <1>1. /\ a \in Seq(Tokens) /\ b \in Seq(Tokens) /\ c \in Seq(Tokens)
        /\ Len(a) \in Nat /\ Len(b) \in Nat /\ Len(c) \in Nat
    BY LenProperties DEF Texts
  <1>2. /\ l \in Seq(Tokens) /\ Len(l) = Len(a) + Len(b) + Len(c)
        /\ r \in Seq(Tokens) /\ Len(r) = Len(a) + Len(b) + Len(c)
    BY <1>1, ConcatProperties
  <1>3. \A i \in 1..(Len(a) + Len(b) + Len(c)) : l[i] = r[i]
    BY <1>1, ConcatProperties
  <1> HIDE DEF l, r
  <1>4. l = r
    BY <1>1, <1>2, <1>3, SameUpTo
  <1> QED BY <1>4 DEF l, r

LEMMA PieceKeepsRun ==
    ASSUME WireInv, RunInv, NEW p \in Packets, NEW n \in 1..2, SendPiece(p, n)
    PROVE  RunInv' /\ WireInv' /\ queue' = queue /\ cur' = p
  <1> DEFINE from == IF cur = <<>> THEN p ELSE rest
             f == [code |-> "SPLIT", data |-> SubSeq(from, 1, n)]
  <1>1. /\ wire' = wire \o <<f>> /\ Len(wire) < MaxWire /\ n <= Len(from)
        /\ queue' = queue /\ cur' = p /\ m_split_buf' = m_split_buf
        /\ rest' = SubSeq(from, n + 1, Len(from))
        /\ cur = <<>> \/ cur = p
    <2>1. p # <<>>
      BY PacketFacts
    <2> QED BY <2>1 DEF SendPiece, ServerSends, clientVars
  <1>2. from \in Texts /\ p \in Texts /\ p # <<>>
    BY PacketFacts DEF WireInv
  <1>3. PICK t \in Texts : t = from
    BY <1>2
  <1>4. PICK d \in Texts : d = SubSeq(t, 1, n)
    <2>1. Len(t) \in Nat /\ \A i \in 1..n : t[i] \in Tokens
      BY <1>1, <1>3, LenProperties, ElementOfSeq DEF Texts
    <2>2. SubSeq(t, 1, n) \in Seq(Tokens)
      BY <2>1, SubSeqProperties
    <2> QED BY <2>2 DEF Texts
  <1>5. PICK r \in Texts : r = SubSeq(t, n + 1, Len(t))
    <2>1. Len(t) \in Nat /\ \A i \in (n + 1)..Len(t) : t[i] \in Tokens
      BY <1>1, <1>3, LenProperties, ElementOfSeq DEF Texts
    <2>2. SubSeq(t, n + 1, Len(t)) \in Seq(Tokens)
      BY <2>1, SubSeqProperties
    <2> QED BY <2>2 DEF Texts
  <1>6. d \o r = t
    <2>1. Len(t) \in Nat /\ n <= Len(t) /\ t \in Seq(Tokens)
      BY <1>1, <1>3, LenProperties DEF Texts
    <2>2. SubSeq(t, 1, n) \o SubSeq(t, n + 1, Len(t)) = SubSeq(t, 1, Len(t))
      <3>1. 1 \in 1..(Len(t) + 1) /\ n \in (1 - 1)..Len(t) /\ Len(t) \in n..Len(t)
        BY <2>1
      <3> QED BY <2>1, <3>1, ConcatAdjacentSubSeq
    <2> QED BY <1>4, <1>5, <2>1, <2>2, SubSeqFull
  <1>7. PICK buf \in [Nat -> Parts], left \in [Nat -> Seq(Packets)] : IsRun(buf, left)
    BY DEF RunInv
  <1>8. PICK b \in Parts : b = buf[Len(wire) + 1] /\ SentOf(b) /\ b \in Texts
    BY <1>7, RunFacts
  <1>9. b \o t = p
    <2>1. CASE cur = <<>>
      <3>1. b = <<>> /\ t = p
        BY <1>3, <1>8, <2>1 DEF SentOf
      <3> QED BY <1>2, <3>1, ConcatEmptySeq DEF Texts
    <2>2. CASE cur # <<>>
      BY <1>1, <1>3, <1>8, <2>2 DEF SentOf
    <2> QED BY <2>1, <2>2
  <1>10. PICK b2 \in Texts : b2 = b \o d
    BY <1>4, <1>8, ConcatProperties DEF Texts
  <1>11. b2 \o r = p
    <2>1. (b \o d) \o r = b \o (d \o r)
      BY <1>8, JoinPieces
    <2> QED BY <1>6, <1>9, <1>10, <2>1
  <1>12. b2 \in Parts
    BY <1>5, <1>10, <1>11 DEF Parts
  <1>13. PICK g \in Frames : g = f /\ g.code = "SPLIT" /\ g.data = d
    <2>1. f = [code |-> "SPLIT", data |-> d]
      BY <1>3, <1>4
    <2>2. [code |-> "SPLIT", data |-> d] \in Frames
      BY DEF Frames
    <2> QED BY <2>1, <2>2
  <1>14. rest' = r /\ rest' \in Texts
    BY <1>1, <1>3, <1>5
  <1> HIDE DEF from, f
  <1>15. wire' = Append(wire, g) /\ wire' \in Seq(Frames) /\ Len(wire') = Len(wire) + 1
    BY <1>1, <1>13, AppendIsConcat, AppendProperties DEF WireInv
  <1>16. SentOf(b2)'
    BY <1>1, <1>2, <1>11, <1>14 DEF SentOf
  <1>17. Reads(g, b, <<>>, b2, <<>>)
    BY <1>10, <1>13, Zenon DEF Reads
  <1>18. RunInv'
    BY <1>1, <1>7, <1>8, <1>12, <1>13, <1>15, <1>16, <1>17, RunGrows DEF WireInv
  <1>19. WireInv'
    BY <1>1, <1>14, <1>15, BoundAssumption, LenProperties DEF WireInv
  <1> QED BY <1>1, <1>18, <1>19

LEMMA LastPieceKeepsRun ==
    ASSUME WireInv, RunInv, SendLastPiece
    PROVE  RunInv' /\ WireInv' /\ cur \in Packets /\ queue' = Append(queue, cur) /\ cur' = <<>>
  <1> DEFINE f == [code |-> "SPLIT_FINISH", data |-> rest]
  <1>1. /\ wire' = wire \o <<f>> /\ Len(wire) < MaxWire /\ cur # <<>>
        /\ queue' = Append(queue, cur) /\ m_split_buf' = m_split_buf
        /\ cur' = <<>> /\ rest' = <<>>
    BY DEF SendLastPiece, ServerSends, clientVars
  <1>2. PICK p \in Packets : p = cur
    BY <1>1 DEF WireInv
  <1>3. PICK g \in Frames : g = f /\ g.code = "SPLIT_FINISH" /\ g.data = rest
    <2>1. rest \in Texts
      BY DEF WireInv
    <2>2. [code |-> "SPLIT_FINISH", data |-> rest] \in Frames
      BY <2>1 DEF Frames
    <2> QED BY <2>2
  <1> HIDE DEF f
  <1>4. wire' = Append(wire, g) /\ wire' \in Seq(Frames) /\ Len(wire') = Len(wire) + 1
    BY <1>1, <1>3, AppendIsConcat, AppendProperties DEF WireInv
  <1>5. PICK buf \in [Nat -> Parts], left \in [Nat -> Seq(Packets)] : IsRun(buf, left)
    BY DEF RunInv
  <1>6. PICK b \in Parts : b = buf[Len(wire) + 1] /\ SentOf(b)
    BY <1>5, RunFacts
  <1>7. <<>> \in Texts /\ <<>> \in Parts
    BY DEF Parts, Texts
  <1>8. PICK e \in Parts : e = <<>>
    BY <1>7
  <1>9. SentOf(e)'
    BY <1>1, <1>8 DEF SentOf
  <1>10. Reads(g, b, <<p>>, e, <<>>)
    <2>1. b \o g.data = p
      BY <1>1, <1>2, <1>3, <1>6 DEF SentOf
    <2>2. <<p>> # <<>> /\ Head(<<p>>) = p /\ Tail(<<p>>) = <<>>
      OBVIOUS
    <2> QED BY <1>3, <1>8, <2>1, <2>2, Zenon DEF Reads
  <1>11. RunInv'
    BY <1>1, <1>2, <1>4, <1>5, <1>6, <1>9, <1>10, RunGrows DEF WireInv
  <1>12. WireInv'
    BY <1>1, <1>4, <1>7, BoundAssumption, LenProperties DEF WireInv
  <1> QED BY <1>1, <1>2, <1>11, <1>12

\* readLoop reads a frame: the oldest packet is handed over, whole, or none is.
LEMMA ReadFrameDelivers ==
    ASSUME WireInv, RunInv, ReadFrame
    PROVE  /\ RunInv' /\ WireInv' /\ queue \in Seq(Packets)
           /\ \/ UNCHANGED <<pkt, queue>> /\ reader' = "loop"
              \/ /\ queue # <<>> /\ pkt' = Head(queue) /\ queue' = Tail(queue)
                 /\ reader' = "handle"
  <1>1. PICK buf \in [Nat -> Parts], left \in [Nat -> Seq(Packets)] : IsRun(buf, left)
    BY DEF RunInv
  <1>2. PICK f \in Frames : f = Head(wire)
    BY HeadTailProperties DEF WireInv, ReadFrame
  <1>3. /\ wire \in Seq(Frames) /\ wire # <<>> /\ wire' = Tail(wire)
        /\ UNCHANGED <<cur, rest, serverUp>> /\ reader = "read"
    BY DEF WireInv, ReadFrame
  <1>4. /\ Len(wire) \in Nat /\ Len(wire) >= 1 /\ wire[1] = f
        /\ wire' \in Seq(Frames) /\ Len(wire') = Len(wire) - 1
    BY <1>2, <1>3, LenProperties, EmptySeq, HeadTailProperties
  <1>5. Reads(f, m_split_buf, queue, buf[2], left[2])
    <2>1. 1 \in 1..Len(wire) /\ 1 + 1 = 2
      BY <1>4
    <2>2. Reads(wire[1], buf[1], left[1], buf[1 + 1], left[1 + 1])
      BY <1>1, <2>1 DEF IsRun
    <2> QED BY <1>1, <1>4, <2>1, <2>2 DEF IsRun
  <1>6. /\ queue \in Seq(Packets) /\ m_split_buf \in Parts /\ <<>> \notin Packets
    BY <1>1, PacketFacts, RunFacts
  <1>7. queue # <<>> => Head(queue) \in Packets
    BY <1>6, HeadTailProperties
  <1>8. /\ m_split_buf' = buf[2] /\ queue' = left[2]
        /\ \/ UNCHANGED <<pkt, queue>> /\ reader' = "loop"
           \/ /\ queue # <<>> /\ pkt' = Head(queue) /\ queue' = Tail(queue)
              /\ reader' = "handle"
    <2>1. CASE f.code = "SPLIT"
      <3>1. buf[2] = m_split_buf \o f.data /\ left[2] = queue
        BY <1>5, <2>1 DEF Reads
      <3>2. m_split_buf' = m_split_buf \o f.data /\ UNCHANGED <<pkt, queue>> /\ reader' = "loop"
        BY <1>2, <2>1 DEF ReadFrame
      <3> QED BY <3>1, <3>2
    <2>2. CASE f.code = "SPLIT_FINISH"
      <3>1. /\ buf[2] = <<>> /\ left[2] = Tail(queue) /\ queue # <<>>
            /\ m_split_buf \o f.data = Head(queue)
        BY <1>5, <2>2 DEF Reads
      <3>2. m_split_buf \o f.data # <<>>
        BY <1>6, <1>7, <3>1
      <3>3. m_split_buf' = <<>> /\ Handle(m_split_buf \o f.data)
        BY <1>2, <2>2, <3>2 DEF ReadFrame, ClearedSplit
      <3> QED BY <3>1, <3>3 DEF Handle
    <2>3. CASE f.code \notin {"SPLIT", "SPLIT_FINISH"}
      <3>1. /\ buf[2] = m_split_buf /\ left[2] = Tail(queue) /\ queue # <<>>
            /\ <<f.code>> \o f.data = Head(queue)
        BY <1>5, <2>3 DEF Reads
      <3>2. m_split_buf' = m_split_buf /\ Handle(<<f.code>> \o f.data)
        BY <1>2, <2>3 DEF ReadFrame
      <3> QED BY <3>1, <3>2 DEF Handle
    <2> QED BY <2>1, <2>2, <2>3
  <1>9. RunInv'
    BY <1>1, <1>3, <1>8, RunShrinks
  <1>10. WireInv'
    BY <1>3, <1>4, BoundAssumption DEF WireInv
  <1> QED BY <1>6, <1>8, <1>9, <1>10

\* send() never takes back that the key was sent.
LEMMA SendFacts ==
    ASSUME FlagsInv, NEW key \in BOOLEAN, Send(key)
    PROVE  /\ m_connected' \in BOOLEAN /\ keySent' \in BOOLEAN
           /\ keySent => keySent'
           /\ keySent' => keySent \/ key
  <1>1. CASE UNCHANGED <<m_connected, keySent>>
    BY <1>1 DEF FlagsInv
  <1>2. CASE m_connected' = m_connected /\ keySent' = (keySent \/ key)
    <2>1. CASE keySent = TRUE
      BY <1>2, <2>1, Zenon DEF FlagsInv
    <2>2. CASE keySent = FALSE
      BY <1>2, <2>2, Zenon DEF FlagsInv
    <2> QED BY <2>1, <2>2 DEF FlagsInv
  <1>3. CASE m_connected' = FALSE /\ keySent' = keySent
    BY <1>3 DEF FlagsInv
  <1> QED BY <1>1, <1>2, <1>3, Zenon DEF Send

LEMMA InvNext == Inv /\ [Next]_vars => Inv'
  <1> SUFFICES ASSUME Inv, [Next]_vars PROVE Inv'
    OBVIOUS
  <1> USE DEF Inv, reportVars, clientVars, serverVars
  <1>0. ReportsInv'
    BY ReportsStep
  <1>1. CASE Connect
    <2>1. /\ UNCHANGED <<pkt, connReports, keySent, wire, cur, rest, queue>>
          /\ main = "connect" /\ main' = "prompt" /\ reader' = "loop"
          /\ m_split_buf' = <<>> /\ m_map_name' = "" /\ m_player_id' = 0
          /\ sock' = TRUE /\ serverUp' = TRUE /\ m_connected' = TRUE /\ threads' = TRUE
      BY <1>1 DEF Connect
    <2>2. FlagsInv' /\ ValuesInv' /\ WireInv'
      BY <2>1 DEF FlagsInv, ValuesInv, WireInv
    <2>3. HandshakeInv'
      BY <2>1 DEF HandshakeInv, MapKnownWhenConnected, Answer
    <2>4. RunInv'
      <3>1. wire = <<>> /\ cur = <<>>
        BY <2>1 DEF HandshakeInv
      <3>2. PICK buf \in [Nat -> Parts], left \in [Nat -> Seq(Packets)] : IsRun(buf, left)
        BY DEF RunInv
      <3>3. Len(wire) = 0
        BY <3>1
      <3>4. SentOf(buf[1]) /\ left[1] = queue /\ left[1] = <<>>
        BY <3>2, <3>3 DEF IsRun
      <3>5. buf[1] = <<>>
        BY <3>1, <3>4 DEF SentOf
      <3>6. m_split_buf = <<>>
        BY <3>2, <3>5 DEF IsRun
      <3> QED BY <2>1, <3>6, RunStays
    <2> QED BY <1>0, <2>2, <2>3, <2>4
  <1>2. CASE \/ ConnectFails \/ Disconnect \/ MainStep \/ LoopTest \/ ReadFails
             \/ HandleKick \/ ReportKicked \/ HandleNotice \/ EndLoop \/ ReportClosed
             \/ ServerCloses \/ UNCHANGED vars
    <2>1. /\ UNCHANGED <<m_split_buf, m_map_name, m_player_id, pkt, keySent, wire, cur, rest, queue>>
          /\ connReports' \in {connReports, connReports \cup {"failed"}}
          /\ reader' = "handle" => reader = "handle"
      BY <1>2 DEF ConnectFails, Disconnect, MainStep, CloseSocket, Join, ReportDisconnected,
         Destroy, LoopTest, ReadFails, HandleKick, Handling, ReportKicked, HandleNotice, EndLoop,
         ReportClosed, ServerCloses, vars
    <2>2. FlagsInv'
      BY <1>2, Zenon DEF ConnectFails, Disconnect, MainStep, CloseSocket, ShutsSocket, Join,
         ReportDisconnected, Destroy, LoopTest, ReadFails, HandleKick, GivesUp, Handling,
         ReportKicked, HandleNotice, EndLoop, ReportClosed, ServerCloses, vars, FlagsInv
    <2>3. main' = "connect" => main = "connect" /\ UNCHANGED connReports /\ (~serverUp => ~serverUp')
      <3>1. ConnectFails \/ Disconnect \/ MainStep => main' # "connect"
        BY DEF ConnectFails, Disconnect, MainStep, CloseSocket, Join, ReportDisconnected, Destroy
      <3>2. \/ LoopTest \/ ReadFails \/ HandleKick \/ ReportKicked \/ HandleNotice \/ EndLoop
            \/ ReportClosed
            => UNCHANGED <<main, connReports, serverUp>>
        BY DEF LoopTest, ReadFails, HandleKick, Handling, ReportKicked, HandleNotice, EndLoop,
           ReportClosed
      <3>3. ServerCloses => UNCHANGED <<main, connReports>> /\ ~serverUp'
        BY DEF ServerCloses
      <3> QED BY <1>2, <3>1, <3>2, <3>3 DEF vars
    <2>4. ValuesInv' /\ WireInv'
      BY <2>1 DEF ValuesInv, WireInv
    <2>5. HandshakeInv'
      BY <2>1, <2>3 DEF HandshakeInv, MapKnownWhenConnected, Answer
    <2>6. RunInv'
      BY <2>1, RunStays
    <2> QED BY <1>0, <2>2, <2>4, <2>5, <2>6
  <1>3. CASE HandleMap \/ HandleAuth \/ HandleRequest
    <2>1. /\ UNCHANGED <<main, sock, threads, m_split_buf, pkt, serverUp, wire, cur, rest, queue>>
          /\ reader = "handle" /\ reader' = "loop" /\ pkt \in Packets
      BY <1>3 DEF HandleMap, HandleAuth, HandleRequest, Handling, ValuesInv
    <2>2. main # "connect" /\ main' # "connect"
      BY <2>1 DEF ReportsInv
    <2>3. /\ m_connected' \in BOOLEAN /\ keySent' \in BOOLEAN /\ (keySent => keySent')
          /\ keySent' => keySent \/ HandleMap
      <3>1. CASE HandleMap
        BY <3>1, SendFacts DEF HandleMap
      <3>2. CASE HandleRequest
        BY <3>2, SendFacts DEF HandleRequest
      <3>3. CASE HandleAuth
        <4>1. Send(FALSE) \/ UNCHANGED <<m_connected, keySent>>
          BY <3>3 DEF HandleAuth
        <4>2. CASE Send(FALSE)
          BY <4>2, SendFacts
        <4>3. CASE UNCHANGED <<m_connected, keySent>>
          BY <4>3 DEF FlagsInv
        <4> QED BY <4>1, <4>2, <4>3
      <3> QED BY <1>3, <3>1, <3>2, <3>3
    <2>4. FlagsInv'
      BY <2>1, <2>3 DEF FlagsInv
    <2>5. CASE HandleMap
      <3>1. m_map_name' = "gridmap" /\ UNCHANGED <<m_player_id, connReports>>
        BY <2>1, <2>5, PacketFacts DEF HandleMap, Handling, StoresMap
      <3>2. ValuesInv' /\ WireInv'
        BY <2>1, <3>1 DEF ValuesInv, WireInv
      <3>3. HandshakeInv'
        BY <2>1, <2>2, <2>3, <3>1 DEF HandshakeInv, MapKnownWhenConnected, Answer
      <3> QED BY <1>0, <2>1, <2>4, <3>2, <3>3, RunStays
    <2>6. CASE HandleAuth
      <3>1. /\ m_map_name' = m_map_name /\ m_player_id' \in {7, m_player_id}
            /\ connReports' \in {connReports, connReports \cup {"ok"}, connReports \cup {"failed"}}
            /\ pkt[1] = "AUTH_PLAYER"
        BY <2>6 DEF HandleAuth, Handling
      <3>2. keySent /\ m_map_name # ""
        BY <2>1, <3>1, PacketFacts DEF HandshakeInv, Answer
      <3>3. ValuesInv' /\ WireInv'
        BY <2>1, <3>1 DEF ValuesInv, WireInv
      <3>4. HandshakeInv'
        BY <2>1, <2>2, <2>3, <3>1, <3>2 DEF HandshakeInv, MapKnownWhenConnected, Answer
      <3> QED BY <1>0, <2>1, <2>4, <3>3, <3>4, RunStays
    <2>7. CASE HandleRequest
      <3>1. UNCHANGED <<m_map_name, m_player_id, connReports>> /\ ~HandleMap
        BY <2>7 DEF HandleRequest, HandleMap, Handling
      <3>2. ValuesInv' /\ WireInv'
        BY <2>1, <3>1 DEF ValuesInv, WireInv
      <3>3. HandshakeInv'
        BY <2>1, <2>2, <2>3, <3>1 DEF HandshakeInv, MapKnownWhenConnected, Answer
      <3> QED BY <1>0, <2>1, <2>4, <3>2, <3>3, RunStays
    <2> QED BY <1>3, <2>5, <2>6, <2>7
  <1>4. CASE ReadFrame
    <2>1. /\ UNCHANGED <<main, m_connected, sock, threads, m_map_name, m_player_id, connReports,
                         keySent, serverUp, cur, rest>>
          /\ reader = "read"
      BY <1>4 DEF ReadFrame
    <2>2. main # "connect" /\ main' # "connect"
      BY <2>1 DEF ReportsInv
    <2>3. /\ RunInv' /\ WireInv' /\ queue \in Seq(Packets)
          /\ \/ UNCHANGED <<pkt, queue>> /\ reader' = "loop"
             \/ /\ queue # <<>> /\ pkt' = Head(queue) /\ queue' = Tail(queue)
                /\ reader' = "handle"
      BY <1>4, ReadFrameDelivers
    <2>4. FlagsInv'
      BY <2>1 DEF FlagsInv
    <2>5. ValuesInv'
      BY <2>1, <2>3, HeadTailProperties DEF ValuesInv
    <2>6. HandshakeInv'
      <3>1. CASE UNCHANGED <<pkt, queue>>
        BY <2>1, <2>2, <3>1 DEF HandshakeInv, MapKnownWhenConnected, Answer
      <3>2. CASE queue # <<>> /\ pkt' = Head(queue) /\ queue' = Tail(queue)
        <4>1. /\ Len(queue) \in Nat /\ 1 \in 1..Len(queue) /\ pkt' = queue[1]
              /\ Len(queue') = Len(queue) - 1
              /\ \A i \in 1..Len(queue') : queue'[i] = queue[i + 1]
          BY <2>3, <3>2, LenProperties, EmptySeq, HeadTailProperties
        <4>2. \A i \in 1..Len(queue') : i + 1 \in 1..Len(queue)
          BY <4>1
        <4>3. \A i \in 1..Len(queue') : Answer(queue'[i]) => keySent
          BY <4>1, <4>2 DEF HandshakeInv
        <4>4. Answer(pkt') => keySent
          BY <4>1 DEF HandshakeInv
        <4> QED BY <2>1, <2>2, <4>3, <4>4 DEF HandshakeInv, MapKnownWhenConnected, Answer
      <3> QED BY <2>3, <3>1, <3>2
    <2> QED BY <1>0, <2>3, <2>4, <2>5, <2>6
  <1>5. CASE \/ \E p \in Packets : SendWhole(p) \/ \E n \in 1..2 : SendPiece(p, n)
             \/ SendLastPiece
    <2>1. ASSUME NEW frames, ServerSends(frames)
          PROVE  /\ UNCHANGED <<main, reader, m_connected, sock, threads, m_split_buf, m_map_name,
                                m_player_id, pkt, connReports, keySent, serverUp>>
                 /\ serverUp
      BY <2>1 DEF ServerSends
    <2>2. /\ UNCHANGED <<main, reader, m_connected, sock, threads, m_split_buf, m_map_name,
                         m_player_id, pkt, connReports, keySent, serverUp>>
          /\ serverUp
      BY <1>5, <2>1, Zenon DEF SendWhole, SendPiece, SendLastPiece
    <2>3. main # "connect"
      BY <2>2 DEF HandshakeInv
    <2>4. FlagsInv' /\ ValuesInv'
      BY <2>2 DEF FlagsInv, ValuesInv
    <2>5. queue \in Seq(Packets)
      BY RunFacts DEF RunInv
    <2>6. ASSUME NEW p \in Packets, RunInv', WireInv', Answer(p) \/ Answer(cur') => keySent,
                 queue' = queue \/ queue' = Append(queue, p)
          PROVE  Inv'
      <3>1. \A i \in 1..Len(queue') : Answer(queue'[i]) => keySent
        <4>1. CASE queue' = queue
          BY <4>1 DEF HandshakeInv
        <4>2. CASE queue' = Append(queue, p)
          <5>1. /\ Len(queue) \in Nat /\ Len(queue') = Len(queue) + 1
                /\ queue'[Len(queue) + 1] = p
                /\ \A i \in 1..Len(queue) : queue'[i] = queue[i]
            BY <2>5, <4>2, LenProperties, AppendProperties
          <5>2. \A i \in 1..Len(queue') : i = Len(queue) + 1 \/ i \in 1..Len(queue)
            BY <5>1
          <5> QED BY <2>6, <5>1, <5>2 DEF HandshakeInv
        <4> QED BY <2>6, <4>1, <4>2
      <3>2. HandshakeInv'
        BY <2>2, <2>3, <2>6, <3>1 DEF HandshakeInv, MapKnownWhenConnected, Answer
      <3> QED BY <1>0, <2>4, <2>6, <3>2
    <2>7. ASSUME NEW p \in Packets, SendWhole(p) PROVE Inv'
      <3>1. (Answer(p) => keySent) /\ cur' = cur
        BY <2>7 DEF SendWhole, MaySend, Answer
      <3> QED BY <2>6, <2>7, <3>1, WholeKeepsRun DEF HandshakeInv
    <2>8. ASSUME NEW p \in Packets, NEW n \in 1..2, SendPiece(p, n) PROVE Inv'
      <3>1. MaySend(p) \/ cur = p
        BY <2>8 DEF SendPiece
      <3>2. Answer(p) => keySent
        BY <3>1 DEF MaySend, Answer, HandshakeInv
      <3> QED BY <2>6, <2>8, <3>2, PieceKeepsRun
    <2>9. CASE SendLastPiece
      <3>1. /\ RunInv' /\ WireInv' /\ cur \in Packets
            /\ queue' = Append(queue, cur) /\ cur' = <<>>
        BY <2>9, LastPieceKeepsRun
      <3>2. PICK p \in Packets : p = cur
        BY <3>1
      <3>3. Answer(p) \/ Answer(cur') => keySent
        BY <3>1, <3>2 DEF HandshakeInv, Answer
      <3> QED BY <2>6, <3>1, <3>2, <3>3
    <2> QED BY <1>5, <2>7, <2>8, <2>9
  <1> QED
    BY <1>1, <1>2, <1>3, <1>4, <1>5 DEF Next, ReaderStep, ServerStep
\* Nothing is in flight before connect(): the run stays at the empty buffer.
LEMMA InvInit == Init => Inv
  <1> SUFFICES ASSUME Init PROVE Inv
    OBVIOUS
  <1>1. ReportsInv /\ FlagsInv /\ ValuesInv
    BY DEF Init, ReportsInv, Ending, FlagsInv, ValuesInv
  <1>2. <<>> \in Texts /\ <<>> \in Parts /\ <<>> \in Seq(Packets) /\ <<>> \in Seq(Frames)
    BY DEF Texts, Parts
  <1>3. /\ wire = <<>> /\ queue = <<>> /\ cur = <<>> /\ rest = <<>> /\ pkt = <<>>
        /\ m_split_buf = <<>> /\ connReports = {} /\ serverUp = FALSE /\ keySent = FALSE
    BY DEF Init
  <1>4. Len(wire) = 0 /\ Len(queue) = 0
    BY <1>3
  <1>5. WireInv
    BY <1>2, <1>3, <1>4, BoundAssumption DEF WireInv
  <1>6. HandshakeInv
    <2>1. ~Answer(<<>>)
      BY DEF Answer
    <2>2. \A i \in 1..Len(queue) : Answer(queue[i]) => keySent
      BY <1>4
    <2> QED BY <1>3, <2>1, <2>2 DEF HandshakeInv, MapKnownWhenConnected
  <1>7. RunInv
    <2> DEFINE none == [i \in Nat |-> <<>>]
    <2>1. none \in [Nat -> Parts] /\ none \in [Nat -> Seq(Packets)]
      BY <1>2
    <2>2. none[1] = <<>>
      OBVIOUS
    <2> HIDE DEF none
    <2>3. \A i \in 1..Len(wire) : Reads(wire[i], none[i], none[i], none[i + 1], none[i + 1])
      BY <1>4
    <2>4. SentOf(none[Len(wire) + 1])
      BY <1>3, <1>4, <2>2 DEF SentOf
    <2>5. IsRun(none, none)
      BY <1>3, <1>4, <2>2, <2>3, <2>4 DEF IsRun
    <2> QED BY <2>1, <2>5 DEF RunInv
  <1> QED BY <1>1, <1>5, <1>6, <1>7 DEF Inv

\* The invariant holds in every reachable state of the client.
LEMMA InvHolds == Spec => []Inv
  BY InvInit, InvNext, PTL DEF Spec

\* Labels, flags, the pieces of a split packet in m_split_buf and the packet
\* handed to handlePacket are what they should be: in particular the buffer
\* never holds more than the beginning of one packet, wherever the server splits.
THEOREM TypeCorrect == Spec => []TypeOK
  <1>1. Inv => TypeOK
    <2> SUFFICES ASSUME Inv PROVE TypeOK
      OBVIOUS
    <2>1. m_split_buf \in {<<>>} \cup UNION {{SubSeq(p, 1, n) : n \in 1..Len(p)} : p \in Packets}
      <3>1. m_split_buf \in Parts
        BY RunFacts DEF Inv, RunInv
      <3> QED BY <3>1, PartsAreBeginnings
    <2>2. {m_connected, sock, threads, serverUp, keySent} \subseteq BOOLEAN
      BY Zenon DEF Inv, FlagsInv
    <2> QED BY <2>1, <2>2 DEF Inv, ReportsInv, ValuesInv, WireInv, TypeOK
  <1> QED BY <1>1, InvHolds, PTL

\* Success is reported only once the name of the map has been stored, wherever
\* the server splits its packets and in whichever order it sends them: it answers
\* the key alone, and handlePacket sends the key after it has stored the name.
THEOREM MapIsKnown == Spec => []MapKnownWhenConnected
  <1>1. Inv => MapKnownWhenConnected
    BY DEF Inv, HandshakeInv
  <1> QED BY <1>1, InvHolds, PTL

-----------------------------------------------------------------------------
(* The client implements the packet channel.                               *)

\* Before connect() the channel is up and empty.
LEMMA ChannelInit == Init => Channel!Init
  BY DEF Init, Channel!Init, Alive

\* A frame that completes a packet delivers it, the last piece of a packet sends
\* it, the end of the loop and of the process take the channel down.
LEMMA ChannelNext == Inv /\ [Next]_vars => [Channel!Next]_Channel!vars
  <1> SUFFICES ASSUME Inv, [Next]_vars PROVE [Channel!Next]_Channel!vars
    OBVIOUS
  <1> USE DEF Channel!vars, reportVars, clientVars, serverVars
  <1>1. CASE Connect \/ ConnectFails \/ Disconnect
    BY <1>1 DEF Connect, ConnectFails, Disconnect, Alive, Inv, ReportsInv
  <1>2. CASE CloseSocket \/ Join \/ ReportDisconnected
    BY <1>2 DEF CloseSocket, Join, ReportDisconnected, Alive
  <1>3. CASE Destroy
    BY <1>3 DEF Destroy, Alive, Channel!Next, Channel!GoDown
  <1>4. CASE LoopTest \/ ReadFails
    BY <1>4 DEF LoopTest, ReadFails, Alive, Channel!Next, Channel!GoDown
  <1>5. CASE ReadFrame
    <2>1. UNCHANGED main /\ reader = "read" /\ Alive
      BY <1>5 DEF ReadFrame
    <2>2. \/ UNCHANGED <<pkt, queue>> /\ reader' = "loop"
          \/ /\ queue # <<>> /\ pkt' = Head(queue) /\ queue' = Tail(queue)
             /\ reader' = "handle"
      BY <1>5, ReadFrameDelivers DEF Inv
    <2> QED BY <2>1, <2>2 DEF Alive, Channel!Next, Channel!Deliver
  <1>6. CASE HandleMap \/ HandleAuth \/ HandleKick \/ HandleRequest \/ HandleNotice
    <2>1. /\ UNCHANGED <<main, pkt, queue>>
          /\ reader = "handle" /\ reader' \in {"loop", "kicked"}
      BY <1>6 DEF HandleMap, HandleAuth, HandleKick, HandleRequest, HandleNotice, Handling
    <2> QED BY <2>1 DEF Alive
  <1>7. CASE ReportKicked \/ EndLoop \/ ReportClosed
    BY <1>7 DEF ReportKicked, EndLoop, ReportClosed, Alive
  <1>8. CASE ServerStep
    <2>1. UNCHANGED <<main, reader>>
      BY <1>8, ServerFrame
    <2>2. ASSUME NEW frames, ServerSends(frames) PROVE UNCHANGED pkt
      BY <2>2 DEF ServerSends
    <2>3. ASSUME NEW p \in Packets, SendWhole(p) PROVE Channel!Send(p)
      <3>1. UNCHANGED pkt /\ queue' = Append(queue, p)
        BY <2>2, <2>3 DEF SendWhole
      <3> QED BY <2>1, <3>1 DEF Channel!Send, Alive
    <2>4. ASSUME NEW p \in Packets, NEW n \in 1..2, SendPiece(p, n) PROVE UNCHANGED <<pkt, queue>>
      BY <2>2, <2>4, Zenon DEF SendPiece
    <2>5. CASE SendLastPiece
      <3>1. UNCHANGED pkt
        BY <2>2, <2>5, Zenon DEF SendLastPiece
      <3>2. cur \in Packets /\ queue' = Append(queue, cur)
        BY <2>5, LastPieceKeepsRun DEF Inv
      <3>3. Channel!Send(cur)
        BY <2>1, <3>1, <3>2 DEF Channel!Send, Alive
      <3> QED BY <3>2, <3>3 DEF Channel!Next
    <2>6. CASE ServerCloses
      BY <2>6 DEF ServerCloses, Alive
    <2>7. CASE \E p \in Packets : SendWhole(p)
      BY <2>3, <2>7 DEF Channel!Next
    <2>8. CASE \E p \in Packets, n \in 1..2 : SendPiece(p, n)
      BY <2>1, <2>4, <2>8 DEF Alive
    <2> QED BY <1>8, <2>5, <2>6, <2>7, <2>8 DEF ServerStep
  <1>9. CASE UNCHANGED vars
    BY <1>9 DEF vars, Alive
  <1> QED
    BY <1>1, <1>2, <1>3, <1>4, <1>5, <1>6, <1>7, <1>8, <1>9 DEF Next, MainStep, ReaderStep

\* The client implements PacketChannel, its fairness aside: wherever the server
\* splits its packets, readLoop hands each of them over whole, once and in order,
\* and none after the loop has ended.
THEOREM BeamMPImplementsChannel == Spec => Channel!Init /\ [][Channel!Next]_Channel!vars
  BY ChannelInit, ChannelNext, InvHolds, PTL DEF Spec

=============================================================================
