------------------------- MODULE ProxyServersProofs -------------------------
(***************************************************************************)
(* Proofs about ProxyServers, for any connections and any traffic.         *)
(*                                                                         *)
(* ChargedInFull is not inductive: that the store is closed says nothing   *)
(* by itself of the SOCKS5 tunnels.  IInv adds the chain that leads there: *)
(* the store is closed only when the server has returned, the server       *)
(* returns only when its connections are settled, and a server that never  *)
(* listened has accepted none.                                             *)
(***************************************************************************)
EXTENDS ProxyServers, TLAPS

\* What a connection in each phase has copied and has been charged.
BookedAt(c) ==
    /\ conns[c].phase # "over" => charged[c] = 0
    /\ conns[c].phase \in {"none", "setup"} => Total(c) = 0
    /\ conns[c].phase = "over" /\ c \notin failed /\ (StoreOpen \/ c \in SocksConns) =>
          charged[c] = Total(c)

Booked == \A c \in Conns : BookedAt(c)

\* What main and the SOCKS5 server know of the server's connections.
InOrder ==
    /\ main = "closed" => servers["socks5"] = "returned"
    /\ servers["socks5"] = "starting" => \A c \in SocksConns : conns[c].phase = "none"
    /\ servers["socks5"] = "returned" => Settled(SocksConns)

\* A byte is in one place: what the peers have sent is pending or copied.
Volume(q) == q.copied["client"] + q.copied["target"]
                + q.pending["client"] + q.pending["target"]
Bounded == \A c \in Conns : Volume(conns[c]) <= MaxBytes

\* A process that has exited carries nothing.
Idle == main = "exited" => \A c \in Conns : conns[c].phase = "none"

IInv == TypeOK /\ Booked /\ InOrder /\ Bounded /\ Idle

\* A new connection is a connection, with nothing copied.
LEMMA NewConnType ==
    /\ NewConn \in Conn /\ NewConn.phase = "none"
    /\ \A s \in Sides : NewConn.copied[s] = 0
    /\ Volume(NewConn) = 0
BY ServersAssumption DEF ServersAssumption, NewConn, Conn, Sides, Volume

\* A connection that is over is a connection, with what it had copied.
LEMMA OverType ==
    ASSUME TypeOK, NEW c \in Conns
    PROVE  /\ Over(c) \in Conn /\ Over(c).phase = "over" /\ Over(c).copied = conns[c].copied
           /\ Over(c).pending["client"] = 0 /\ Over(c).pending["target"] = 0
<1>1. conns[c].copied \in [Sides -> 0 .. MaxBytes]
  BY DEF TypeOK, Conn
<1>2. \A q \in Conn, f \in [Sides -> 0 .. MaxBytes] :
         LET o == [q EXCEPT !.phase = "over", !.copied = f] IN
         o \in Conn /\ o.phase = "over" /\ o.copied = f /\ o.pending = q.pending
  BY DEF Conn
<1>3. NewConn.pending["client"] = 0 /\ NewConn.pending["target"] = 0
  BY DEF NewConn, Sides
<1>. QED  BY <1>1, <1>2, <1>3, NewConnType DEF Over

\* The total of a connection is a number.
LEMMA TotalNat ==
    ASSUME TypeOK, NEW c \in Conns
    PROVE  Total(c) \in Nat
<1>1. conns[c].copied \in [Sides -> 0 .. MaxBytes]
  BY DEF TypeOK, Conn
<1>. QED  BY <1>1, ServersAssumption DEF ServersAssumption, Total, Sides

\* A process that has just started, or is about to.
Fresh ==
    /\ main \in {"serving", "exited"}
    /\ servers = [s \in Servers |-> "starting"] /\ conns = [c \in Conns |-> NewConn]
    /\ charged = [c \in Conns |-> 0] /\ failed = {}

\* Such a process satisfies IInv.
LEMMA FreshIInv == Fresh => IInv
<1>. SUFFICES ASSUME Fresh PROVE IInv
  OBVIOUS
<1>. USE DEF Fresh
<1>1. TypeOK
  BY NewConnType DEF TypeOK, MainPhases, ServerPhases
<1>2. ASSUME NEW c \in Conns PROVE BookedAt(c)
  <2>1. conns[c] = NewConn /\ charged[c] = 0
    OBVIOUS
  <2>2. NewConn.copied["client"] = 0 /\ NewConn.copied["target"] = 0
    BY NewConnType DEF Sides
  <2>. QED  BY <2>1, <2>2, NewConnType DEF BookedAt, Total
<1>3. InOrder
  BY NewConnType DEF InOrder, Servers, Conns
<1>4. Bounded
  BY NewConnType, ServersAssumption DEF ServersAssumption, Bounded
<1>5. Idle
  BY NewConnType DEF Idle
<1>. QED  BY <1>1, <1>2, <1>3, <1>4, <1>5 DEF IInv, Booked

\* A step of one connection that leaves charges alone, and after which the
\* connection has gone on in its order, keeps IInv.
LEMMA UpdateKeeps ==
    ASSUME IInv, NEW c \in Conns, NEW conn \in Conn, Update(c, conn), UNCHANGED charged,
           conn.phase \in {"setup", "tunnel", "forward"} \/ (conn.phase = "over" /\ charged[c] = 0),
           conns[c].phase # "over", Volume(conn) <= MaxBytes,
           conn.phase \notin {"tunnel", "forward"} =>
               conn.copied["client"] = 0 /\ conn.copied["target"] = 0,
           c \in SocksConns => servers["socks5"] \notin {"starting", "returned"}
    PROVE  IInv'
<1>1. TypeOK'
  BY DEF IInv, TypeOK, Update
<1>2. ASSUME NEW d \in Conns PROVE BookedAt(d)'
  <2>1. BookedAt(d) /\ conns \in [Conns -> Conn]
    BY DEF IInv, Booked, TypeOK
  <2>2. CASE d # c
    <3>1. conns'[d] = conns[d] /\ Total(d)' = Total(d) /\ (StoreOpen' <=> StoreOpen)
      BY <2>1, <2>2 DEF Update, Total, StoreOpen
    <3>. QED  BY <2>1, <3>1 DEF BookedAt, Update
  <2>3. CASE d = c
    <3>1. conns'[c] = conn /\ charged[c] = 0
      BY <2>1, <2>3 DEF Update, BookedAt
    <3>2. conn.phase \notin {"tunnel", "forward"} => Total(c)' = 0
      BY <3>1 DEF Total
    <3>. QED  BY <2>3, <3>1, <3>2 DEF BookedAt
  <2>. QED  BY <2>2, <2>3
<1>3. InOrder'
  <2>1. c \notin SocksConns => \A d \in SocksConns : conns'[d] = conns[d]
    BY DEF IInv, TypeOK, Update, Conns
  <2>. QED  BY <2>1 DEF IInv, InOrder, Update, Settled
<1>4. Bounded'
  BY DEF IInv, TypeOK, Bounded, Update
<1>5. Idle'
  BY DEF Idle, Update, Running
<1>. QED  BY <1>1, <1>2, <1>3, <1>4, <1>5 DEF IInv, Booked

-----------------------------------------------------------------------------

\* The parts of a connection, with their types.
LEMMA ConnParts ==
    ASSUME IInv, NEW c \in Conns
    PROVE  /\ conns[c] \in Conn
           /\ conns[c].copied \in [Sides -> 0 .. MaxBytes]
           /\ conns[c].pending \in [Sides -> 0 .. MaxBytes]
           /\ conns[c].copiers \subseteq Sides
           /\ Volume(conns[c]) <= MaxBytes
           /\ conns[c].phase # "over" => charged[c] = 0
           /\ conns[c].phase \in {"none", "setup"} =>
                 conns[c].copied["client"] = 0 /\ conns[c].copied["target"] = 0
<1>1. conns[c] \in Conn /\ Volume(conns[c]) <= MaxBytes /\ BookedAt(c)
  BY DEF IInv, TypeOK, Booked, Bounded
<1>2. conns[c].copied["client"] \in Nat /\ conns[c].copied["target"] \in Nat
  BY <1>1, ServersAssumption DEF ServersAssumption, Conn, Sides
<1>. QED  BY <1>1, <1>2 DEF Conn, BookedAt, Total

\* A connection in progress holds its server up.
LEMMA ServerUp ==
    ASSUME IInv, NEW c \in SocksConns, conns[c].phase = "setup" \/ Carrying(c)
    PROVE  servers["socks5"] \notin {"starting", "returned"}
BY DEF IInv, InOrder, Settled, Carrying

\* Accepting and setting up a connection.
LEMMA OpeningKeeps ==
    ASSUME IInv, NEW c \in Conns, 
           Accept(c) \/ Connected(c) \/ Forwarding(c) \/ SetUpFails(c)
    PROVE  IInv'
<1>. DEFINE q == conns[c]
<1>1. CASE Accept(c)
  <2>. DEFINE r == [q EXCEPT !.phase = "setup"]
  <2>1. r \in Conn /\ r.phase = "setup" /\ r.copied = q.copied /\ r.pending = q.pending
    BY ConnParts DEF Conn
  <2>2. Volume(r) <= MaxBytes
    BY <2>1, ConnParts DEF Volume
  <2>3. c \in SocksConns => servers["socks5"] \notin {"starting", "returned"}
    BY <1>1 DEF Accept, ServerOf
  <2>4. Update(c, r) /\ UNCHANGED charged /\ q.phase = "none"
    BY <1>1 DEF Accept
  <2>. HIDE DEF r
  <2>. QED  BY <2>1, <2>2, <2>3, <2>4, ConnParts, UpdateKeeps
<1>2. ASSUME NEW phase \in {"tunnel", "forward"}, NEW copiers \in SUBSET Sides,
             SetUp(c, phase, copiers)
      PROVE  IInv'
  <2>. DEFINE t == [q EXCEPT !.phase = phase, !.copiers = copiers]
  <2>1. q.phase = "setup" /\ UNCHANGED charged /\ charged[c] = 0 /\ Update(c, t)
    BY <1>2, ConnParts DEF SetUp
  <2>2. c \in SocksConns => servers["socks5"] \notin {"starting", "returned"}
    BY <2>1, ServerUp
  <2>3. t \in Conn /\ t.phase = phase /\ t.copied = q.copied /\ t.pending = q.pending
    <3>1. q \in Conn
      BY ConnParts
    <3>. QED  BY ONLY <3>1, phase \in {"tunnel", "forward"}, copiers \in SUBSET Sides DEF Conn
  <2>4. Volume(t) <= MaxBytes
    BY <2>3, ConnParts DEF Volume
  <2>. HIDE DEF t
  <2>. QED  BY <2>1, <2>2, <2>3, <2>4, UpdateKeeps
<1>3. CASE SetUpFails(c)
  <2>1. q.phase = "setup" /\ UNCHANGED charged /\ charged[c] = 0 /\ Update(c, Over(c))
    BY <1>3, ConnParts DEF SetUpFails
  <2>2. c \in SocksConns => servers["socks5"] \notin {"starting", "returned"}
    BY <2>1, ServerUp
  <2>3. Over(c) \in Conn /\ Over(c).phase = "over" /\ Over(c).copied = q.copied
        /\ Over(c).pending["client"] = 0 /\ Over(c).pending["target"] = 0
    BY OverType DEF IInv
  <2>4. Over(c).copied["client"] = 0 /\ Over(c).copied["target"] = 0
    BY <2>1, <2>3, ConnParts
  <2>5. Volume(Over(c)) <= MaxBytes
    BY <2>3, <2>4, ServersAssumption DEF ServersAssumption, Volume
  <2>. QED  BY <2>1, <2>2, <2>3, <2>4, <2>5, UpdateKeeps
<1>4. {"target"} \subseteq Sides /\ Sides \subseteq Sides
  BY DEF Sides
<1>. QED  BY <1>1, <1>2, <1>3, <1>4 DEF Connected, Forwarding

\* What peers and copiers do while a connection carries bytes.
LEMMA TunnelKeeps ==
    ASSUME IInv, NEW c \in Conns,
           PeerStep(c) \/ \E s \in Sides : CopierEnds(c, s)
    PROVE  IInv'
<1>. DEFINE q == conns[c]
<1>1. ASSUME NEW r \in Conn, Carrying(c), r.phase = q.phase,
             Volume(r) <= MaxBytes, Update(c, r), UNCHANGED charged
      PROVE  IInv'
  <2>1. c \in SocksConns => servers["socks5"] \notin {"starting", "returned"}
    BY <1>1, ServerUp
  <2>. QED  BY <1>1, <2>1, UpdateKeeps DEF Carrying
<1>2. ASSUME NEW s \in Sides, Send(c, s) PROVE IInv'
  <2>. DEFINE r == [q EXCEPT !.pending[s] = @ + 1]
              p == [q.pending EXCEPT ![s] = @ + 1]
  <2>1. /\ Carrying(c) /\ Update(c, r) /\ UNCHANGED charged
        /\ Volume(q) + 1 <= MaxBytes
    BY <1>2, ConnParts, ServersAssumption
       DEF ServersAssumption, Send, Volume, Total, Sides
  <2>2. p \in [Sides -> 0 .. MaxBytes]
    BY <2>1, ConnParts, ServersAssumption DEF ServersAssumption, Volume, Sides
  <2>3. r \in Conn /\ r.phase = q.phase /\ r.copied = q.copied /\ r.pending = p
    BY <2>2, ConnParts DEF Conn
  <2>4. Volume(r) <= MaxBytes
    <3>1. p["client"] + p["target"] = q.pending["client"] + q.pending["target"] + 1
      BY ConnParts, ServersAssumption DEF ServersAssumption, Sides
    <3>2. /\ q.copied["client"] \in Nat /\ q.copied["target"] \in Nat
          /\ q.pending["client"] \in Nat /\ q.pending["target"] \in Nat
          /\ p["client"] \in Nat /\ p["target"] \in Nat
      BY <2>2, ConnParts, ServersAssumption DEF ServersAssumption, Sides
    <3>. QED  BY <2>1, <2>3, <3>1, <3>2, ServersAssumption DEF ServersAssumption, Volume
  <2>. HIDE DEF r, p
  <2>. QED  BY <1>1, <2>1, <2>3, <2>4
<1>3. ASSUME NEW s \in Sides, Copy(c, s) PROVE IInv'
  <2>. DEFINE r == [q EXCEPT !.pending[s] = @ - 1, !.copied[s] = @ + 1]
              p == [q.pending EXCEPT ![s] = @ - 1]
              k == [q.copied EXCEPT ![s] = @ + 1]
  <2>1. /\ Carrying(c) /\ Update(c, r) /\ UNCHANGED charged
        /\ q.pending[s] > 0
    BY <1>3 DEF Copy, Copying
  <2>2. p \in [Sides -> 0 .. MaxBytes] /\ k \in [Sides -> 0 .. MaxBytes]
    BY <2>1, ConnParts, ServersAssumption DEF ServersAssumption, Volume, Sides
  <2>3. r \in Conn /\ r.phase = q.phase /\ r.copied = k /\ r.pending = p
    <3>1. q \in Conn
      BY ConnParts
    <3>. QED  BY ONLY <2>2, <3>1 DEF Conn
  <2>4. Volume(r) <= MaxBytes
    <3>1. /\ p["client"] + p["target"] = q.pending["client"] + q.pending["target"] - 1
          /\ k["client"] + k["target"] = q.copied["client"] + q.copied["target"] + 1
      BY ConnParts, ServersAssumption DEF ServersAssumption, Sides
    <3>2. /\ q.copied["client"] \in Nat /\ q.copied["target"] \in Nat
          /\ q.pending["client"] \in Nat /\ q.pending["target"] \in Nat
          /\ p["client"] \in Nat /\ p["target"] \in Nat
          /\ k["client"] \in Nat /\ k["target"] \in Nat
      BY <2>2, ConnParts, ServersAssumption DEF ServersAssumption, Sides
    <3>. QED  BY <2>3, <3>1, <3>2, ConnParts, ServersAssumption DEF ServersAssumption, Volume
  <2>. HIDE DEF r, p, k
  <2>. QED  BY <1>1, <2>1, <2>3, <2>4
<1>4. ASSUME NEW s \in Sides, NEW how \in {"ended", "gone"}, Leave(c, s, how) PROVE IInv'
  <2>. DEFINE r == [q EXCEPT !.peer[s] = how]
  <2>1. Carrying(c) /\ Update(c, r) /\ UNCHANGED charged
    BY <1>4 DEF Leave
  <2>2. r \in Conn /\ r.phase = q.phase /\ r.copied = q.copied /\ r.pending = q.pending
    BY ConnParts DEF Conn
  <2>3. Volume(r) <= MaxBytes
    BY <2>2, ConnParts DEF Volume
  <2>. HIDE DEF r
  <2>. QED  BY <1>1, <2>1, <2>2, <2>3
<1>5. ASSUME NEW s \in Sides, CopierEnds(c, s) PROVE IInv'
  <2>. DEFINE r == [q EXCEPT !.copiers = @ \ {s}]
  <2>1. Carrying(c) /\ Update(c, r) /\ UNCHANGED charged
    BY <1>5 DEF CopierEnds, Copying
  <2>2. r \in Conn /\ r.phase = q.phase /\ r.copied = q.copied /\ r.pending = q.pending
    BY ConnParts DEF Conn
  <2>3. Volume(r) <= MaxBytes
    BY <2>2, ConnParts DEF Volume
  <2>. HIDE DEF r
  <2>. QED  BY <1>1, <2>1, <2>2, <2>3
<1>. QED  BY <1>2, <1>3, <1>4, <1>5 DEF PeerStep

\* The end of a tunnel: charged, or not.
LEMMA ChargeKeeps ==
    ASSUME IInv, NEW c \in Conns, RecordUsage(c) \/ RecordFails(c)
    PROVE  IInv'
<1>1. /\ Carrying(c) /\ main # "exited"
      /\ conns' = [conns EXCEPT ![c] = Over(c)]
      /\ UNCHANGED <<main, servers>>
  BY DEF RecordUsage, RecordFails, Update, Running
<1>2. /\ Over(c) \in Conn /\ Over(c).phase = "over" /\ Over(c).copied = conns[c].copied
      /\ Over(c).pending["client"] = 0 /\ Over(c).pending["target"] = 0
  BY OverType DEF IInv
<1>3. conns'[c] = Over(c) /\ \A d \in Conns \ {c} : conns'[d] = conns[d]
  BY <1>1 DEF IInv, TypeOK
<1>4. Total(c)' = Total(c) /\ Total(c) \in Nat
  BY <1>2, <1>3, TotalNat DEF Total, IInv
<1>5. charged[c] = 0 /\ charged \in [Conns -> Nat] /\ failed \subseteq Conns
  BY <1>1, ConnParts DEF IInv, TypeOK, Carrying
<1>6. /\ \/ charged' = [charged EXCEPT ![c] = @ + Total(c)] /\ StoreOpen /\ failed' = failed
         \/ charged' = charged /\ (c \in failed' \/ ~StoreOpen)
      /\ failed \subseteq failed' /\ failed' \subseteq failed \cup {c}
  BY DEF RecordUsage, RecordFails, Update
<1>7. TypeOK'
  BY <1>1, <1>2, <1>4, <1>5, <1>6 DEF IInv, TypeOK
<1>8. ASSUME NEW d \in Conns PROVE BookedAt(d)'
  <2>1. CASE d # c
    <3>1. conns'[d] = conns[d] /\ charged'[d] = charged[d] /\ Total(d)' = Total(d)
          /\ (d \in failed' <=> d \in failed) /\ (StoreOpen' <=> StoreOpen)
      BY <1>1, <1>3, <1>5, <1>6, <2>1 DEF Total, StoreOpen
    <3>2. BookedAt(d)
      BY DEF IInv, Booked
    <3>. QED  BY <3>1, <3>2 DEF BookedAt
  <2>2. CASE d = c
    <3>1. c \in SocksConns => StoreOpen
      BY <1>1, ServerUp DEF IInv, TypeOK, InOrder, StoreOpen, MainPhases
    <3>2. (StoreOpen' <=> StoreOpen) /\ conns'[c].phase = "over"
      BY <1>1, <1>2, <1>3 DEF StoreOpen
    <3>3. charged'[c] = Total(c) \/ c \in failed' \/ ~StoreOpen
      BY <1>4, <1>5, <1>6
    <3>. QED  BY <1>4, <2>2, <3>1, <3>2, <3>3 DEF BookedAt
  <2>. QED  BY <2>1, <2>2
<1>9. InOrder'
  BY <1>1, <1>2, <1>3, ServerUp DEF IInv, InOrder, Settled, Conns
<1>10. Bounded'
  <2>1. Volume(Over(c)) <= MaxBytes
    <3>1. /\ Over(c).copied = conns[c].copied /\ Volume(conns[c]) <= MaxBytes
          /\ conns[c].copied["client"] \in Nat /\ conns[c].copied["target"] \in Nat
          /\ conns[c].pending["client"] \in Nat /\ conns[c].pending["target"] \in Nat
      BY <1>2, ConnParts, ServersAssumption DEF ServersAssumption, Sides
    <3>. QED  BY <1>2, <3>1, ServersAssumption DEF ServersAssumption, Volume
  <2>. QED  BY <1>3, <2>1 DEF IInv, Bounded
<1>11. Idle'
  BY <1>1 DEF Idle
<1>. QED  BY <1>7, <1>8, <1>9, <1>10, <1>11 DEF IInv, Booked

\* A server goes on in its order.
LEMMA ServerKeeps ==
    ASSUME IInv,
           \/ \E s \in Servers, ok \in BOOLEAN : Listen(s, ok)
           \/ \E s \in Servers : HTTPReturns(s)
           \/ CloseListener \/ SocksReturns
    PROVE  IInv'
<1>1. PICK s \in Servers, phase \in {"listening", "closing", "returned"} :
         /\ Become(s, phase) /\ servers[s] # "returned"
         /\ s = "socks5" /\ phase = "returned" => Settled(SocksConns)
  <2>1. ASSUME NEW s \in Servers, NEW ok \in BOOLEAN, Listen(s, ok)
        PROVE  /\ Become(s, IF ok THEN "listening" ELSE "returned") /\ servers[s] # "returned"
               /\ s = "socks5" => Settled(SocksConns)
    BY <2>1 DEF Listen, IInv, InOrder, Settled
  <2>. QED  BY <2>1 DEF HTTPReturns, CloseListener, SocksReturns, Servers
<1>2. /\ servers' = [servers EXCEPT ![s] = phase]
      /\ main # "exited" /\ UNCHANGED <<main, conns, charged, failed>>
  BY <1>1 DEF Become, Running
<1>3. TypeOK'
  BY <1>2 DEF IInv, TypeOK, ServerPhases
<1>4. Booked' /\ Bounded'
  BY <1>2 DEF IInv, Booked, BookedAt, Bounded, Total, StoreOpen
<1>5. InOrder'
  BY <1>1, <1>2 DEF IInv, TypeOK, InOrder, Settled, Servers
<1>6. Idle'
  BY <1>2 DEF Idle
<1>. QED  BY <1>3, <1>4, <1>5, <1>6 DEF IInv

\* main goes on in its order, and a process that had exited starts again.
LEMMA MainKeeps ==
    ASSUME IInv, Signal \/ CloseStore \/ Start
    PROVE  IInv'
<1>1. /\ main' \in {"waiting", "closed", "serving"}
      /\ StoreOpen \/ \A c \in Conns : conns[c].phase = "none"
      /\ main' = "closed" => servers["socks5"] = "returned"
      /\ UNCHANGED <<servers, conns, charged, failed>>
  BY DEF Signal, CloseStore, Start, MainStep, StoreOpen, Servers, IInv, Idle
<1>2. TypeOK'
  BY <1>1 DEF IInv, TypeOK, MainPhases
<1>3. Booked' /\ Bounded'
  BY <1>1 DEF IInv, Booked, BookedAt, Bounded, Total, StoreOpen
<1>4. InOrder'
  BY <1>1 DEF IInv, InOrder, Settled
<1>5. Idle'
  BY <1>1 DEF Idle
<1>. QED  BY <1>2, <1>3, <1>4, <1>5 DEF IInv

-----------------------------------------------------------------------------

\* So does a process that becomes one.
LEMMA FreshLater == Fresh' => IInv'
BY FreshIInv, PTL

\* Every step keeps the invariant.
LEMMA StepKeeps ==
    ASSUME IInv, [Next]_vars
    PROVE  IInv'
<1>1. CASE UNCHANGED vars
  BY <1>1 DEF vars, IInv, TypeOK, Booked, BookedAt, InOrder, Bounded, Idle,
         Total, StoreOpen, Settled
<1>2. CASE Exit \/ Kill
  <2>1. Gone
    BY <1>2 DEF Exit, Kill
  <2>2. Fresh'
    BY <2>1 DEF Gone, Fresh
  <2>. QED  BY <2>2, FreshLater
<1>3. ASSUME NEW c \in Conns, Accept(c) \/ PeerStep(c) \/ ConnStep(c) PROVE IInv'
  BY <1>3, OpeningKeeps, TunnelKeeps, ChargeKeeps DEF ConnStep
<1>4. CASE ServerStep
  BY <1>2, <1>4, ServerKeeps, MainKeeps DEF ServerStep
<1>5. CASE Signal \/ Start
  BY <1>5, MainKeeps
<1>. QED  BY <1>1, <1>2, <1>3, <1>4, <1>5 DEF Next

\* The invariant of every run.
LEMMA Invariance == Spec => []IInv
<1>1. Init => IInv
  BY FreshIInv DEF Init, Fresh
<1>2. IInv /\ [Next]_vars => IInv'
  BY StepKeeps
<1>. QED  BY <1>1, <1>2, PTL DEF Spec

(* The state stays within its type: no charge is negative, and what the    *)
(* copiers of a tunnel count stays within what its peers may send.         *)
THEOREM TypeCorrect == Spec => []TypeOK
<1>1. IInv => TypeOK
  BY DEF IInv
<1>. QED  BY <1>1, Invariance, PTL

(* The bytes of a tunnel or a response that is over are on its user,       *)
(* unless the store refused them or was closed; and all those of the SOCKS5 server are by   *)
(* the time main closes the store (http.go:154-187, socks5.go:65-72,       *)
(* main.go:83).                                                            *)
THEOREM UsageIsCharged == Spec => []ChargedInFull
<1>1. IInv => ChargedInFull
  <2>. SUFFICES ASSUME IInv, NEW c \in Conns \ failed,
                      \/ conns[c].phase = "over" /\ StoreOpen
                      \/ c \in SocksConns /\ main = "closed"
               PROVE  charged[c] = Total(c)
    BY DEF ChargedInFull
  <2>1. BookedAt(c)
    BY DEF IInv, Booked
  <2>2. conns[c].phase \in {"none", "over"}
    BY DEF IInv, InOrder, Settled
  <2>. QED  BY <2>1, <2>2 DEF BookedAt
<1>. QED  BY <1>1, Invariance, PTL

=============================================================================
