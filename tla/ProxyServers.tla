---------------------------- MODULE ProxyServers ----------------------------
(***************************************************************************)
(* The servers of the process and the tunnels they carry (cmd/server/      *)
(* main.go, internal/proxy/http.go, socks5.go): start, the life of a       *)
(* tunnel or forwarded request from its set-up to its charge, and shutdown *)
(* by a signal or a kill.                                                  *)
(*                                                                         *)
(* A tunnel has two copiers, each reading one side and writing the other,  *)
(* and ends when both have; nothing passes the end of one side on to the   *)
(* other, and there are no deadlines.  A request the HTTP proxy forwards   *)
(* has one, for the response: net/http bounds its writes (WriteTimeout)    *)
(* and cancels it when the client's side ends.  Only the response counts.  *)
(* The SOCKS5 server waits for its tunnels before it returns.  The HTTP servers return as soon as their    *)
(* listeners are closed: hijacked connections and running handlers go on   *)
(* until the process exits, the store being closed just before.            *)
(***************************************************************************)
EXTENDS Integers

CONSTANTS
    SocksConns, HTTPConns,  \* connections to the SOCKS5 server, requests to the HTTP proxy
    MaxBytes                \* bound: bytes the peers of one connection send

VARIABLES
    main,
    servers,
    conns,
    charged,    \* bytes AddUsage has put on the connection's user
    failed      \* history: connections whose charge the open store refused

vars == <<main, servers, conns, charged, failed>>

Conns == SocksConns \cup HTTPConns
Servers == {"http", "socks5"}      \* the admin server starts and stops like "http"
Sides == {"client", "target"}
Other(s) == IF s = "client" THEN "target" ELSE "client"

\* main waits for the signal, then for its servers, then closes the store and exits.
MainPhases == {"serving", "waiting", "closed", "exited"}
ServerPhases == {"starting", "listening", "closing", "returned"}
Conn == [phase : {"none", "setup", "tunnel", "forward", "over"},
         peer : [Sides -> {"open", "ended", "gone"}],   \* ended: a half-close
         pending : [Sides -> 0 .. MaxBytes],    \* sent by this side, not read yet
         copied : [Sides -> 0 .. MaxBytes],     \* read from this side and written
         copiers : SUBSET Sides]                \* the copiers still running
NewConn == [phase |-> "none", peer |-> [s \in Sides |-> "open"],
            pending |-> [s \in Sides |-> 0], copied |-> [s \in Sides |-> 0],
            copiers |-> {}]

ASSUME ServersAssumption ==
    SocksConns \cap HTTPConns = {} /\ MaxBytes \in Nat

TypeOK ==
    /\ main \in MainPhases
    /\ servers \in [Servers -> ServerPhases]
    /\ conns \in [Conns -> Conn]
    /\ charged \in [Conns -> Nat]
    /\ failed \subseteq Conns

Init ==
    /\ main = "serving"
    /\ servers = [s \in Servers |-> "starting"]
    /\ conns = [c \in Conns |-> NewConn]
    /\ charged = [c \in Conns |-> 0]
    /\ failed = {}

Running == main # "exited"
Signalled == main # "serving"
StoreOpen == main \in {"serving", "waiting"}
Carrying(c) == conns[c].phase \in {"tunnel", "forward"}
Total(c) == conns[c].copied["client"] + conns[c].copied["target"]

-----------------------------------------------------------------------------
(* One connection.                                                         *)

ServerOf(c) == IF c \in SocksConns THEN "socks5" ELSE "http"

Update(c, conn) ==
    /\ Running
    /\ conns' = [conns EXCEPT ![c] = conn]
    /\ UNCHANGED <<main, servers, failed>>

\* Both sides are closed; what they had sent is dropped.
Over(c) == [NewConn EXCEPT !.phase = "over", !.copied = conns[c].copied]

Accept(c) ==
    /\ conns[c].phase = "none" /\ servers[ServerOf(c)] = "listening"
    /\ Update(c, [conns[c] EXCEPT !.phase = "setup"])
    /\ UNCHANGED charged

\* Handshake, authorization and dial, all of them with a deadline.
SetUp(c, phase, copiers) ==
    /\ conns[c].phase = "setup"
    /\ Update(c, [conns[c] EXCEPT !.phase = phase, !.copiers = copiers])
    /\ UNCHANGED charged

Connected(c) == SetUp(c, "tunnel", Sides)

\* Any other method than CONNECT: from here on, RoundTrip and the copy of the response.
Forwarding(c) == c \in HTTPConns /\ SetUp(c, "forward", {"target"})

SetUpFails(c) ==
    /\ conns[c].phase = "setup"
    /\ Update(c, Over(c))
    /\ UNCHANGED charged

Send(c, s) ==
    /\ Carrying(c) /\ conns[c].peer[s] = "open"
    /\ conns[c].phase = "forward" => s = "target"
    /\ Total(c) + conns[c].pending["client"] + conns[c].pending["target"] < MaxBytes
    /\ Update(c, [conns[c] EXCEPT !.pending[s] = @ + 1])
    /\ UNCHANGED charged

\* A peer ends its sending, or closes the connection.
Leave(c, s, how) ==
    /\ Carrying(c)
    /\ \/ how = "ended" /\ conns[c].peer[s] = "open"
       \/ how = "gone" /\ conns[c].peer[s] # "gone"
    /\ Update(c, [conns[c] EXCEPT !.peer[s] = how])
    /\ UNCHANGED charged

\* The copier that reads s.
Copying(c, s) == Carrying(c) /\ s \in conns[c].copiers

\* A byte written may be lost on the way to a peer that has just gone.
Copy(c, s) ==
    /\ Copying(c, s) /\ conns[c].pending[s] > 0
    /\ Update(c, [conns[c] EXCEPT !.pending[s] = @ - 1, !.copied[s] = @ + 1])
    /\ UNCHANGED charged

\* A forwarded request is cancelled, or its deadline for writes has passed.
CutShort(c) ==
    /\ conns[c].phase = "forward"
    /\ conns[c].peer["client"] # "open" \/ conns[c].pending["target"] > 0

\* The copier returns: end of its input, a reset by its peer, a failing write.
\* (Slip: a reset is taken for a passing error and the read repeated.)
CopierEnds_Slip(c, s) ==
    /\ Copying(c, s)
    /\ \/ conns[c].peer[s] = "ended" /\ conns[c].pending[s] = 0
       \/ CutShort(c)
       \/ conns[c].pending[s] > 0 /\ conns[c].peer[Other(s)] = "gone"
    /\ Update(c, [conns[c] EXCEPT !.copiers = @ \ {s}])
    /\ UNCHANGED charged
CopierEnds(c, s) ==
    /\ Copying(c, s)
    /\ \/ conns[c].peer[s] = "ended" /\ conns[c].pending[s] = 0
       \/ conns[c].peer[s] = "gone"
       \/ CutShort(c)
       \/ conns[c].pending[s] > 0 /\ conns[c].peer[Other(s)] = "gone"
    /\ Update(c, [conns[c] EXCEPT !.copiers = @ \ {s}])
    /\ UNCHANGED charged

\* tunnelWithUsage has received the totals of both copiers, handleForward its one.
\* (Slips: it charges and returns with the first of them; a wrong sign.)
RecordUsage_FirstSlip(c) ==
    /\ Carrying(c) /\ conns[c].copiers # Sides
    /\ StoreOpen
    /\ Update(c, Over(c))
    /\ \E s \in Sides \ conns[c].copiers :
          charged' = [charged EXCEPT ![c] = @ + conns[c].copied[s]]
RecordUsage_SignSlip(c) ==
    /\ Carrying(c) /\ conns[c].copiers = {}
    /\ StoreOpen
    /\ Update(c, Over(c))
    /\ charged' = [charged EXCEPT ![c] = @ - Total(c)]
RecordUsage(c) ==
    /\ Carrying(c) /\ conns[c].copiers = {}
    /\ StoreOpen
    /\ Update(c, Over(c))
    /\ charged' = [charged EXCEPT ![c] = @ + Total(c)]

\* The store reports an error, or is closed: logged and forgotten.
RecordFails(c) ==
    /\ Running
    /\ Carrying(c) /\ conns[c].copiers = {}
    /\ conns' = [conns EXCEPT ![c] = Over(c)]
    /\ failed' = IF StoreOpen THEN failed \cup {c} ELSE failed
    /\ UNCHANGED <<main, servers, charged>>

-----------------------------------------------------------------------------
(* The servers and main.                                                   *)

Become(s, phase) ==
    /\ Running
    /\ servers' = [servers EXCEPT ![s] = phase]
    /\ UNCHANGED <<main, conns, charged, failed>>

\* Where listening fails, Start returns at once and the others go on.
Listen(s, ok) ==
    /\ servers[s] = "starting"
    /\ Become(s, IF ok THEN "listening" ELSE "returned")

\* Shutdown closes the listener, ListenAndServe returns, and so does Start.
HTTPReturns(s) ==
    /\ s # "socks5" /\ Signalled
    /\ servers[s] \in {"starting", "listening"}
    /\ Become(s, "returned")

CloseListener ==
    /\ Signalled /\ servers["socks5"] = "listening"
    /\ Become("socks5", "closing")

\* wg.Wait: every connection that was accepted has been dealt with.
\* (Slip: the tunnels of the HTTP proxy are waited for too.)
Settled_AllSlip(cs) == \A c \in Conns : conns[c].phase \in {"none", "over"}
Settled(cs) == \A c \in cs : conns[c].phase \in {"none", "over"}

SocksReturns ==
    /\ servers["socks5"] = "closing" /\ Settled(SocksConns)
    /\ Become("socks5", "returned")

MainStep(from, to) ==
    /\ main = from /\ main' = to
    /\ UNCHANGED <<servers, conns, charged, failed>>

Signal == MainStep("serving", "waiting")

\* main waits for the servers, then its deferred calls close the store.
CloseStore ==
    /\ \A s \in Servers : servers[s] = "returned"
    /\ MainStep("waiting", "closed")

\* The process is gone, with all it had in memory.  The history starts again.
Gone ==
    /\ main' = "exited"
    /\ servers' = [s \in Servers |-> "starting"]
    /\ conns' = [c \in Conns |-> NewConn]
    /\ charged' = [c \in Conns |-> 0]
    /\ failed' = {}

Exit == main = "closed" /\ Gone

Kill == Running /\ Gone

Start == MainStep("exited", "serving")

\* What peers do, and a write, which waits for its peer to read.
PeerStep(c) ==
    \E s \in Sides :
        \/ Send(c, s) \/ Copy(c, s)
        \/ \E how \in {"ended", "gone"} : Leave(c, s, how)

\* What the goroutines of a connection do by themselves.
ConnStep(c) ==
    \/ Connected(c) \/ Forwarding(c) \/ SetUpFails(c)
    \/ \E s \in Sides : CopierEnds(c, s)
    \/ RecordUsage(c) \/ RecordFails(c)

\* What main and the goroutines of the servers do by themselves.
ServerStep ==
    \/ \E s \in Servers, ok \in BOOLEAN : Listen(s, ok)
    \/ \E s \in Servers : HTTPReturns(s)
    \/ CloseListener \/ SocksReturns \/ CloseStore \/ Exit

Next ==
    \/ \E c \in Conns : Accept(c) \/ PeerStep(c) \/ ConnStep(c)
    \/ ServerStep
    \/ Signal \/ Kill \/ Start

\* The scheduler runs every goroutine that can go on.  Each connection and the
\* servers take finitely many steps in the life of a process, so that fairness to
\* all the steps of one is fairness to each.  Nothing is assumed of the peers.
Fairness ==
    /\ \A c \in Conns : WF_vars(ConnStep(c))
    /\ WF_vars(ServerStep)

Spec == Init /\ [][Next]_vars /\ Fairness

-----------------------------------------------------------------------------

(* The bytes of a tunnel that is over, in both directions, and those of a  *)
(* response that was forwarded, however it was cut short, are on their     *)
(* user, unless the store refused them or was closed; and by the time the  *)
(* store is closed, those of every SOCKS5 tunnel there ever was            *)
(* (http.go:154-187, socks5.go:65-72, main.go:83).                         *)
ChargedInFull ==
    \A c \in Conns \ failed :
        \/ conns[c].phase = "over" /\ StoreOpen
        \/ c \in SocksConns /\ main = "closed"
        => charged[c] = Total(c)

PeersGone(c) == \A s \in Sides : conns[c].peer[s] = "gone"

\* Nobody is there to carry anything for.
Abandoned(c) ==
    \/ conns[c].phase = "tunnel" /\ PeersGone(c)
    \/ conns[c].phase = "forward" /\ conns[c].peer["client"] # "open"

(* A tunnel both of whose peers have closed their connections, and a       *)
(* forwarded request whose client has, is over soon, or the process has    *)
(* exited: no copier waits for ever (http.go:154-159, 175-184).            *)
TunnelsEnd ==
    \A c \in Conns : Abandoned(c) ~> conns[c].phase = "over" \/ ~Running

(* A shutdown that does not come to its end waits for a SOCKS5 tunnel with *)
(* a peer that stays, and for nothing else: no HTTP tunnel, no server that *)
(* failed to listen, no connection accepted at the last moment             *)
(* (socks5.go:50-72, http.go:38-57, main.go:53-83).                        *)
ShutdownCompletes ==
    []<>(main # "waiting" \/ \E c \in SocksConns :
            conns[c].phase = "tunnel" /\ ~PeersGone(c))

=============================================================================
