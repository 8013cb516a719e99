------------------------------ MODULE Registry ------------------------------
(***************************************************************************)
(* The peer registry of one jiji node: P2PServer.peers, filled by the      *)
(* connect_to_peer tasks (bootstrap dials and peer_exchange_loop) and by   *)
(* _handle_inbound, and emptied by the finally of _peer_loop               *)
(* (src/jiji/net/server.py).                                               *)
(*                                                                         *)
(* A connection is an id with the key it is registered under, (host, port) *)
(* of the dialed address or of the inbound remote end.  Each handler runs  *)
(* to its first await in one step; the await on open_connection and the   *)
(* handshake, or on the inbound handshake, is where other tasks run.       *)
(*                                                                         *)
(* Timing.  Every await of a dial or an inbound handshake is bounded by    *)
(* HANDSHAKE_TIMEOUT (10 s), so a dial ends within 20 s, while the peer    *)
(* exchange loop sleeps PEER_EXCHANGE_INTERVAL (60 s) between rounds: a    *)
(* round starts only when no dial task is pending or running.              *)
(***************************************************************************)
EXTENDS Integers, Sequences, FiniteSets, Bags, SequencesExt

CONSTANTS
    Addrs,       \* listening addresses this node may dial
    Remotes,     \* (host, ephemeral port) of peers that dial this node
    Bootstrap,   \* Node._bootstrap_peers: a sequence over Addrs
    MAX_PEERS,
    MaxConns,    \* connections opened in one behaviour
    NONE

ASSUME Bootstrap \in Seq(Addrs) /\ Addrs \cap Remotes = {}

Keys == Addrs \cup Remotes

VARIABLES
    peers,   \* peers[k]: the connection registered under key k, or NONE
    conn,    \* conn[i]: [key, phase] of the i-th connection opened
    tasks,   \* bag of addresses whose connect_to_peer task has not run yet
    known    \* known_addresses

vars == <<peers, conn, tasks, known>>

\* Phases: "dialing": awaiting open_connection or the handshake;
\* "inbound": _handle_inbound awaiting the handshake; "open": registered
\* and in _peer_loop; "closed": PeerConnection closed.

Registered == {k \in Keys : peers[k] # NONE}

\* len(self.peers)
PeerCount == Cardinality(Registered)

\* A new connection for key k in phase ph.
Open(k, ph) == Append(conn, [key |-> k, phase |-> ph])

SetPhase(i, ph) == [conn EXCEPT ![i].phase = ph]

-----------------------------------------------------------------------------
(* connect_to_peer                                                         *)

\* A connect_to_peer task runs to its first await: it returns at once if
\* the address is registered or the registry is full, else it opens a
\* connection and starts the handshake.
ConnectToPeer(a) ==
    /\ CopiesIn(a, tasks) > 0
    /\ tasks' = tasks (-) SetToBag({a})
    /\ IF peers[a] = NONE /\ PeerCount < MAX_PEERS /\ Len(conn) < MaxConns
       THEN conn' = Open(a, "dialing")
       ELSE conn' = conn
    /\ UNCHANGED <<peers, known>>

\* Fault variant of HandshakeDone: the peer is not stored in self.peers.
HandshakeDoneUnregistered(i) ==
    /\ conn[i].phase = "dialing"
    /\ conn' = SetPhase(i, "open")
    /\ UNCHANGED <<peers, tasks, known>>

\* The handshake completes (handshake_done): the peer is stored under its
\* address, replacing any connection registered there, and its _peer_loop
\* is created.
HandshakeDone(i) ==
    /\ conn[i].phase = "dialing"
    /\ peers' = [peers EXCEPT ![conn[i].key] = i]
    /\ conn' = SetPhase(i, "open")
    /\ UNCHANGED <<tasks, known>>

\* open_connection or the handshake fails (OSError, timeout, no handshake
\* or a genesis mismatch): the peer is closed and never registered.
DialFailed(i) ==
    /\ conn[i].phase = "dialing"
    /\ conn' = SetPhase(i, "closed")
    /\ UNCHANGED <<peers, tasks, known>>

-----------------------------------------------------------------------------
(* _handle_inbound                                                         *)

\* A remote end connects: when the registry is full the writer is closed at
\* once, else the handler awaits the handshake.  A remote (host, port) has
\* one live TCP connection at a time.
Accept(r) ==
    /\ \A i \in DOMAIN conn : conn[i].key = r => conn[i].phase = "closed"
    /\ PeerCount < MAX_PEERS
    /\ Len(conn) < MaxConns
    /\ conn' = Open(r, "inbound")
    /\ UNCHANGED <<peers, tasks, known>>

\* The handshake arrives: reply, register under the remote end, create the
\* _peer_loop.
InboundDone(i) ==
    /\ conn[i].phase = "inbound"
    /\ peers' = [peers EXCEPT ![conn[i].key] = i]
    /\ conn' = SetPhase(i, "open")
    /\ UNCHANGED <<tasks, known>>

\* No handshake within HANDSHAKE_TIMEOUT, or another first message.
InboundFailed(i) ==
    /\ conn[i].phase = "inbound"
    /\ conn' = SetPhase(i, "closed")
    /\ UNCHANGED <<peers, tasks, known>>

-----------------------------------------------------------------------------
(* _peer_loop, peer exchange                                               *)

\* Fault variant of PeerLoopEnd: the finally closes the peer but does not
\* pop it from the registry.
PeerLoopEndNoPop(i) ==
    /\ conn[i].phase = "open"
    /\ conn' = SetPhase(i, "closed")
    /\ UNCHANGED <<peers, tasks, known>>

\* The connection ends (EOF, error, oversized frame): the finally of
\* _peer_loop pops the key, whichever connection is registered under it,
\* and closes the peer.
PeerLoopEnd(i) ==
    /\ conn[i].phase = "open"
    /\ conn' = SetPhase(i, "closed")
    /\ peers' = [peers EXCEPT ![conn[i].key] = NONE]
    /\ UNCHANGED <<tasks, known>>

\* _on_peers_response: an address is added to known_addresses.
OnPeersResponse(a) ==
    /\ a \notin known
    /\ known' = known \cup {a}
    /\ UNCHANGED <<peers, conn, tasks>>

\* One round of peer_exchange_loop, after its sleep: a task for every
\* known address not registered, all created before any of them runs,
\* while the registry is below MAX_PEERS (its size does not change within
\* the loop).
ExchangeRound ==
    /\ tasks = EmptyBag
    /\ \A i \in DOMAIN conn : conn[i].phase # "dialing"
    /\ PeerCount < MAX_PEERS
    /\ \E a \in known : peers[a] = NONE
    /\ tasks' = SetToBag({a \in known : peers[a] = NONE})
    /\ UNCHANGED <<peers, conn, known>>

Init ==
    /\ peers = [k \in Keys |-> NONE]
    /\ conn = <<>>
    /\ tasks = FoldLeft(LAMBDA b, a : b (+) SetToBag({a}), EmptyBag, Bootstrap)
    /\ known = {}

Next ==
    \/ \E a \in Addrs : ConnectToPeer(a) \/ OnPeersResponse(a)
    \/ \E r \in Remotes : Accept(r)
    \/ \E i \in DOMAIN conn :
          \/ HandshakeDone(i) \/ DialFailed(i)
          \/ InboundDone(i) \/ InboundFailed(i)
          \/ PeerLoopEnd(i)
    \/ ExchangeRound

Spec == Init /\ [][Next]_vars

-----------------------------------------------------------------------------
(* Properties.                                                             *)

\* Every registry entry is a live connection: the finally of _peer_loop
\* removes the key of a connection that ends, so broadcast_block and
\* broadcast_tx never address a closed peer through a stale entry.
RegisteredAreOpen ==
    \A k \in Registered : conn[peers[k]].phase = "open"

\* Every connection in _peer_loop is the one registered under its key, so
\* it receives every broadcast_block and broadcast_tx (spec: a peer is
\* removed from the registry when it is closed, and only then).
OpenAreRegistered ==
    \A i \in DOMAIN conn : conn[i].phase = "open" => peers[conn[i].key] = i

\* The registry never holds more than MAX_PEERS peers (spec: the exchange
\* loop dials only while below MAX_PEERS; connect_to_peer and
\* _handle_inbound refuse when it is full).
PeersBounded == PeerCount <= MAX_PEERS

====
