--------------------------- MODULE ConnectionDuel ---------------------------
(***************************************************************************)
(* Two peers that are each other's contact dial each other at the same     *)
(* time: the connection duel of spec.md section 4.2.3.  Each peer runs      *)
(* setConnection (src/unnamed/part_001) with shouldReplaceConnection on    *)
(* every session that reaches its contactConnection loop; a session closed  *)
(* by one end is closed at the other end some time later, whose            *)
(* OnDisconnect then makes its loop run clearConnection.                   *)
(*                                                                         *)
(* A peer is named by its hostname: Peers is a set of positive numbers     *)
(* ordered as the hostnames are, and 0 stands for the empty string, which  *)
(* sorts before every hostname.  A session is named by the peer that        *)
(* dialed it; a peer left without a connection dials again, as its loop   *)
(* spawns connectOutbound.  Both sessions authenticate within 30           *)
(* seconds of each other, so the age rule of shouldReplaceConnection never *)
(* applies, and the peers know each other, so no outbound session is       *)
(* refused as unknown.                                                     *)
(***************************************************************************)
EXTENDS Naturals

CONSTANTS
    Peers,      \* the two hostnames, as positive numbers in their order
    None        \* no connection

ASSUME /\ Peers \subseteq Nat \ {0}
       /\ None \notin Peers

EmptyHostname == 0
Sessions == Peers

VARIABLES
    opened,     \* sessions whose dial succeeded and both ends authenticated
    conn,       \* conn[p]: c.connection of p's contact for the other peer
    closed,     \* closed[p]: sessions whose end at p is Closed
    seen        \* seen[p]: sessions p's loop has run setConnection on

vars == <<opened, conn, closed, seen>>

Other(p) == CHOOSE q \in Peers : q # p

\* conn.Client: p dialed s.
Client(p, s) == s = p

\* OnReady copies the handler's MyHostname into the connection only for an
\* outbound connection; on an inbound one conn.MyHostname stays "".
MyHostname(p, s) == IF Client(p, s) THEN p ELSE EmptyHostname

Init == /\ opened = {}
        /\ conn = [p \in Peers |-> None]
        /\ closed = [p \in Peers |-> {}]
        /\ seen = [p \in Peers |-> {}]

\* Peer s, without a connection, has its contactConnection loop spawn
\* connectOutbound, which succeeds: a new session authenticates at both ends.
\* It reuses the name of s's previous session once that one is closed at
\* both ends and no peer holds it any more.
Dial(s) ==
    /\ conn[s] = None
    /\ s \notin opened \/ \A p \in Peers : s \in closed[p] /\ conn[p] # s
    /\ opened' = opened \cup {s}
    /\ closed' = [p \in Peers |-> closed[p] \ {s}]
    /\ seen' = [p \in Peers |-> seen[p] \ {s}]
    /\ UNCHANGED conn

\* shouldReplaceConnection at p for the new session s, with conn[p] set:
\* a dead connection, the same direction, or the hostname fallback order.
ShouldReplaceConnection(p, s) ==
    LET cur == conn[p]
        preferOutbound == MyHostname(p, s) < Other(p)
    IN \/ cur \in closed[p]
       \/ Client(p, cur) = Client(p, s)
       \/ preferOutbound = Client(p, s)

\* setConnection(s) at p: a closed session is refused, an existing one that
\* should not be replaced wins; a refused session is closed, a replaced
\* one too.
SetConnection(p, s) ==
    /\ s \in opened /\ s \notin seen[p]
    /\ seen' = [seen EXCEPT ![p] = @ \cup {s}]
    /\ IF s \in closed[p] \/ (conn[p] # None /\ ~ShouldReplaceConnection(p, s))
         THEN /\ closed' = [closed EXCEPT ![p] = @ \cup {s}]
              /\ UNCHANGED conn
         ELSE /\ closed' = [closed EXCEPT ![p] = @ \cup ({conn[p]} \ {None})]
              /\ conn' = [conn EXCEPT ![p] = s]
    /\ UNCHANGED opened

\* The other end closed s: p's end of it becomes Closed.
PeerClosed(p, s) ==
    /\ s \in closed[Other(p)] \ closed[p]
    /\ closed' = [closed EXCEPT ![p] = @ \cup {s}]
    /\ UNCHANGED <<opened, conn, seen>>

\* OnDisconnect -> OnConnectionClosed -> clearConnection of p's connection.
ClearConnection(p) ==
    /\ conn[p] # None /\ conn[p] \in closed[p]
    /\ conn' = [conn EXCEPT ![p] = None]
    /\ UNCHANGED <<opened, closed, seen>>

Next == \/ \E s \in Sessions : Dial(s)
        \/ \E p \in Peers, s \in Sessions : SetConnection(p, s) \/ PeerClosed(p, s)
        \/ \E p \in Peers : ClearConnection(p)

Spec == Init /\ [][Next]_vars

\* The duel of spec.md section 8 assumes a network that has become stable:
\* dials succeed, sessions are delivered and closes are noticed.  Every
\* step is then weakly fair; which step comes first is still free.
FairSpec == /\ Spec
            /\ \A s \in Sessions : WF_vars(Dial(s))
            /\ \A p \in Peers, s \in Sessions :
                  WF_vars(SetConnection(p, s)) /\ WF_vars(PeerClosed(p, s))
            /\ \A p \in Peers : WF_vars(ClearConnection(p))

TypeOK == /\ opened \subseteq Sessions
          /\ conn \in [Peers -> Sessions \cup {None}]
          /\ closed \in [Peers -> SUBSET Sessions]
          /\ seen \in [Peers -> SUBSET opened]

\* Spec.md sections 4.2.3 and 8: the tie-break is symmetric, so two peers
\* dialing each other eventually agree on one session and keep it: from
\* some point on both hold the same session, open at both ends.
DuelConverges ==
    <>[](\E s \in Sessions : \A p \in Peers : conn[p] = s /\ s \notin closed[p])

=============================================================================
