------------------------- MODULE ContactConnection -------------------------
(***************************************************************************)
(* The connection management of ONE contact (src/unnamed/part_001, the     *)
(* Contact type of package core) together with the protocol callbacks of   *)
(* src/core/protocol.go that call into it.                                 *)
(*                                                                         *)
(* Goroutines, each a program counter:                                     *)
(*   lpc        the contactConnection goroutine ("the loop");              *)
(*   upc        the caller of StartConnection / StopConnection;            *)
(*   dialer[d]  the connectOutbound goroutines the loop spawns;            *)
(*   cs[c].pc   the protocol goroutine oc.Process(handler) of connection c.*)
(* c.mutex is `mutex`.  A goroutine that locks and unlocks within one step *)
(* is atomic; only the protocol goroutines keep the mutex across steps     *)
(* (they send on an unbuffered channel while holding it), so the holder is *)
(* a connection or NoHolder.  connChannel and connClosedChannel are made   *)
(* and cleared together: chanField says the Contact fields are non-nil,    *)
(* chanClosed that the channel made by StartConnection has been closed,    *)
(* loopChan what the loop copied from the fields when it started.          *)
(***************************************************************************)
EXTENDS Naturals, FiniteSets, FiniteSetsExt

CONSTANTS
    Conns,          \* identities of protocol connections (model values)
    NoConn,         \* nil *protocol.OpenConnection / unlocked mutex
    MaxDialers,     \* bound on connectOutbound goroutines spawned
    MaxUserOps,     \* bound on StartConnection / StopConnection calls
    InitialRequest, \* request states a contact can be loaded from config in
    AckStatuses,    \* answers a peer can give to our contact request
    UnlistedPeers   \* an inbound peer may authenticate while not in the
                    \* contact list: a stranger, or this contact before the
                    \* user adds it

ASSUME /\ NoConn \notin Conns
       /\ MaxDialers \in Nat /\ MaxUserOps \in Nat
       /\ InitialRequest \subseteq {"none", "pending", "rejected"}
       /\ AckStatuses \subseteq {"Pending", "Accepted", "Rejected", "Error"}
       /\ UnlistedPeers \in BOOLEAN

Dialers == 1..MaxDialers
NoHolder == NoConn
Statuses == {"UNKNOWN", "OFFLINE", "ONLINE", "REQUEST", "REJECTED"}

\* Program counters.  A handler is "unused" until its connection exists.
LoopPcs == {"idle", "spawned", "top", "select", "setAddr", "setLock",
            "setData", "setConv", "discardAddr", "clearLock", "clearData",
            "exitAddr", "exitClear", "exitData"}
HandlerPcs == {"unused", "handshake", "authLock", "authSend", "authUnlock",
               "authLate", "authSendUnlocked", "unlockUnlocked", "nilSend",
               "requestWait",
               "running", "ackLock", "ackStuck", "closeLock", "closeSend",
               "closeUnlock", "done", "crashed", "nilContact"}

VARIABLES
    mutex,                 \* holder of c.mutex
    connEnabled,           \* c.connEnabled
    chanField,             \* c.connChannel # nil (and c.connClosedChannel)
    chanClosed,            \* close(c.connChannel) has happened
    loopChan,              \* "copied" / "nil": what the loop read at start
    lpc, loopConn,         \* loop pc; conn received from connChannel
    outbound,              \* dialer the current outboundCancel cancels (0: none)
    upc, userOps,          \* user goroutine pc; calls made
    lastCall,              \* history: the user's last call, "Start" or "Stop"
    dialer, cancelled,     \* connectOutbound goroutines; cancelled contexts
    connection,            \* c.connection
    status,                \* c.status
    pending,               \* c.data.Request.Pending
    outboundConnAuthKnown, \* c.outboundConnAuthKnown
    connOld,               \* time.Since(c.timeConnected) > 30s
    preferOutbound,        \* conn.MyHostname < conn.OtherHostname
    cs,                    \* per connection: handler pc and OpenConnection fields
    adopted                \* history: connections setConnection assigned

chanVars    == <<connEnabled, chanField, chanClosed>>
loopVars    == <<lpc, loopChan, loopConn, outbound>>
userVars    == <<upc, userOps, lastCall>>
dialVars    == <<dialer, cancelled>>
contactVars == <<connection, status, pending, outboundConnAuthKnown, connOld,
                 preferOutbound, adopted>>
vars == <<mutex, chanVars, loopVars, userVars, dialVars, contactVars, cs>>

\* OpenConnection fields (Client, IsAuthed, Closed), the isKnownContact the
\* handler reports, whether the handler's pc.Contact is set, and the state
\* of the contact request channel it opened.
ConnRec == [pc: HandlerPcs, client: BOOLEAN, authed: BOOLEAN,
            closed: BOOLEAN, known: BOOLEAN, contact: BOOLEAN,
            requestOpen: BOOLEAN, ack: AckStatuses \cup {"none"}]

Unused == [pc |-> "unused", client |-> FALSE, authed |-> FALSE,
           closed |-> FALSE, known |-> FALSE, contact |-> FALSE,
           requestOpen |-> FALSE, ack |-> "none"]

\* ContactFromConfig: status from the persisted request state.
InitStatus(r) == CASE r = "none" -> "UNKNOWN"
                   [] r = "pending" -> "REQUEST"
                   [] r = "rejected" -> "REJECTED"

Init == /\ mutex = NoHolder
        /\ connEnabled = FALSE
        /\ chanField = FALSE
        /\ chanClosed = FALSE
        /\ loopChan = "nil"
        /\ lpc = "idle" /\ loopConn = NoConn
        /\ outbound = 0
        /\ upc = "idle" /\ userOps = 0 /\ lastCall = "none"
        /\ dialer = [d \in Dialers |-> "unspawned"]
        /\ cancelled = {}
        /\ connection = NoConn
        /\ \E r \in InitialRequest : /\ status = InitStatus(r)
                                     /\ pending = (r # "none")
        /\ outboundConnAuthKnown = FALSE
        /\ connOld = FALSE
        /\ preferOutbound \in BOOLEAN
        /\ cs = [c \in Conns |-> Unused]
        /\ adopted = {}

Free == mutex = NoHolder

SetPc(c, p) == [cs EXCEPT ![c].pc = p]

\* An unrecovered panic or a fatal error ends the whole program:
\* no goroutine takes another step.
Crashed == \/ upc = "panicked"
           \/ \E c \in Conns : cs[c].pc \in {"crashed", "nilContact"}

----------------------------------------------------------------------------
(* StartConnection and StopConnection, called by the contact list.         *)

StartConnection ==
    /\ ~Crashed
    /\ upc = "idle" /\ userOps < MaxUserOps /\ Free
    /\ userOps' = userOps + 1 /\ lastCall' = "Start"
    /\ IF connEnabled
         THEN UNCHANGED <<connEnabled, chanField, chanClosed, lpc>>
         ELSE /\ connEnabled' = TRUE
              /\ chanField' = TRUE /\ chanClosed' = FALSE
              /\ lpc' = "spawned"
    /\ UNCHANGED <<mutex, loopChan, loopConn, outbound, upc, dialVars,
                   contactVars, cs>>

\* close(c.connChannel) on a nil field panics: upc becomes "panicked".
StopConnection ==
    /\ ~Crashed
    /\ upc = "idle" /\ userOps < MaxUserOps /\ Free
    /\ userOps' = userOps + 1 /\ lastCall' = "Stop"
    /\ \/ /\ ~connEnabled
          /\ UNCHANGED <<upc, chanField, chanClosed>>
       \/ /\ connEnabled /\ ~chanField
          /\ upc' = "panicked"
          /\ UNCHANGED <<chanField, chanClosed>>
       \/ /\ connEnabled /\ chanField
          /\ chanField' = FALSE /\ chanClosed' = TRUE
          /\ upc' = "stopWait"
    /\ UNCHANGED <<mutex, connEnabled, loopVars, dialVars, contactVars, cs>>

\* <-stopped returns once the loop has closed it.
StopReturns ==
    /\ ~Crashed
    /\ upc = "stopWait" /\ lpc = "idle"
    /\ upc' = "idle"
    /\ UNCHANGED <<mutex, chanVars, loopVars, userOps, lastCall, dialVars,
                   contactVars, cs>>

----------------------------------------------------------------------------
(* The contactConnection goroutine.                                        *)

\* It copies c.connChannel, c.connClosedChannel and c.connStopped without
\* the mutex; if StopConnection ran first they are nil.
LoopStart ==
    /\ ~Crashed
    /\ lpc = "spawned"
    /\ loopChan' = IF chanField THEN "copied" ELSE "nil"
    /\ lpc' = "top"
    /\ UNCHANGED <<mutex, chanVars, loopConn, outbound, userVars, dialVars,
                   contactVars, cs>>

\* shouldMakeOutboundConnections (it takes the mutex) is evaluated only when
\* c.connection is nil; when it holds a connectOutbound goroutine is spawned
\* and outboundCancel cancels it, otherwise outboundCancel does nothing.
\* Beyond MaxDialers a spawned connector is one that never connects (its
\* Connect retries until cancelled), which the model leaves out.
ShouldMakeOutboundConnections == status # "REJECTED" /\ connEnabled

Unspawned == {d \in Dialers : dialer[d] = "unspawned"}

LoopTop ==
    /\ ~Crashed
    /\ lpc = "top"
    /\ lpc' = "select"
    /\ connection = NoConn => Free
    /\ IF connection = NoConn /\ ShouldMakeOutboundConnections /\ Unspawned # {}
         THEN LET d == Min(Unspawned)
              IN /\ dialer' = [dialer EXCEPT ![d] = "locking"]
                 /\ outbound' = d
         ELSE /\ outbound' = 0
              /\ UNCHANGED dialer
    /\ UNCHANGED <<mutex, chanVars, loopChan, loopConn, userVars, cancelled,
                   contactVars, cs>>

OutboundCancel == cancelled' = IF outbound = 0 THEN cancelled
                                              ELSE cancelled \cup {outbound}

\* Fault: the loop exits without clearConnection(nil).
LoopRecvClosedChannelNoClear ==
    /\ ~Crashed
    /\ lpc = "select" /\ loopChan = "copied" /\ chanClosed
    /\ OutboundCancel
    /\ lpc' = "exitData"
    /\ UNCHANGED <<mutex, chanVars, loopChan, loopConn, outbound, userVars,
                   dialer, contactVars, cs>>

\* case conn, ok := <-connChannel with ok false: the channel was closed.
LoopRecvClosedChannel ==
    /\ ~Crashed
    /\ lpc = "select" /\ loopChan = "copied" /\ chanClosed
    /\ OutboundCancel
    /\ lpc' = "exitAddr"
    /\ UNCHANGED <<mutex, chanVars, loopChan, loopConn, outbound, userVars,
                   dialer, contactVars, cs>>

\* case conn, ok := <-connChannel: rendezvous with OnConnectionAuthenticated
\* of connection c, which holds the mutex while sending.
LoopRecvConn(c) ==
    /\ ~Crashed
    /\ lpc = "select" /\ loopChan = "copied" /\ ~chanClosed
    /\ \/ cs[c].pc = "authSend" /\ chanField
       \/ cs[c].pc = "authSendUnlocked"
    /\ OutboundCancel
    /\ cs' = SetPc(c, IF cs[c].pc = "authSend" THEN "authUnlock"
                                               ELSE "unlockUnlocked")
    /\ loopConn' = c
    /\ lpc' = "setAddr"
    /\ UNCHANGED <<mutex, chanVars, loopChan, outbound, userVars, dialer,
                   contactVars>>

\* Fault: the close signal is received but clearConnection is skipped.
LoopRecvConnClosedNoClear(c) ==
    /\ ~Crashed
    /\ lpc = "select" /\ loopChan = "copied"
    /\ cs[c].pc = "closeSend"
    /\ OutboundCancel
    /\ cs' = SetPc(c, "closeUnlock")
    /\ lpc' = "top"
    /\ UNCHANGED <<mutex, chanVars, loopChan, loopConn, outbound, userVars,
                   dialer, contactVars>>

\* case <-connClosedChannel: rendezvous with OnConnectionClosed of c.
LoopRecvConnClosed(c) ==
    /\ ~Crashed
    /\ lpc = "select" /\ loopChan = "copied"
    /\ cs[c].pc = "closeSend"
    /\ OutboundCancel
    /\ cs' = SetPc(c, "closeUnlock")
    /\ lpc' = "clearLock"
    /\ UNCHANGED <<mutex, chanVars, loopChan, loopConn, outbound, userVars,
                   dialer, contactVars>>

\* Steps of the loop that only take and release the mutex: c.Address() for
\* the log line of setConnection, c.Data() for the UPDATE event,
\* c.Conversation() before SendQueuedMessages, c.Address() when a
\* connection is discarded, c.Data() after clearConnection, c.Address() for
\* the log line before the loop exits, and c.Data() before close(stopped).
LoopLockStep(from, to) ==
    /\ ~Crashed
    /\ lpc = from /\ Free
    /\ lpc' = to
    /\ UNCHANGED <<mutex, chanVars, loopChan, loopConn, outbound, userVars,
                   dialVars, contactVars, cs>>

----------------------------------------------------------------------------
(* setConnection(conn), run by the loop on the connection it received.     *)

\* shouldReplaceConnection: the rules in order, first match wins.
ShouldReplaceConnection(n) ==
    \/ connection = NoConn
    \/ cs[connection].closed
    \/ cs[connection].client = cs[n].client
    \/ connOld
    \/ preferOutbound = cs[n].client

\* Fault: setConnection without the conn.Closed test.
SetConnectionRefusedIgnoringClosed(n) ==
    \/ n = connection
    \/ ~cs[n].authed
    \/ cs[n].client /\ ~outboundConnAuthKnown /\ ~pending
    \/ connection # NoConn /\ ~ShouldReplaceConnection(n)

\* The early returns of setConnection, in the order it tests them:
\* a duplicate assignment, a connection not authed or already closed, an
\* outbound connection that says we are not a known contact, and an
\* existing connection that wins.
SetConnectionRefused(n) ==
    \/ n = connection
    \/ ~cs[n].authed \/ cs[n].closed
    \/ cs[n].client /\ ~outboundConnAuthKnown /\ ~pending
    \/ connection # NoConn /\ ~ShouldReplaceConnection(n)

\* Every refusal but the duplicate closes conn; the loop's own
\* "!conn.Closed && conn != c.connection" close adds nothing after that.
SetConnectionDiscard ==
    /\ ~Crashed
    /\ lpc = "setLock" /\ Free /\ SetConnectionRefused(loopConn)
    /\ cs' = IF loopConn = connection THEN cs
              ELSE [cs EXCEPT ![loopConn].closed = TRUE]
    /\ lpc' = "discardAddr"
    /\ UNCHANGED <<mutex, chanVars, loopChan, loopConn, outbound, userVars,
                   dialVars, contactVars>>

\* Fault: the replaced connection is dropped without c.connection.Close().
CloseReplacedForgotten(old) == cs

\* c.connection.Close() of the connection being replaced.
CloseReplaced(old) == IF old = NoConn THEN cs
                      ELSE [cs EXCEPT ![old].closed = TRUE]

\* The connection is assigned.  A pending request sends the contact request
\* on an outbound connection whose peer did not know us, and is otherwise
\* implicitly accepted (updateContactRequest("Accepted") with a connection:
\* ONLINE).  timeConnected is reset; lastConnected is saved to the config.
SetConnectionAdopt ==
    /\ ~Crashed
    /\ lpc = "setLock" /\ Free /\ ~SetConnectionRefused(loopConn)
    /\ LET n == loopConn
            sendRequest == pending /\ cs[n].client /\ ~outboundConnAuthKnown
        IN /\ cs' = [CloseReplaced(connection) EXCEPT
                         ![n].requestOpen = @ \/ sendRequest]
           /\ connection' = n
           /\ pending' = sendRequest
           /\ status' = IF sendRequest THEN status ELSE "ONLINE"
           /\ adopted' = adopted \cup {n}
    /\ connOld' = FALSE
    /\ lpc' = "setData"
    /\ UNCHANGED <<mutex, chanVars, loopChan, loopConn, outbound, userVars,
                   dialVars, outboundConnAuthKnown, preferOutbound>>

----------------------------------------------------------------------------
(* clearConnection(nil): on a connClosedChannel signal, and on exit.       *)

ClearConnection ==
    /\ ~Crashed
    /\ lpc \in {"clearLock", "exitClear"} /\ Free
    /\ IF connection = NoConn
         THEN /\ lpc' = IF lpc = "clearLock" THEN "top" ELSE "idle"
              /\ UNCHANGED <<connection, status, cs>>
         ELSE /\ connection' = NoConn
              /\ status' = "OFFLINE"
              /\ cs' = [cs EXCEPT ![connection].closed = TRUE]
              /\ lpc' = IF lpc = "clearLock" THEN "clearData" ELSE "exitData"
    /\ UNCHANGED <<mutex, chanVars, loopChan, loopConn, outbound, userVars,
                   dialVars, pending, outboundConnAuthKnown, connOld,
                   preferOutbound, adopted>>

----------------------------------------------------------------------------
(* connectOutbound(ctx, connChannel).  OnionConnector retries until ctx is *)
(* cancelled; on success protocol.Open starts oc.Process(handler), whose   *)
(* OnReady marks the outbound connection IsAuthed before it authenticates. *)

DialerStart(d) ==
    /\ ~Crashed
    /\ dialer[d] = "locking" /\ Free
    /\ dialer' = [dialer EXCEPT ![d] = "dialing"]
    /\ UNCHANGED <<mutex, chanVars, loopVars, userVars, cancelled,
                   contactVars, cs>>

DialerConnected(d, c) ==
    /\ ~Crashed
    /\ dialer[d] = "dialing" /\ cs[c].pc = "unused"
    /\ dialer' = [dialer EXCEPT ![d] = "exited"]
    /\ cs' = [cs EXCEPT ![c] = [Unused EXCEPT !.pc = "handshake",
                                               !.client = TRUE,
                                               !.authed = TRUE,
                                               !.contact = TRUE]]
    /\ UNCHANGED <<mutex, chanVars, loopVars, userVars, cancelled,
                   contactVars>>

DialerCancelled(d) ==
    /\ ~Crashed
    /\ dialer[d] = "dialing" /\ d \in cancelled
    /\ dialer' = [dialer EXCEPT ![d] = "exited"]
    /\ UNCHANGED <<mutex, chanVars, loopVars, userVars, cancelled,
                   contactVars, cs>>

----------------------------------------------------------------------------
(* The protocol goroutine of a connection: ProtocolConnection callbacks.   *)

\* The accept loop hands an inbound connection to a fresh handler.
InboundConnection(c) ==
    /\ ~Crashed
    /\ cs[c].pc = "unused"
    /\ cs' = [cs EXCEPT ![c] = [Unused EXCEPT !.pc = "handshake"]]
    /\ UNCHANGED <<mutex, chanVars, loopVars, userVars, dialVars, contactVars>>

\* OnAuthenticationResult (outbound): IsAuthed = result; a failure closes
\* the connection, after which OnDisconnect reports it to the contact.
OnAuthenticationResult(c, result, isKnownContact) ==
    /\ ~Crashed
    /\ cs[c].pc = "handshake" /\ cs[c].client /\ ~cs[c].closed
    /\ cs' = [cs EXCEPT ![c].authed = result,
                         ![c].known = isKnownContact,
                         ![c].closed = ~result,
                         ![c].pc = IF result THEN "authLock" ELSE "closeLock"]
    /\ UNCHANGED <<mutex, chanVars, loopVars, userVars, dialVars, contactVars>>

\* OnAuthenticationProof (inbound) from this contact's address: a valid
\* proof sets pc.Contact from the contact list and, when it is found, calls
\* OnConnectionAuthenticated(conn, true).  An invalid proof ends the
\* handler's dealings with the contact.  Without UnlistedPeers the peer is
\* always found.
OnAuthenticationProof(c, result, found) ==
    /\ ~Crashed
    /\ cs[c].pc = "handshake" /\ ~cs[c].client /\ ~cs[c].closed
    /\ cs' = [cs EXCEPT ![c].authed = result,
                         ![c].known = found,
                         ![c].contact = result /\ found,
                         ![c].pc = CASE ~result -> "done"
                                     [] found -> "authLock"
                                     [] OTHER -> "requestWait"]
    /\ UNCHANGED <<mutex, chanVars, loopVars, userVars, dialVars, contactVars>>

\* if conn.Client { c.outboundConnAuthKnown = knownContact }
RecordAuthKnown(c) ==
    outboundConnAuthKnown' = IF cs[c].client THEN cs[c].known
                                             ELSE outboundConnAuthKnown

\* OnConnectionAuthenticated with c.connChannel set: under the mutex,
\* records isKnownContact and sends on c.connChannel still holding it.
\* With c.connChannel nil it unlocks and closes conn but does not return:
\* the rest runs without the mutex ("authLate").
OnConnectionAuthenticated(c) ==
    /\ ~Crashed
    /\ cs[c].pc = "authLock" /\ Free
    /\ IF chanField
         THEN /\ mutex' = c
              /\ cs' = SetPc(c, "authSend")
              /\ RecordAuthKnown(c)
         ELSE /\ cs' = [cs EXCEPT ![c].closed = TRUE, ![c].pc = "authLate"]
              /\ UNCHANGED <<mutex, outboundConnAuthKnown>>
    /\ UNCHANGED <<chanVars, loopVars, userVars, dialVars, connection, status,
                   pending, connOld, preferOutbound, adopted>>

\* The fall-through after the early unlock: the unlocked write of
\* outboundConnAuthKnown, then the send reads c.connChannel again.  Still
\* nil, the send blocks forever; made by a StartConnection in between, the
\* send goes to the live loop without the mutex.
AuthAfterUnlock(c) ==
    /\ ~Crashed
    /\ cs[c].pc = "authLate"
    /\ RecordAuthKnown(c)
    /\ cs' = SetPc(c, IF chanField THEN "authSendUnlocked" ELSE "nilSend")
    /\ UNCHANGED <<mutex, chanVars, loopVars, userVars, dialVars, connection,
                   status, pending, connOld, preferOutbound, adopted>>

\* A sender blocked on a channel that StopConnection closes panics.
SendOnClosedChannel(c) ==
    /\ ~Crashed
    /\ cs[c].pc = "authSendUnlocked" /\ chanClosed
    /\ cs' = SetPc(c, "crashed")
    /\ UNCHANGED <<mutex, chanVars, loopVars, userVars, dialVars, contactVars>>

\* c.mutex.Unlock() after a send completed or a close signal was delivered.
\* sync.Mutex has no owner: unlocking it while another goroutine holds it
\* releases that lock, and unlocking it unlocked is a fatal error.
HandlerUnlock(c) ==
    /\ ~Crashed
    /\ cs[c].pc \in {"authUnlock", "closeUnlock", "unlockUnlocked"}
    /\ IF mutex = NoHolder
         THEN /\ cs' = SetPc(c, "crashed")
              /\ UNCHANGED mutex
         ELSE /\ mutex' = NoHolder
              /\ cs' = SetPc(c, IF cs[c].pc = "closeUnlock" THEN "done"
                                                           ELSE "running")
    /\ UNCHANGED <<chanVars, loopVars, userVars, dialVars, contactVars>>

\* The network or the peer closes the connection, in any callback.
ConnectionLost(c) ==
    /\ ~Crashed
    /\ cs[c].pc \notin {"unused", "done"} /\ ~cs[c].closed
    /\ cs' = [cs EXCEPT ![c].closed = TRUE]
    /\ UNCHANGED <<mutex, chanVars, loopVars, userVars, dialVars, contactVars>>

\* oc.Process returns on a closed connection and calls OnDisconnect, which
\* calls OnConnectionClosed when pc.Contact is set.
OnDisconnect(c) ==
    /\ ~Crashed
    /\ cs[c].closed /\ cs[c].pc \in {"handshake", "requestWait", "running"}
    /\ cs' = SetPc(c, IF cs[c].contact THEN "closeLock" ELSE "done")
    /\ UNCHANGED <<mutex, chanVars, loopVars, userVars, dialVars, contactVars>>

\* OnConnectionClosed: returns unless conn is c.connection and the channels
\* exist; otherwise sends on c.connClosedChannel holding the mutex.
OnConnectionClosed(c) ==
    /\ ~Crashed
    /\ cs[c].pc = "closeLock" /\ Free
    /\ IF connection # c \/ ~chanField
         THEN /\ cs' = SetPc(c, "done")
              /\ UNCHANGED mutex
         ELSE /\ cs' = SetPc(c, "closeSend")
              /\ mutex' = c
    /\ UNCHANGED <<chanVars, loopVars, userVars, dialVars, contactVars>>

\* OnContactRequest on an authenticated inbound connection whose peer is
\* not in the contact list.  AddOrUpdateInboundContactRequest decides:
\* the contact was added meanwhile, and the connection is handed to it with
\* contact.OnConnectionAuthenticated(pc.Conn, true), pc.Contact still nil;
\* or the request is rejected and the connection closed.  A pending request
\* is kept by the contact list, which the model leaves out: the handler
\* just waits.
OnContactRequest(c, accepted) ==
    /\ ~Crashed
    /\ cs[c].pc = "requestWait" /\ ~cs[c].closed
    /\ cs' = IF accepted THEN SetPc(c, "authLock")
                         ELSE [cs EXCEPT ![c].closed = TRUE]
    /\ UNCHANGED <<mutex, chanVars, loopVars, userVars, dialVars, contactVars>>

\* The peer opens a chat channel (OnOpenChannelRequest acks every channel
\* type) and sends a message or an ack on an authenticated connection.
\* OnChatMessage and OnChatMessageAck close the connection when pc.Contact
\* is nil but do not return: pc.Contact.Conversation() then dereferences
\* nil and the program panics.  With pc.Contact set they only touch the
\* core conversation, which the model leaves out.
OnChatMessage(c) ==
    /\ ~Crashed
    /\ cs[c].pc \in {"requestWait", "running"} /\ ~cs[c].closed
    /\ ~cs[c].contact
    /\ cs' = [cs EXCEPT ![c].closed = TRUE, ![c].pc = "nilContact"]
    /\ UNCHANGED <<mutex, chanVars, loopVars, userVars, dialVars, contactVars>>

----------------------------------------------------------------------------
(* The contact request sent by setConnection, answered by the peer.        *)

\* OnFailedChannelOpen: the peer refused the contact request channel that
\* setConnection opened; UnsetChannel forgets it, so no ack can follow.
OnFailedChannelOpen(c) ==
    /\ ~Crashed
    /\ cs[c].pc = "running" /\ cs[c].requestOpen /\ ~cs[c].closed
    /\ cs' = [cs EXCEPT ![c].requestOpen = FALSE]
    /\ UNCHANGED <<mutex, chanVars, loopVars, userVars, dialVars, contactVars>>

\* OnContactRequestAck on the outbound connection that sent the request.
OnContactRequestAck(c, st) ==
    /\ ~Crashed
    /\ cs[c].pc = "running" /\ cs[c].requestOpen /\ ~cs[c].closed
    /\ cs' = [cs EXCEPT ![c].pc = "ackLock", ![c].ack = st]
    /\ UNCHANGED <<mutex, chanVars, loopVars, userVars, dialVars, contactVars>>

\* updateContactRequest(status) on the contact's state; the timestamps it
\* writes (WhenDelivered, WhenRejected) are only read when loading config.
UpdatedPending(st) == IF st = "Accepted" THEN FALSE ELSE pending
\* Fault: "Accepted" ignores whether a connection is up.
UpdatedStatusIgnoringConnection(st) ==
    IF st = "Accepted" THEN "UNKNOWN" ELSE status

UpdatedStatus(st) ==
    IF st = "Accepted"
      THEN IF connection # NoConn THEN "ONLINE" ELSE "UNKNOWN"
      ELSE status

\* UpdateContactRequest locks the mutex (deferring the unlock); without a
\* pending request it returns false and the channel is closed.  Otherwise
\* it updates the request and builds its UPDATE event with c.Data(), which
\* locks the mutex it already holds: the goroutine blocks there for good.
UpdateContactRequest(c) ==
    /\ ~Crashed
    /\ cs[c].pc = "ackLock" /\ Free
    /\ IF ~pending
         THEN /\ cs' = [cs EXCEPT ![c].pc = "running",
                                  ![c].requestOpen = FALSE]
              /\ UNCHANGED <<mutex, pending, status>>
         ELSE /\ mutex' = c
              /\ cs' = SetPc(c, "ackStuck")
              /\ pending' = UpdatedPending(cs[c].ack)
              /\ status' = UpdatedStatus(cs[c].ack)
    /\ UNCHANGED <<chanVars, loopVars, userVars, dialVars, connection,
                   outboundConnAuthKnown, connOld, preferOutbound, adopted>>

\* Thirty seconds pass on the adopted connection.
ConnectionAges ==
    /\ ~Crashed
    /\ connection # NoConn /\ ~connOld
    /\ connOld' = TRUE
    /\ UNCHANGED <<mutex, chanVars, loopVars, userVars, dialVars, connection,
                   status, pending, outboundConnAuthKnown, preferOutbound,
                   adopted, cs>>

----------------------------------------------------------------------------

Loop ==
    \/ LoopStart
    \/ LoopTop
    \/ LoopRecvClosedChannel
    \/ \E c \in Conns : LoopRecvConn(c) \/ LoopRecvConnClosed(c)
    \/ LoopLockStep("setAddr", "setLock")
    \/ SetConnectionDiscard
    \/ SetConnectionAdopt
    \/ LoopLockStep("setData", "setConv")
    \/ LoopLockStep("setConv", "top")
    \/ LoopLockStep("discardAddr", "top")
    \/ ClearConnection
    \/ LoopLockStep("clearData", "top")
    \/ LoopLockStep("exitAddr", "exitClear")
    \/ LoopLockStep("exitData", "idle")

User == StartConnection \/ StopConnection \/ StopReturns

Dialer(d) ==
    \/ DialerStart(d)
    \/ \E c \in Conns : DialerConnected(d, c)
    \/ DialerCancelled(d)

Handler(c) ==
    \/ InboundConnection(c)
    \/ \E r, k \in BOOLEAN : OnAuthenticationResult(c, r, k)
    \/ \E r \in BOOLEAN, f \in IF UnlistedPeers THEN BOOLEAN ELSE {TRUE} :
         OnAuthenticationProof(c, r, f)
    \/ \E a \in BOOLEAN : OnContactRequest(c, a)
    \/ OnFailedChannelOpen(c)
    \/ OnChatMessage(c)
    \/ OnConnectionAuthenticated(c)
    \/ AuthAfterUnlock(c)
    \/ SendOnClosedChannel(c)
    \/ HandlerUnlock(c)
    \/ ConnectionLost(c)
    \/ OnDisconnect(c)
    \/ OnConnectionClosed(c)
    \/ \E st \in AckStatuses : OnContactRequestAck(c, st)
    \/ UpdateContactRequest(c)

Next ==
    \/ Loop
    \/ User
    \/ \E d \in Dialers : Dialer(d)
    \/ \E c \in Conns : Handler(c)
    \/ ConnectionAges

Spec == Init /\ [][Next]_vars

\* Fairness.  Go's scheduler runs every runnable goroutine: the loop, the
\* connectors and the protocol goroutines' own steps are weakly fair, and
\* the steps that wait for c.mutex are strongly fair (sync.Mutex hands the
\* lock to a waiter that has waited 1ms, its starvation mode).  What the
\* network or the peer does (connecting, authenticating, closing, sending
\* requests and messages), the user's calls and the passing of time get no
\* fairness: any of them may never happen.
LocalHandlerStep(c) ==
    \/ OnConnectionAuthenticated(c)
    \/ AuthAfterUnlock(c)
    \/ SendOnClosedChannel(c)
    \/ HandlerUnlock(c)
    \/ OnDisconnect(c)
    \/ OnConnectionClosed(c)
    \/ UpdateContactRequest(c)

FairSpec ==
    /\ Spec
    /\ SF_vars(Loop)
    /\ WF_vars(StopReturns)
    /\ \A d \in Dialers : SF_vars(DialerStart(d)) /\ WF_vars(DialerCancelled(d))
    /\ \A c \in Conns : SF_vars(LocalHandlerStep(c))

----------------------------------------------------------------------------
(* Properties.                                                             *)

TypeOK ==
    /\ mutex \in Conns \cup {NoHolder}
    /\ connEnabled \in BOOLEAN /\ chanField \in BOOLEAN
    /\ chanClosed \in BOOLEAN
    /\ loopChan \in {"copied", "nil"}
    /\ lpc \in LoopPcs /\ loopConn \in Conns \cup {NoConn}
    /\ outbound \in 0..MaxDialers
    /\ upc \in {"idle", "stopWait", "panicked"} /\ userOps \in 0..MaxUserOps
    /\ lastCall \in {"none", "Start", "Stop"}
    /\ dialer \in [Dialers -> {"unspawned", "locking", "dialing", "exited"}]
    /\ cancelled \subseteq Dialers
    /\ connection \in Conns \cup {NoConn}
    /\ status \in Statuses /\ pending \in BOOLEAN
    /\ outboundConnAuthKnown \in BOOLEAN /\ connOld \in BOOLEAN
    /\ preferOutbound \in BOOLEAN
    /\ cs \in [Conns -> ConnRec]
    /\ adopted \subseteq Conns

\* The contact is ONLINE exactly when it holds a connection and no contact
\* request is pending (setConnection, clearConnection and
\* updateContactRequest("Accepted") each keep status in step).
StatusMatchesConnection ==
    (status = "ONLINE") <=> (connection # NoConn /\ ~pending)

\* At most one live session: every connection setConnection ever assigned,
\* other than the current one, has been closed (by replacement in
\* setConnection or by clearConnection).
DisplacedSessionsClosed ==
    \A c \in adopted \ {connection} : cs[c].closed

\* While connections are enabled, c.connection is never a connection whose
\* protocol goroutine has finished unless its close was delivered through
\* connClosedChannel and the loop is about to clear it: a dead connection
\* is never kept as the contact's session.
NoZombieConnection ==
    (connection # NoConn /\ chanField /\ cs[connection].pc = "done")
        => lpc = "clearLock"


\* Deadlock between the loop and a protocol goroutine: the goroutine holding
\* c.mutex is blocked sending to the loop (OnConnectionAuthenticated or
\* OnConnectionClosed) while the loop waits for c.mutex (shouldMake-
\* OutboundConnections, setConnection, clearConnection, c.Address/Data/
\* Conversation).  Neither can move again.
LoopWaitsForMutex ==
    \/ lpc \in {"setAddr", "setLock", "setData", "setConv", "discardAddr",
               "clearLock", "clearData", "exitAddr", "exitClear", "exitData"}
    \/ lpc = "top" /\ connection = NoConn

NoLockWaitCycle ==
    ~ /\ mutex \in Conns
      /\ cs[mutex].pc \in {"authSend", "closeSend"}
      /\ LoopWaitsForMutex

\* No goroutine requests c.mutex while it already holds it (Go mutexes are
\* not reentrant): UpdateContactRequest must not reach c.Data() locked.
NoRecursiveLock == \A c \in Conns : cs[c].pc # "ackStuck"

\* No protocol goroutine crashes the program: neither by a send on the
\* channel StopConnection closed nor by the c.mutex.Unlock() of
\* OnConnectionAuthenticated on a mutex it released already.
NoHandlerCrash == \A c \in Conns : cs[c].pc # "crashed"

\* The refinement mapping onto the agent of spec.md section 4.2: the agent
\* is DISABLED while no contactConnection goroutine runs, CONNECTED while
\* c.connection is set, its session is c.connection, and it is enabled
\* when the user's last call was StartConnection.
AgentState == IF lpc = "idle" THEN "DISABLED"
              ELSE IF connection = NoConn THEN "CONNECTING"
              ELSE "CONNECTED"

Agent == INSTANCE ConnectionAgent
           WITH Sessions <- Conns, None <- NoConn,
                agent <- AgentState, session <- connection,
                enabled <- (lastCall = "Start")

\* StartConnection, StopConnection, setConnection and clearConnection
\* implement the abstract agent: Start on a stopped agent starts a loop,
\* the loop ends only after Stop and with no session, and sessions are
\* adopted and lost one at a time.
AgentRefinement == Agent!Spec


\* No chat event reaches a protocol handler whose pc.Contact is nil: the
\* handler would dereference it (OnChatMessage, OnChatMessageAck) and end
\* the program.
NoNilContactChat == \A c \in Conns : cs[c].pc # "nilContact"

\* An outbound attempt is under way: a connectOutbound goroutine is still
\* dialing, or the protocol goroutine of a connection it made has not
\* finished.
Attempting ==
    \/ \E d \in Dialers : dialer[d] \in {"locking", "dialing"}
    \/ \E c \in Conns : cs[c].client /\ cs[c].pc # "done"

\* While the user wants the contact connected and it has no session, the
\* contact keeps trying: an outbound attempt is eventually under way, a
\* session is adopted, or the program has ended or deadlocked in one of the
\* ways the safety properties above report.  contactConnection spawns
\* connectOutbound when it has no connection, and relies on connChannel or
\* connClosedChannel to wake it for the next attempt.
KeepsReconnecting ==
    (lastCall = "Start" /\ AgentState = "CONNECTING")
        ~> \/ Attempting \/ AgentState # "CONNECTING" \/ Crashed
           \/ ~NoLockWaitCycle \/ ~NoRecursiveLock

\* The loss of the adopted session is eventually noticed, for a session
\* whose handler has pc.Contact set: once c.connection is closed,
\* OnDisconnect, OnConnectionClosed, connClosedChannel and clearConnection
\* (or the exit of the loop) clear it, unless the program has ended or
\* deadlocked in one of the ways the safety properties above report.  A
\* session handed over by OnContactRequest has pc.Contact nil, so
\* OnDisconnect (protocol.go:42) never reports it: that is the zombie of
\* NoZombieConnection, and it is excluded here.
LostSessionCleared ==
    \A c \in Conns :
        (connection = c /\ cs[c].closed /\ cs[c].contact)
            ~> \/ connection # c \/ Crashed
               \/ ~NoLockWaitCycle \/ ~NoRecursiveLock

=============================================================================
