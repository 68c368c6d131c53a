# TLA+ models of ricochet-go

This project holds TLA+ models of the parts of ricochet-go whose source is in
`src/`. TLC checks them. The parts are:

- the connection management of one contact (`src/unnamed/part_001`, the
  `Contact` type of package `core`);
- the protocol callbacks that drive it (`src/core/protocol.go`);
- the command-line client's conversation backlog (`src/unnamed/part_000`).

`PROJECT.json` lists the components, the runs, the mutants, the map from each
definition to the source lines it translates, the findings and the hazards.

## The system and how its parts interact

**Contact connection management** (`part_001`). Each contact owns:

- `c.mutex`;
- a connection switch `connEnabled`;
- three channels (`connChannel`, `connClosedChannel`, `connStopped`);
- the adopted session `c.connection` and its status;
- the persisted request state `data.Request.Pending`;
- the flag `outboundConnAuthKnown`.

These goroutines act on that state:

- *The user* (the contact list) calls `StartConnection` / `StopConnection`.
  Start makes the channels and spawns the loop. Stop closes `connChannel`,
  clears the fields and waits on `connStopped`.
- *The loop* `contactConnection`:
  - copies the channel fields when it starts;
  - spawns a `connectOutbound` goroutine whenever it has no connection and
    `shouldMakeOutboundConnections` holds;
  - then selects on `connChannel` (a new authenticated session, or the close
    that ends the loop) and `connClosedChannel` (the current session was lost).
  - On a session it runs `setConnection`. That applies the refusal checks and
    the replacement rules of `shouldReplaceConnection`. It then adopts the
    session: sending the contact request or implicitly accepting it, setting
    the status, and saving. Last come `c.Data()` and `c.Conversation()`.
  - On a loss it runs `clearConnection`.
- *Connectors* `connectOutbound` dial until cancelled. On success they start
  the protocol goroutine `oc.Process(handler)`.
- *Protocol goroutines* (one per connection) call back into the contact:
  - `OnReady` marks an outbound connection authed before it authenticates.
  - `OnAuthenticationResult` (outbound) and `OnAuthenticationProof` (inbound)
    call `OnConnectionAuthenticated`. It locks `c.mutex` and sends the session
    on `connChannel` *while holding the lock*.
  - `OnDisconnect` calls `OnConnectionClosed`. It locks `c.mutex` and sends on
    `connClosedChannel` while holding it.
  - `OnContactRequest` may hand an inbound request session to a contact.
    A rejected request closes the connection.
  - `OnFailedChannelOpen` is the peer refusing the contact-request channel.
    It clears `requestOpen`, so the request stays pending.
  - `OnContactRequestAck` calls `UpdateContactRequest`.

**CLI conversation** (`part_000`). This is one goroutine of the client that
turns backend events into the backlog:

- `AddMessage`: append, count unread, `trimBacklog`, then print and
  `MarkAsReadBefore` when the conversation is active.
- `UpdateMessage`: patch the newest message with the same direction and id.
- `SetActive`: `PrintContext` and `MarkAsRead`.

It interacts with the core only through RPC, so it is a module of its own.

## Modules

| module | models | state | actions |
|---|---|---|---|
| `ContactConnection` | `part_001` + `protocol.go` | `mutex`, `connEnabled`, `chanField`/`chanClosed` (channel fields set / closed), `lpc`, `loopChan`, `loopConn`, `outbound` (loop), `upc`, `userOps`, `lastCall` (user), `dialer`, `cancelled` (connectors), `connection`, `status`, `pending`, `outboundConnAuthKnown`, `connOld` (30 s elapsed), `preferOutbound` (hostname order), `cs` (per connection: handler pc, `Client`, `IsAuthed`, `Closed`, isKnownContact, `pc.Contact` set, request channel), `adopted` (history) | one per handler step; see below |
| `MCContactConnection` | TLC instance | – | adds `ConnSymmetry` |
| `ConnectionAgent` | spec §4.2 | `agent` (DISABLED / CONNECTING / CONNECTED), `session`, `enabled` | `Start`, `Stop`, `Disable`, `Adopt`, `Lose` |
| `ConnectionDuel` | `setConnection` of two peers (§4.2.3) | `opened`, `conn`, `closed`, `seen` per peer | `Dial`, `SetConnection`, `PeerClosed`, `ClearConnection` |
| `Conversation` | `part_000` | `messages`, `numUnread`, `active`, `markedRead` (last read marker sent), `events` | `AddMessage`, `UpdateMessage`, `SetActive` (with `MarkAsRead`, `MarkAsReadBefore`, `trimBacklog` as operators) |
| `MCConversation` | TLC instance | – | limits 1/3/4 in place of 3/100/200 |

How `ContactConnection` corresponds to the code:

- Each goroutine is a program counter. An action is the code between two
  points where the goroutine can block or interleave: a `c.mutex.Lock()` that
  another goroutine's held lock can delay, or a channel operation.
- A goroutine that locks and unlocks within one step takes it atomically.
  Such a step is guarded by `Free` (no holder).
- Only the protocol goroutines hold `c.mutex` across steps: they send while
  holding it, and `UpdateContactRequest` blocks while holding it. So `mutex`
  names a connection or `NoHolder`.
- Unbuffered sends are rendezvous actions (`LoopRecvConn`,
  `LoopRecvConnClosed`). A send on a nil channel never completes.
- `setConnection` is split where the code unlocks:
  - `LoopLockStep("setAddr","setLock")` is the `c.Address()` of the log line.
  - `SetConnectionDiscard` and `SetConnectionAdopt` are the locked body.
  - The `c.Data()` / `c.Conversation()` steps follow.
- `OnConnectionAuthenticated` has two branches:
  - With the channel set, it locks, records isKnownContact and moves to the
    send, still holding the lock.
  - With the channel nil, it unlocks and closes (line 560) but falls through.
    `AuthAfterUnlock` models lines 564-567 running without the mutex.
    `SendOnClosedChannel` and `HandlerUnlock` give the outcomes Go produces:
    a panic, a fatal "unlock of unlocked mutex", or the release of another
    goroutine's lock.
- `OnChatMessage` is a peer opening a chat channel (acked for any type) and
  sending a message or ack. With `pc.Contact` nil the handler closes but goes
  on to dereference nil.
- An unrecovered panic ends the program. `Crashed` disables every action.
- Data is abstracted as follows:
  - Time is the single flag `connOld`, set by `ConnectionAges`.
  - The hostname comparison is the free initial choice `preferOutbound`.
    `ConnectionDuel` models it from both peers' hostnames.
  - Config saves and event publishing change no modelled state and are left
    out.
  - The persisted request is `pending` plus the status computed by
    `ContactFromConfig`.
- `ConnectionLost` is the network or the peer closing a session.
  `InboundConnection` is the accept loop creating a handler. Both come from
  go-ricochet, which is not in `src/`, and are marked `spec_modelled`.
- `UnlistedPeers` lets an inbound peer authenticate while it is not in the
  contact list. That covers a stranger, or this contact before the user adds
  it. With it, `OnAuthenticationProof` may leave `pc.Contact` nil, and
  `OnContactRequest` may hand the session to the contact (once added) with
  `pc.Contact` still nil.
- `OnContactRequest(c, accepted)` has the contact list's two answers:
  - accepted: the handler goes on to lock the contact and adopt the session;
  - rejected: the connection is closed.

  A request still pending at the contact list keeps the handler waiting,
  which is a state the model already has.

### The abstract agent and the refinement

`ConnectionAgent` states what spec §4.2 promises of one contact's agent:

- Start on a DISABLED agent makes it CONNECTING.
- Sessions are adopted and lost one at a time.
- The agent becomes DISABLED only after Stop and without a session.

The spec makes "* + Stop → DISABLED" a single step. The code reaches it
asynchronously: the loop may still adopt a session it received before Stop,
and clears it on the way out. The abstract module allows that delay and
nothing more.

`ContactConnection` maps onto it as follows:

- `agent` is DISABLED while the loop is idle, CONNECTING while
  `c.connection` is nil, and CONNECTED otherwise.
- `session` is `c.connection`.
- `enabled` says the user's last call was Start. This is the history
  variable `lastCall`.

`AgentRefinement == Agent!Spec` is checked as a PROPERTY.

### Fairness

`FairSpec` adds fairness that the Go runtime justifies:

- **Strong fairness** for the loop and for each protocol goroutine's own
  steps (`LocalHandlerStep`), and for `DialerStart`. These steps wait for
  `c.mutex`. `sync.Mutex` hands the lock to a waiter that has waited 1 ms
  (starvation mode), so a goroutine that can lock infinitely often does.
- **Weak fairness** for `StopReturns` and for a connector noticing its
  cancelled context.
- **No fairness** for what the network, the peer, the user or the clock do:
  - a dial succeeding;
  - authentication results;
  - closes, requests and chat messages;
  - Start and Stop;
  - a connection ageing.

  Each of these may never happen.

Without fairness, every property in `Spec` is a safety property.

`ConnectionDuel!FairSpec` assumes the network has settled: every dial,
delivery, close and clear goes through. Each of `Dial(s)`,
`SetConnection(p, s)`, `PeerClosed(p, s)` and `ClearConnection(p)` is weakly
fair on its own. Weak fairness of `Next` as a whole would not be enough: it
lets one session be delivered while the other never is. The order of the
steps is still free. That is what §8 assumes when it says the two parties
converge.

## Runs

| run | cfg | expect | what it shows |
|---|---|---|---|
| `agent_safety` | 3 connections, 1 connector, 1 Start, all initial request states | pass | `StatusMatchesConnection`, `DisplacedSessionsClosed`, `NoZombieConnection` hold across outbound/inbound races, losses and the replacement rules (~617k states, ~45 s) |
| `agent_lifecycle` | 2 connections, 2 connectors, Start and Stop, unlisted peers | pass | status and single-session hold across Start/Stop, crashes and the request path, and `AgentRefinement`: the code implements `ConnectionAgent` (~751k states, ~45 s) |
| `session_loss` | `FairSpec`, 2 connections, 1 connector, 1 Start, a pending request, unlisted peers | pass | `LostSessionCleared`: a closed adopted session whose handler has `pc.Contact` set is always cleared eventually, unless a reported deadlock or crash intervenes. Sessions handed over by `OnContactRequest` are in the model but excluded by the property: they are the zombies of `zombie_session` (~138k states, ~1 min) |
| `conversation` | limits 1/3/4, ids {1,2}, 7 events | pass | `UnreadCountAccurate`, and `TrimPolicy` (limits respected; no unread message dropped below the hard limit) |
| `lock_cycle` | `NoLockWaitCycle` | violation | a protocol goroutine holds `c.mutex` while sending, and the loop needs `c.mutex` before it can receive |
| `request_ack_relock` | `NoRecursiveLock` | violation | `UpdateContactRequest` → `c.Data()` relocks the held mutex |
| `handler_crash` | `NoHandlerCrash` | violation | the missing return at line 561: a session authenticated before Start falls through, Start makes the channel, the send reaches the loop unlocked, and 568 unlocks an unlocked mutex |
| `restart_after_stop` | `AgentRefinement`, 3 user calls | violation | Start, Stop, Start: `connEnabled` is never reset, so the second Start leaves the agent DISABLED |
| `zombie_session` | `NoZombieConnection` with unlisted peers | violation | a session handed over by `OnContactRequest` is never reported closed and stays adopted |
| `chat_nil_contact` | `NoNilContactChat` with unlisted peers | violation | a stranger authenticates, opens a chat channel and sends a message: `OnChatMessage` dereferences the nil `pc.Contact` and the program panics |
| `no_reconnect` | `FairSpec`, `KeepsReconnecting` | violation | a dial whose authentication fails ends the connector; `OnConnectionClosed` ignores the connection, so the loop waits forever with no attempt under way |
| `connection_duel` | `FairSpec`, `DuelConverges`, peers 1 < 2 | violation | the inbound side of the tie-break compares against an empty `MyHostname`, so each peer may keep its own outbound session and close the other's. Both die, both loops redial, and the same order repeats forever |

Each violation is a finding in `PROJECT.json`. The duel check holds once
`MyHostname` is set on both ends, so the empty hostname is the cause.

Every property of a passing run has a mutant that breaks it:

- a connection adopted without the `conn.Closed` test;
- a replaced connection that is not closed;
- "Accepted" ignoring whether a connection is up;
- a loop that exits without `clearConnection`;
- a close signal received without `clearConnection`;
- a hard trim off by one;
- a missing recount;
- a trim loop without `break`.

## Bounds and why they are enough

- Three connections give every pairing of two sessions plus a third arriving
  while a replacement is in flight.
- Once a third is adopted, both earlier ones are displaced.
- One connector suffices in `agent_safety`. Connectors beyond the bound are
  ones that never connect. Inbound connections supply the rest of the racing.
- `agent_lifecycle` uses two connectors and two user calls (Start, Stop).
  Stop can land at every point of the loop, including after a session was
  received and before it is adopted.
- `restart_after_stop` needs a third call.
- `session_loss` keeps one Start and one connector so the liveness check
  stays small. Two connections still give a replacement and a loss in
  flight, and the pending request reaches the ack path.
  Unlisted peers put request-accepted sessions, with `pc.Contact` nil,
  into the same state space, so the property's exclusion of them is not
  vacuous.
- `no_reconnect` uses one connection and two connectors. With one connection
  at most two connectors are ever spawned (the first, and one after a receive
  or a clear), so a stuck loop is never an artefact of the bound.
- In `ConnectionDuel` a peer dials again whenever it has no connection.
  Its new session reuses the name of its previous one once that is closed
  at both ends, so the state space is finite and a repeating duel is a
  cycle TLC can find. Both sessions of a round arrive within 30 s, so the
  age rule is left out.
- The ack statuses are reduced to `Pending` and `Accepted`: `Rejected` and
  `Error` change nothing the model records that `Pending` does not.
- The conversation limits keep the code's order, context < soft < hard. Seven
  events reach the hard limit with room for updates and activation.
- The violation runs use the smallest bounds under which the trace exists.

## Known issues not among the runs

Earlier versions of this project checked these and found them violated.
The runs now go to the questions above, so the issues are listed here:

- `contactConnection` copies its channel fields without the mutex
  (`part_001:222`). A StopConnection that runs before the copy leaves the
  loop on nil channels, and Stop then waits forever on `<-stopped`.
- `trimBacklog` can keep fewer than `backlogContextNum` messages before the
  first unread one (`part_000:187`). This differs from spec §4.3 and its §8
  example.
- `MarkAsRead` skips outbound messages where spec §4.3 stops the scan
  (`part_000:110`).

Two hazards in `PROJECT.json` have no property, for the same reason: each
would need a violation run of its own, and the project already uses every
run the check allows.

- The stop race above (`part_001:222`).
- Identifier 0 (`part_000:131`): the read marker cannot name a message
  whose identifier is 0. Spec §3 reserves 0, so only a non-conforming peer
  reaches it.

A third hazard is not modelled at all. `OnChatMessage` and
`OnChatMessageAck` (`protocol.go` 194 and 209) widen the int32 identifier
with `uint64(messageID)`. An unsigned 32-bit identifier of 2^31 or more
becomes a sign-extended value near 2^64, so its ack never matches the sent
message. The conversation that stores the identifiers is not in the
repository.

## Not modelled

- Message text, validation and printing.
- `SendMessage` (an RPC whose reply is only validated).
- Config persistence and event publishing.
- The network resolver (I/O only).
- `contact.proto` (types only).
- `IsKnownContact` (`protocol.go` 154-164): it only reads the contact list.
- `OnAuthenticationRequest` and `OnAuthenticationChallenge`, and the error
  callbacks of `protocol.go` 217-231. They answer on the wire and change no
  state of the client.
- What OnChatMessage / OnChatMessageAck do with a contact's conversation,
  the core conversation and its send queue, and the contact list: their
  code is not in the repository.

## Plan for the next steps

1. A reference check of `trimBacklog` against the specification's rule over
   all bounded backlogs.
2. The age rule in the duel, with a clock that lets one round's sessions
   be more than 30 s apart.
3. Stop completing (`<-stopped` returns) as a liveness property.
