---------------------------- MODULE Conversation ----------------------------
(***************************************************************************)
(* The command-line client's view of one conversation (src/unnamed/        *)
(* part_000, type Conversation of package main): the backlog of messages   *)
(* received as events from the backend, the unread counter, the trimming   *)
(* policy and the read markers sent back to the backend.  The client runs  *)
(* it on one goroutine, so every method is one atomic step.                *)
(*                                                                         *)
(* A message is its direction (sender self or peer), its protocol          *)
(* identifier and its status; text, timestamps and the entities checked by *)
(* validateMessage are abstracted to the status test: a message failing    *)
(* validation is ignored by every method, which is a stuttering step.      *)
(***************************************************************************)
EXTENDS Integers, Sequences, SequencesExt

CONSTANTS
    ContextNum,  \* backlogContextNum
    SoftLimit,   \* backlogSoftLimit
    HardLimit,   \* backlogHardLimit
    Ids,         \* protocol identifiers a message may carry
    MaxEvents    \* bound on message events from the backend

ASSUME /\ ContextNum \in Nat /\ SoftLimit \in Nat /\ HardLimit \in Nat
       /\ ContextNum < SoftLimit /\ SoftLimit < HardLimit
       /\ MaxEvents \in Nat

\* Statuses the backend gives inbound and outbound messages.  The client
\* tells apart UNREAD, READ and the rest: QUEUED and DELIVERED stand for
\* every outbound status (SENDING, QUEUED, SENT, DELIVERED, ERROR).
InboundStatuses  == {"UNREAD", "READ"}
OutboundStatuses == {"QUEUED", "DELIVERED"}
Message == [self: BOOLEAN, id: Ids, status: InboundStatuses \cup OutboundStatuses]
NewMessages == {m \in Message : m.status \in IF m.self THEN OutboundStatuses
                                                      ELSE InboundStatuses}

VARIABLES
    messages,   \* c.messages
    numUnread,  \* c.numUnread
    active,     \* c.active
    markedRead, \* LastRecvIdentifier of the last MarkConversationRead sent (0: none)
    events      \* message events handled so far

vars == <<messages, numUnread, active, markedRead, events>>

Init == /\ messages = <<>>
        /\ numUnread = 0
        /\ active \in BOOLEAN
        /\ markedRead = 0
        /\ events = 0

IsUnread(m) == m.status = "UNREAD"

\* recountUnread
CountUnread(s) == Cardinality({i \in DOMAIN s : IsUnread(s[i])})

----------------------------------------------------------------------------
(* trimBacklog                                                             *)

\* Fault: the hard trim starts one message late.
HardTrimmedOffByOne(s) == IF Len(s) > HardLimit + 1
                            THEN SubSeq(s, Len(s) - HardLimit, Len(s))
                            ELSE s

\* First half: above the hard limit the oldest messages go unconditionally.
HardTrimmed(s) == IF Len(s) > HardLimit
                    THEN SubSeq(s, Len(s) - HardLimit + 1, Len(s))
                    ELSE s

\* The for loop over the messages (1-based here: position p is Go index
\* p-1) stops at the first unread message or at the first position from
\* which at most SoftLimit messages remain.
TrimStop(s) ==
    Min({p \in 1..Len(s) : IsUnread(s[p]) \/ Len(s) - (p - 1) <= SoftLimit})

\* Fault: the loop misses its break and runs to the last match.
KeepIndexNoBreak(s) ==
    LET p == Max({q \in 1..Len(s) : IsUnread(s[q]) \/ Len(s) - (q - 1) <= SoftLimit})
    IN IF IsUnread(s[p]) THEN Max({p - 1 - ContextNum, 0}) ELSE p - 1

\* keepIndex (a Go index): ContextNum messages before the first unread one,
\* or the position that leaves SoftLimit messages.
KeepIndex(s) ==
    LET p == TrimStop(s)
    IN IF IsUnread(s[p]) THEN Max({p - 1 - ContextNum, 0}) ELSE p - 1

\* Second half: c.messages[keepIndex:] once above the soft limit.
SoftTrimmed(s) == IF Len(s) <= SoftLimit THEN s
                  ELSE SubSeq(s, KeepIndex(s) + 1, Len(s))

TrimBacklog(s) == SoftTrimmed(HardTrimmed(s))

\* Fault: the hard trim keeps the old counter instead of recounting.
UnreadAfterTrimNoRecount(s, n) == n

\* The counter after trimBacklog: recountUnread after a hard trim only.
UnreadAfterTrim(s, n) == IF Len(s) > HardLimit
                           THEN CountUnread(HardTrimmed(s)) ELSE n

----------------------------------------------------------------------------

\* MarkAsReadBefore: an inbound message is sent to the backend as the last
\* one read; an outbound one is refused.
MarkAsReadBefore(m) ==
    markedRead' = IF m.self THEN markedRead ELSE m.id

\* AddMessage(msg, populating): append, count, trim; an event that is not
\* part of the initial sync is printed and, in the active conversation,
\* marked read at once.
AddMessage(m, populating) ==
    /\ events < MaxEvents
    /\ events' = events + 1
    /\ LET s == Append(messages, m)
           n == numUnread + (IF IsUnread(m) THEN 1 ELSE 0)
       IN /\ messages' = TrimBacklog(s)
          /\ numUnread' = UnreadAfterTrim(s, n)
    /\ IF ~populating /\ active THEN MarkAsReadBefore(m)
                                ELSE UNCHANGED markedRead
    /\ UNCHANGED active

\* UpdateMessage(updatedMsg): replaces the LAST message with the same
\* direction and identifier; the counter drops when it stops being unread.
\* An update for no known message is ignored.
UpdateMessage(u) ==
    /\ events < MaxEvents
    /\ events' = events + 1
    /\ LET i == SelectLastInSeq(messages,
                    LAMBDA m : m.self = u.self /\ m.id = u.id)
       IN IF i = 0
            THEN UNCHANGED <<messages, numUnread>>
            ELSE /\ messages' = [messages EXCEPT ![i] = u]
                 /\ numUnread' = numUnread -
                        (IF IsUnread(messages[i]) /\ ~IsUnread(u) THEN 1 ELSE 0)
    /\ UNCHANGED <<active, markedRead>>

\* MarkAsRead: scanning back from the newest message, the first UNREAD one
\* is marked; a READ one stops the scan; other statuses are skipped.
MarkAsRead ==
    LET i == SelectLastInSeq(messages, LAMBDA m : m.status \in InboundStatuses)
    IN IF i # 0 /\ IsUnread(messages[i])
         THEN MarkAsReadBefore(messages[i])
         ELSE UNCHANGED markedRead

\* SetActive(active): on becoming active, PrintContext and MarkAsRead.
SetActive(a) ==
    /\ a # active
    /\ active' = a
    /\ IF a THEN MarkAsRead ELSE UNCHANGED markedRead
    /\ UNCHANGED <<messages, numUnread, events>>

\* Updates the backend sends: inbound messages read, outbound delivered.
Updates == {m \in Message : m.status \in IF m.self THEN {"DELIVERED"} ELSE {"READ"}}

Next ==
    \/ \E m \in NewMessages, p \in BOOLEAN : AddMessage(m, p)
    \/ \E u \in Updates : UpdateMessage(u)
    \/ \E a \in BOOLEAN : SetActive(a)

Spec == Init /\ [][Next]_vars

----------------------------------------------------------------------------
(* Properties.                                                             *)

TypeOK ==
    /\ messages \in Seq(Message) /\ Len(messages) <= HardLimit
    /\ numUnread \in Int
    /\ active \in BOOLEAN
    /\ markedRead \in Ids \cup {0}
    /\ events \in 0..MaxEvents

\* The counter shown to the user equals the number of UNREAD messages in the
\* backlog, across appends, hard and soft trims and updates.
UnreadCountAccurate == numUnread = CountUnread(messages)

\* Every append leaves at most HardLimit messages, at most SoftLimit when
\* none is unread, and discards no unread message unless the hard limit
\* forced it.
TrimPolicy ==
    [][(\E m \in NewMessages, p \in BOOLEAN : AddMessage(m, p)) =>
         /\ Len(messages') <= HardLimit
         /\ CountUnread(messages') = 0 => Len(messages') <= SoftLimit
         /\ Len(messages) < HardLimit =>
              CountUnread(messages') = CountUnread(messages)
                  + (IF IsUnread(Last(messages')) THEN 1 ELSE 0)]_vars

=============================================================================
