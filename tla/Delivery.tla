------------------------------ MODULE Delivery ------------------------------
(* Events on their way from one transaction to another: written to the       *)
(* outbox table, claimed and published to a Redis stream by publishers that   *)
(* may die or outlive their claim, read by the consumers of one group, and    *)
(* applied with an inbox row in one transaction before they are acknowledged. *)
EXTENDS Integers, FiniteSets, Sequences, Functions

CONSTANTS
    Events,      \* event ids
    Refused,     \* the events whose effect always raises
    Publishers, Consumers, Nobody,
    Batch,       \* the limit of claim_batch
    MaxFaults    \* bound on deaths, on claims that expire under a working
                 \* publisher and on foreign entries, together

ASSUME DeliveryAssumption ==
    /\ Refused \subseteq Events
    /\ Nobody \notin Publishers \cup Consumers
    /\ Batch \in Nat \ {0}
    /\ MaxFaults \in Nat

VARIABLES
    outbox,    \* event |-> its row, or NoRow
    publisher, \* publisher |-> where it is and the events it still has to send
    stream,    \* the entries; the index is the entry id
    read,      \* how many entries the group has been handed
    pending,   \* entry |-> the consumer it was last handed to; acknowledged ones are gone
    consumer,  \* consumer |-> where it is, the entry it holds, its claim cursor
    inbox,     \* the events with an inbox row
    log,       \* the effects, in the order they committed
    dead,      \* the dead letters: event ids met with another payload
    faults

tables == <<outbox, inbox, log, dead>>
redis == <<stream, read, pending>>
vars == <<tables, redis, publisher, consumer, faults>>

NoRow == [written |-> FALSE, owner |-> Nobody, expired |-> FALSE, published |-> FALSE]
Resting == [pc |-> "idle", todo |-> <<>>]
Waiting(cursor) == [pc |-> "idle", entry |-> 0, cursor |-> cursor]

Written == {e \in Events : outbox[e].written}

Init ==
    /\ outbox = [e \in Events |-> NoRow]
    /\ publisher = [p \in Publishers |-> Resting]
    /\ stream = <<>> /\ read = 0 /\ pending = << >>
    /\ consumer = [c \in Consumers |-> Waiting(0)]
    /\ inbox = {} /\ log = <<>> /\ dead = {}
    /\ faults = 0

-----------------------------------------------------------------------------
(* enqueue, enqueue_once: a row in the producer's own transaction. *)
Enqueue(e) ==
    /\ e \notin Written
    /\ outbox' = [outbox EXCEPT ![e].written = TRUE]
    /\ UNCHANGED <<publisher, redis, consumer, inbox, log, dead, faults>>

(* A claim lapses after a minute.  Nothing is left of it but the owner's name. *)
Expire(e) ==
    LET busy == \E p \in Publishers : e \in Range(publisher[p].todo)
                                      /\ outbox[e].owner = p IN
    /\ outbox[e].owner # Nobody /\ ~outbox[e].expired /\ ~outbox[e].published
    /\ busy => faults < MaxFaults
    /\ faults' = IF busy THEN faults + 1 ELSE faults
    /\ outbox' = [outbox EXCEPT ![e].expired = TRUE]
    /\ UNCHANGED <<publisher, redis, consumer, inbox, log, dead>>

Claimable(e) ==
    /\ outbox[e].written /\ ~outbox[e].published
    /\ outbox[e].owner = Nobody \/ outbox[e].expired

(* claim_batch: up to Batch rows, any of them, since locked rows are skipped. *)
Claim(p, order) ==
    /\ publisher[p].pc = "idle"
    /\ Len(order) \in 1 .. Batch
    /\ \A i \in DOMAIN order : Claimable(order[i])
    /\ outbox' = [e \in Events |->
                    IF e \in Range(order)
                    THEN [outbox[e] EXCEPT !.owner = p, !.expired = FALSE]
                    ELSE outbox[e]]
    /\ publisher' = [publisher EXCEPT ![p] = [pc |-> "check", todo |-> order]]
    /\ UNCHANGED <<redis, consumer, inbox, log, dead, faults>>

GivesUp(p) == publisher' = [publisher EXCEPT ![p] = Resting]
NextEvent(p) ==
    publisher' = [publisher EXCEPT
        ![p] = IF Len(@.todo) = 1 THEN Resting
               ELSE [pc |-> "check", todo |-> Tail(@.todo)]]

(* The claim is checked against the moment the batch was claimed at, so only *)
(* another owner's name refuses it.                                          *)
StillOwns(p, e) == outbox[e].owner = p

(* The first transaction of publish_then_acknowledge.  A refusal is raised   *)
(* through publish_available, and the rest of the batch waits to expire.     *)
Check(p) ==
    LET e == Head(publisher[p].todo) IN
    /\ publisher[p].pc = "check"
    /\ \/ ~StillOwns(p, e) /\ GivesUp(p)
       \/ StillOwns(p, e) /\ outbox[e].published /\ NextEvent(p)
       \/ StillOwns(p, e) /\ ~outbox[e].published
          /\ publisher' = [publisher EXCEPT ![p].pc = "publish"]
    /\ UNCHANGED <<tables, redis, consumer, faults>>

Publish(p) ==
    /\ publisher[p].pc = "publish"
    /\ stream' = Append(stream, [event |-> Head(publisher[p].todo), same |-> TRUE])
    /\ publisher' = [publisher EXCEPT ![p].pc = "mark"]
    /\ UNCHANGED <<tables, read, pending, consumer, faults>>

(* mark_published, in a second transaction. *)
Mark(p) ==
    LET e == Head(publisher[p].todo) IN
    /\ publisher[p].pc = "mark"
    /\ IF StillOwns(p, e)
       THEN outbox' = [outbox EXCEPT ![e].published = TRUE] /\ NextEvent(p)
       ELSE GivesUp(p) /\ UNCHANGED outbox
    /\ UNCHANGED <<inbox, log, dead, redis, consumer, faults>>

PublishThenMark(p) == Check(p) \/ Publish(p) \/ Mark(p)

(* The id of an event that was applied comes again with another payload, the  *)
(* same each time.  The ids are UUIDv7, so nobody uses an id before its event. *)
ForeignEntry(e) ==
    /\ faults < MaxFaults /\ e \in inbox
    /\ stream' = Append(stream, [event |-> e, same |-> FALSE])
    /\ faults' = faults + 1
    /\ UNCHANGED <<tables, read, pending, publisher, consumer>>

-----------------------------------------------------------------------------
(* xreadgroup ">": the next entry nobody in the group was handed.  A longer list *)
(* is handled entry by entry too, and an error is raised only after the last.   *)
ReadNew(c) ==
    /\ consumer[c].pc = "idle" /\ read < Len(stream)
    /\ read' = read + 1
    /\ pending' = [n \in DOMAIN pending \cup {read + 1} |->
                     IF n = read + 1 THEN c ELSE pending[n]]
    /\ consumer' = [consumer EXCEPT ![c].pc = "handle", ![c].entry = read + 1]
    /\ UNCHANGED <<tables, stream, publisher, faults>>

(* xautoclaim from the cursor on: the first idle entry at or after it, whoever *)
(* holds it, and the entry to start from next time; at the end, the start.    *)
From(cursor) == {n \in DOMAIN pending : n >= cursor}
ClaimPending(c) ==
    LET rest == From(consumer[c].cursor)
        n == CHOOSE x \in rest : \A z \in rest : x <= z IN
    /\ consumer[c].pc = "idle" /\ rest # {}
    /\ pending' = [pending EXCEPT ![n] = c]
    /\ consumer' = [consumer EXCEPT ![c] =
                      [pc |-> "handle", entry |-> n,
                       cursor |-> IF rest = {n} THEN 0 ELSE n + 1]]
    /\ UNCHANGED <<tables, stream, read, publisher, faults>>

ClaimNothing(c) ==
    /\ consumer[c].pc = "idle" /\ consumer[c].cursor # 0
    /\ From(consumer[c].cursor) = {}
    /\ consumer' = [consumer EXCEPT ![c].cursor = 0]
    /\ UNCHANGED <<tables, redis, publisher, faults>>

Held(c) == stream[consumer[c].entry]
Handled(c) == consumer' = [consumer EXCEPT ![c].pc = "ack"]

(* begin_once: the row is inserted or met; its hash is the event's own. *)
BeginOnce(e) == IF e \in inbox THEN "ALREADY_PROCESSED" ELSE "NEW"

(* Plausible bug: the row is committed in a transaction of its own, and lost. *)
RecordingLater(e) == UNCHANGED inbox
Recording(e) == inbox' = inbox \cup {e}

(* MySqlInboxHandler: inbox row and effect in one transaction. *)
HandleNew(c) ==
    LET e == Held(c).event IN
    /\ consumer[c].pc = "handle" /\ Held(c).same
    /\ BeginOnce(e) = "NEW" /\ e \notin Refused
    /\ Recording(e) /\ log' = Append(log, e) /\ Handled(c)
    /\ UNCHANGED <<outbox, dead, redis, publisher, faults>>

HandleAgain(c) ==
    /\ consumer[c].pc = "handle" /\ Held(c).same
    /\ BeginOnce(Held(c).event) = "ALREADY_PROCESSED"
    /\ Handled(c)
    /\ UNCHANGED <<tables, redis, publisher, faults>>

(* record_payload_conflict: a dead letter, once per event and payload, and a   *)
(* blocking incident.                                                          *)
HandleConflict(c) ==
    LET e == Held(c).event IN
    /\ consumer[c].pc = "handle" /\ ~Held(c).same
    /\ BeginOnce(e) = "ALREADY_PROCESSED" /\ e \notin dead
    /\ dead' = dead \cup {e} /\ Handled(c)
    /\ UNCHANGED <<outbox, inbox, log, redis, publisher, faults>>

(* The effect raises, or the dead letter is there already and the insert does: *)
(* everything is rolled back and the entry stays pending.                      *)
HandleRaises(c) ==
    LET e == Held(c).event IN
    /\ consumer[c].pc = "handle"
    /\ \/ BeginOnce(e) = "NEW" /\ e \in Refused
       \/ BeginOnce(e) = "ALREADY_PROCESSED" /\ ~Held(c).same /\ e \in dead
    /\ consumer' = [consumer EXCEPT ![c] = Waiting(@.cursor)]
    /\ UNCHANGED <<tables, redis, publisher, faults>>

(* Plausible bug: the entry is acknowledged before it is handled. *)
AcknowledgeFirst(c) ==
    /\ consumer[c].pc \in {"handle", "ack"}
    /\ pending' = [n \in DOMAIN pending \ {consumer[c].entry} |-> pending[n]]
    /\ consumer' = [consumer EXCEPT ![c] = IF @.pc = "ack" THEN Waiting(@.cursor) ELSE @]
    /\ UNCHANGED <<tables, stream, read, publisher, faults>>

Acknowledge(c) ==
    /\ consumer[c].pc = "ack"
    /\ pending' = [n \in DOMAIN pending \ {consumer[c].entry} |-> pending[n]]
    /\ consumer' = [consumer EXCEPT ![c] = Waiting(@.cursor)]
    /\ UNCHANGED <<tables, stream, read, publisher, faults>>

-----------------------------------------------------------------------------
CrashPublisher(p) ==
    /\ publisher[p].pc # "idle" /\ faults < MaxFaults
    /\ faults' = faults + 1 /\ GivesUp(p)
    /\ UNCHANGED <<tables, redis, consumer>>

CrashConsumer(c) ==
    /\ consumer[c].pc # "idle" /\ faults < MaxFaults
    /\ faults' = faults + 1
    /\ consumer' = [consumer EXCEPT ![c] = Waiting(0)]
    /\ UNCHANGED <<tables, redis, publisher>>

Batches == {<<e>> : e \in Events} \cup
           {b \in [1 .. Batch -> Events] : IsInjective(b)}

Publishing(p) == (\E b \in Batches : Claim(p, b)) \/ PublishThenMark(p)
Handling(c) ==
    HandleNew(c) \/ HandleAgain(c) \/ HandleConflict(c) \/ HandleRaises(c)
Recovering(c) == ClaimPending(c) \/ ClaimNothing(c)
Consuming(c) == ReadNew(c) \/ Handling(c) \/ Acknowledge(c)

Next ==
    \/ \E e \in Events : Enqueue(e) \/ Expire(e) \/ ForeignEntry(e)
    \/ \E p \in Publishers : Publishing(p) \/ CrashPublisher(p)
    \/ \E c \in Consumers : Consuming(c) \/ Recovering(c) \/ CrashConsumer(c)

(* Whoever owns a publisher or a consumer calls publish_available, consume_new *)
(* and recover_pending again and again, and a minute passes.  The calls take   *)
(* turns: reading new entries keeps recovery from no turn, nor the other way.  *)
Fairness ==
    /\ \A e \in Events : WF_vars(Expire(e))
    /\ \A p \in Publishers : WF_vars(Publishing(p))
    /\ \A c \in Consumers :
         /\ SF_vars(ReadNew(c)) /\ SF_vars(ClaimPending(c)) /\ WF_vars(ClaimNothing(c))
         /\ WF_vars(Handling(c)) /\ WF_vars(Acknowledge(c))

Spec == Init /\ [][Next]_vars /\ Fairness

-----------------------------------------------------------------------------
(* Every table, stream and process has its type. *)
TypeOK ==
    /\ outbox \in [Events -> [written : BOOLEAN, owner : Publishers \cup {Nobody},
                              expired : BOOLEAN, published : BOOLEAN]]
    /\ stream \in Seq([event : Events, same : BOOLEAN]) /\ read \in 0 .. Len(stream)
    /\ DOMAIN pending \subseteq 1 .. read
    /\ \A n \in DOMAIN pending : pending[n] \in Consumers
    /\ \A p \in Publishers : publisher[p].pc \in {"idle", "check", "publish", "mark"}
    /\ \A c \in Consumers : consumer[c].pc \in {"idle", "handle", "ack"}
    /\ inbox \subseteq Events /\ dead \subseteq Events /\ Range(log) \subseteq Events
    /\ faults \in 0 .. MaxFaults

(* An event is never marked published (outbox_dispatcher.py) unless an entry   *)
(* of it is in the stream, whoever published it.                               *)
PublishedIsInStream ==
    \A e \in Events : outbox[e].published =>
        \E n \in DOMAIN stream : stream[n] = [event |-> e, same |-> TRUE]

(* An entry that left the pending list (inbox_consumer.py) was committed: its  *)
(* event has an inbox row, so an acknowledgement never loses an effect.        *)
AcknowledgedIsCommitted ==
    \A n \in 1 .. read : n \notin DOMAIN pending => stream[n].event \in inbox

(* The pipeline implements the log: every event written has its effect, once,  *)
(* through crashes, lapsed claims, copies and redeliveries, and an event whose *)
(* effect raises holds up no other.                                            *)
Log == INSTANCE EventLog WITH written <- Written
ImplementsLog == Log!Spec
=============================================================================
