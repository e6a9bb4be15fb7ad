--------------------------- MODULE DeliveryProofs ---------------------------
(***************************************************************************)
(* Delivery holds for any number of events, publishers and consumers, any  *)
(* batch size and any number of faults.                                    *)
(***************************************************************************)
EXTENDS Delivery, SequenceTheorems, WellFoundedInduction, TLAPS

Entries == [event : Events, same : BOOLEAN]
OutboxRows == [written : BOOLEAN, owner : Publishers \cup {Nobody},
               expired : BOOLEAN, published : BOOLEAN]
PublisherStates == [pc : {"idle", "check", "publish", "mark"}, todo : Seq(Events)]
ConsumerStates == [pc : {"idle", "handle", "ack"}, entry : Nat, cursor : Nat]

(* The types of TypeOK with those of the processes' own variables: a publisher *)
(* at work has an event left, a consumer at work holds an entry it was handed.  *)
Typing ==
    /\ outbox \in [Events -> OutboxRows]
    /\ stream \in Seq(Entries) /\ read \in 0 .. Len(stream)
    /\ DOMAIN pending \subseteq 1 .. read /\ pending \in [DOMAIN pending -> Consumers]
    /\ publisher \in [Publishers -> PublisherStates]
    /\ \A p \in Publishers : publisher[p].pc # "idle" => publisher[p].todo # <<>>
    /\ consumer \in [Consumers -> ConsumerStates]
    /\ \A c \in Consumers : consumer[c].pc # "idle" => consumer[c].entry \in 1 .. read
    /\ inbox \subseteq Events /\ dead \subseteq Events /\ log \in Seq(Events)
    /\ faults \in 0 .. MaxFaults

(* What a step does to the stream, to the group's place in it and to the tables. *)
Streaming ==
    /\ \A n \in DOMAIN stream : n \in DOMAIN stream' /\ stream'[n] = stream[n]
    /\ read \in Nat /\ read' \in Nat /\ read <= read'
    /\ Written \subseteq Written' /\ inbox \subseteq inbox'

(* A consumer about to acknowledge has the row its entry asked for. *)
AckIsCommitted ==
    \A c \in Consumers :
        consumer[c].pc = "ack" => stream[consumer[c].entry].event \in inbox

(* Where the events come from: what a publisher sends, what the stream and the *)
(* inbox hold was written to the outbox, and the log is the inbox in some order *)
(* without repetition.                                                          *)
Provenance ==
    /\ \A p \in Publishers : \A i \in DOMAIN publisher[p].todo :
         publisher[p].todo[i] \in Written
    /\ \A n \in DOMAIN stream : stream[n].event \in Written
    /\ inbox \subseteq Written /\ Range(log) = inbox

(* A publisher about to mark an event has put an entry of it in the stream. *)
Sent(e) == \E n \in DOMAIN stream : stream[n] = [event |-> e, same |-> TRUE]
MarkedIsSent ==
    \A p \in Publishers : publisher[p].pc = "mark" => Sent(Head(publisher[p].todo))

(* An event has one effect. *)
OneEffect == \A i, j \in DOMAIN log : log[i] = log[j] => i = j

-----------------------------------------------------------------------------
(* A nonempty set of naturals has a least element. *)
LEMMA LeastElement ==
    ASSUME NEW S, S \subseteq Nat, S # {}
    PROVE  \E x \in S : \A y \in S : x <= y
<1> DEFINE R == OpToRel(<, Nat)
<1>1. IsWellFoundedOn(R, Nat)
  BY NatLessThanWellFounded
<1>2. \A x, y \in Nat : <<y, x>> \in R <=> y < x
  BY DEF OpToRel
<1> HIDE DEF R
<1>3. PICK x \in S : \A y \in S : ~ (<<y, x>> \in R)
  BY <1>1, WFMin
<1>4. ASSUME NEW y \in S PROVE x <= y
  <2>1. x \in Nat /\ y \in Nat
    OBVIOUS
  <2>2. ~ (y < x)
    BY <1>2, <1>3, <2>1
  <2> QED
    BY <2>1, <2>2
<1> QED
  BY <1>4

(* One publisher moves, and keeps its type. *)
LEMMA PublisherMoves ==
    ASSUME Typing, NEW p \in Publishers, NEW s \in PublisherStates,
           s.pc # "idle" => s.todo # <<>>, publisher' = [publisher EXCEPT ![p] = s]
    PROVE  /\ publisher' \in [Publishers -> PublisherStates]
           /\ \A q \in Publishers : publisher'[q].pc # "idle" => publisher'[q].todo # <<>>
BY DEF Typing

(* So does one consumer: it rests, or it stays with an entry it was handed. *)
LEMMA ConsumerMoves ==
    ASSUME Typing, NEW c \in Consumers, NEW s \in ConsumerStates, NEW k \in Nat,
           read <= k, s.pc # "idle" => s.entry \in 1 .. k,
           consumer' = [consumer EXCEPT ![c] = s]
    PROVE  /\ consumer' \in [Consumers -> ConsumerStates]
           /\ \A d \in Consumers : consumer'[d].pc # "idle" => consumer'[d].entry \in 1 .. k
<1> USE DEF Typing
<1>1. ASSUME NEW d \in Consumers, consumer'[d].pc # "idle"
      PROVE  consumer'[d].entry \in 1 .. k
  <2>1. read \in Nat
    OBVIOUS
  <2>2. CASE d = c
    BY <1>1, <2>2
  <2>3. CASE d # c
    <3>1. consumer'[d] = consumer[d]
      BY <2>3
    <3>2. consumer[d].entry \in 1 .. read
      BY <1>1, <3>1
    <3> QED
      BY <2>1, <3>1, <3>2
  <2> QED
    BY <2>2, <2>3
<1>2. consumer' \in [Consumers -> ConsumerStates]
  OBVIOUS
<1> QED
  BY <1>1, <1>2

(* A consumer that was handed an entry. *)
LEMMA EntryTaken ==
    ASSUME NEW s \in ConsumerStates, NEW n \in Nat
    PROVE  [s EXCEPT !.pc = "handle", !.entry = n] \in ConsumerStates
<1>1. [s EXCEPT !.pc = "handle"] \in ConsumerStates
  BY DEF ConsumerStates
<1>2. ASSUME NEW t \in ConsumerStates PROVE [t EXCEPT !.entry = n] \in ConsumerStates
  BY DEF ConsumerStates
<1> QED
  BY <1>1, <1>2

(* A batch is a sequence of events, no longer than Batch. *)
LEMMA BatchType ==
    ASSUME NEW b \in Batches
    PROVE  b \in Seq(Events)
<1>1. CASE b \in {<<e>> : e \in Events}
  <2>1. PICK e \in Events : b = <<e>>
    BY <1>1
  <2> QED
    BY <2>1
<1>2. CASE b \in [1 .. Batch -> Events]
  BY <1>2, DeliveryAssumption, SeqDef DEF DeliveryAssumption
<1> QED
  BY <1>1, <1>2 DEF Batches

(* What is left of a sequence of several when its first is taken off. *)
LEMMA TailOfMany ==
    ASSUME NEW t \in Seq(Events), t # <<>>, Len(t) # 1
    PROVE  /\ Tail(t) \in Seq(Events) /\ Tail(t) # <<>>
           /\ \A i \in DOMAIN Tail(t) : i + 1 \in DOMAIN t /\ Tail(t)[i] = t[i + 1]
<1>1. Len(t) \in Nat \ {0} /\ DOMAIN t = 1 .. Len(t)
  BY EmptySeq, LenProperties
<1>2. /\ Tail(t) \in Seq(Events) /\ Len(Tail(t)) = Len(t) - 1
      /\ \A i \in 1 .. Len(Tail(t)) : Tail(t)[i] = t[i + 1]
  BY HeadTailProperties
<1>3. DOMAIN Tail(t) = 1 .. Len(Tail(t))
  BY <1>2, LenProperties
<1>4. Tail(t) # <<>>
  <2>1. Len(Tail(t)) # 0
    BY <1>1, <1>2
  <2>2. ASSUME Tail(t) = <<>> PROVE FALSE
    BY <2>1, <2>2
  <2> QED
    BY <2>2
<1> QED
  BY <1>1, <1>2, <1>3, <1>4

(* What is left of a batch when its first event is done. *)
LEMMA RestOfBatch ==
    ASSUME Typing, NEW p \in Publishers, publisher[p].pc # "idle", NextEvent(p)
    PROVE  \E s \in PublisherStates :
             /\ publisher' = [publisher EXCEPT ![p] = s]
             /\ s.pc \in {"idle", "check"} /\ (s.pc # "idle" => s.todo # <<>>)
             /\ \A i \in DOMAIN s.todo : i + 1 \in DOMAIN publisher[p].todo
                                         /\ s.todo[i] = publisher[p].todo[i + 1]
<1> DEFINE todo == publisher[p].todo
<1>1. todo \in Seq(Events) /\ todo # <<>>
  BY DEF Typing, PublisherStates
<1>2. CASE Len(todo) = 1
  <2>1. publisher' = [publisher EXCEPT ![p] = Resting]
    BY <1>2 DEF NextEvent
  <2>2. Resting \in PublisherStates /\ Resting.pc = "idle" /\ DOMAIN Resting.todo = {}
    BY DEF Resting, PublisherStates
  <2> QED
    BY <2>1, <2>2
<1>3. CASE Len(todo) # 1
  <2> DEFINE s == [pc |-> "check", todo |-> Tail(todo)]
  <2>1. publisher' = [publisher EXCEPT ![p] = s]
    BY <1>3 DEF NextEvent
  <2>2. /\ Tail(todo) \in Seq(Events) /\ Tail(todo) # <<>>
        /\ \A i \in DOMAIN Tail(todo) : i + 1 \in DOMAIN todo /\ Tail(todo)[i] = todo[i + 1]
    BY <1>1, <1>3, TailOfMany
  <2>5. s \in PublisherStates /\ s.pc = "check" /\ s.todo = Tail(todo)
    BY <2>2 DEF PublisherStates
  <2> QED
    BY <2>1, <2>2, <2>5
<1> QED
  BY <1>2, <1>3

-----------------------------------------------------------------------------
(* The publisher's steps keep the types. *)
LEMMA PublisherTyping ==
    ASSUME Typing, NEW p \in Publishers, Publishing(p) \/ CrashPublisher(p)
    PROVE  Typing'
<1>1. Resting \in PublisherStates /\ Resting.pc = "idle"
  BY DEF Resting, PublisherStates
<1>2. ASSUME NEW b \in Batches, Claim(p, b) PROVE Typing'
  <2> DEFINE s == [pc |-> "check", todo |-> b]
  <2>1. b \in Seq(Events)
    BY BatchType
  <2>2. b # <<>>
    <3>1. Len(b) # 0
      <4>1. Len(b) \in 1 .. Batch
        BY <1>2 DEF Claim
      <4> QED
        BY <4>1, DeliveryAssumption DEF DeliveryAssumption
    <3>2. ASSUME b = <<>> PROVE FALSE
      BY <3>1, <3>2
    <3> QED
      BY <3>2
  <2>3. s \in PublisherStates /\ s.todo # <<>>
    BY <2>1, <2>2 DEF PublisherStates
  <2>4. publisher' = [publisher EXCEPT ![p] = s]
    BY <1>2 DEF Claim
  <2>5. /\ publisher' \in [Publishers -> PublisherStates]
        /\ \A q \in Publishers : publisher'[q].pc # "idle" => publisher'[q].todo # <<>>
    BY <2>3, <2>4, PublisherMoves
  <2>6. outbox' \in [Events -> OutboxRows]
    <3>1. ASSUME NEW e \in Events
          PROVE  [outbox[e] EXCEPT !.owner = p, !.expired = FALSE] \in OutboxRows
      BY DEF Typing, OutboxRows
    <3> QED
      BY <1>2, <3>1 DEF Claim, Typing
  <2> QED
    BY <1>2, <2>5, <2>6 DEF Claim, Typing, redis
<1>3. CASE Check(p)
  <2>1. ASSUME GivesUp(p)
        PROVE  /\ publisher' \in [Publishers -> PublisherStates]
               /\ \A q \in Publishers : publisher'[q].pc # "idle" => publisher'[q].todo # <<>>
    BY <1>1, <2>1, PublisherMoves DEF GivesUp
  <2>2. ASSUME NextEvent(p)
        PROVE  /\ publisher' \in [Publishers -> PublisherStates]
               /\ \A q \in Publishers : publisher'[q].pc # "idle" => publisher'[q].todo # <<>>
    <3>1. publisher[p].pc # "idle"
      BY <1>3 DEF Check
    <3> QED
      BY <2>2, <3>1, RestOfBatch, PublisherMoves
  <2>3. ASSUME publisher' = [publisher EXCEPT ![p].pc = "publish"]
        PROVE  /\ publisher' \in [Publishers -> PublisherStates]
               /\ \A q \in Publishers : publisher'[q].pc # "idle" => publisher'[q].todo # <<>>
    BY <1>3, <2>3 DEF Check, Typing, PublisherStates
  <2> QED
    BY <1>3, <2>1, <2>2, <2>3 DEF Check, Typing, tables, redis
<1>4. CASE Publish(p)
  <2>1. /\ publisher' \in [Publishers -> PublisherStates]
        /\ \A q \in Publishers : publisher'[q].pc # "idle" => publisher'[q].todo # <<>>
    BY <1>4 DEF Publish, Typing, PublisherStates
  <2>2. Head(publisher[p].todo) \in Events
    BY <1>4, HeadTailProperties DEF Publish, Typing, PublisherStates
  <2>3. stream' \in Seq(Entries) /\ Len(stream') = Len(stream) + 1
    BY <1>4, <2>2, AppendProperties DEF Publish, Typing, Entries
  <2>4. Len(stream) \in Nat
    BY LenProperties DEF Typing
  <2> QED
    BY <1>4, <2>1, <2>3, <2>4 DEF Publish, Typing, tables
<1>5. CASE Mark(p)
  <2>1. publisher[p].pc # "idle"
    BY <1>5 DEF Mark
  <2>2. /\ publisher' \in [Publishers -> PublisherStates]
        /\ \A q \in Publishers : publisher'[q].pc # "idle" => publisher'[q].todo # <<>>
    <3>1. CASE GivesUp(p)
      BY <1>1, <3>1, PublisherMoves DEF GivesUp
    <3>2. CASE NextEvent(p)
      BY <2>1, <3>2, RestOfBatch, PublisherMoves
    <3> QED
      BY <1>5, <3>1, <3>2 DEF Mark
  <2>3. outbox' \in [Events -> OutboxRows]
    <3>1. CASE outbox' = [outbox EXCEPT ![Head(publisher[p].todo)].published = TRUE]
      BY <3>1 DEF Typing, OutboxRows
    <3>2. CASE UNCHANGED outbox
      BY <3>2 DEF Typing
    <3> QED
      BY <1>5, <3>1, <3>2 DEF Mark
  <2> QED
    BY <1>5, <2>2, <2>3 DEF Mark, Typing, redis
<1>6. CASE CrashPublisher(p)
  <2>1. /\ publisher' \in [Publishers -> PublisherStates]
        /\ \A q \in Publishers : publisher'[q].pc # "idle" => publisher'[q].todo # <<>>
    BY <1>1, <1>6, PublisherMoves DEF CrashPublisher, GivesUp
  <2> QED
    BY <1>6, <2>1, DeliveryAssumption DEF CrashPublisher, Typing, tables, redis, DeliveryAssumption
<1> QED
  BY <1>2, <1>3, <1>4, <1>5, <1>6 DEF Publishing, PublishThenMark

(* The consumer's steps keep the types. *)
LEMMA ConsumerTyping ==
    ASSUME Typing, NEW c \in Consumers, Consuming(c) \/ Recovering(c) \/ CrashConsumer(c)
    PROVE  Typing'
<1> DEFINE GoodConsumers(k) ==
      /\ consumer' \in [Consumers -> ConsumerStates]
      /\ \A d \in Consumers : consumer'[d].pc # "idle" => consumer'[d].entry \in 1 .. k
<1>1. read \in Nat /\ read <= read /\ read <= read + 1 /\ Len(stream) \in Nat
  BY LenProperties DEF Typing
<1>2. consumer[c] \in ConsumerStates
  BY DEF Typing
<1>3. ASSUME NEW k \in Nat
      PROVE  Waiting(k) \in ConsumerStates /\ Waiting(k).pc = "idle"
  BY DEF Waiting, ConsumerStates
<1>4. CASE ReadNew(c)
  <2>1. ASSUME NEW d \in Consumers
        PROVE  /\ consumer'[d] \in ConsumerStates
               /\ consumer'[d].pc # "idle" => consumer'[d].entry \in 1 .. read + 1
    <3>1. CASE d = c
      <4>1. /\ consumer'[c].pc = "handle" /\ consumer'[c].entry = read + 1
            /\ consumer'[c] = [consumer[c] EXCEPT !.pc = "handle", !.entry = read + 1]
        BY <1>2, <1>4 DEF ReadNew, Typing, ConsumerStates
      <4>2. consumer'[c] \in ConsumerStates
        <5>1. read + 1 \in Nat
          BY <1>1
        <5> QED
          BY <1>2, <4>1, <5>1, EntryTaken
      <4> QED
        BY <1>1, <3>1, <4>1, <4>2
    <3>2. CASE d # c
      <4>1. consumer'[d] = consumer[d]
        BY <1>4, <3>2 DEF ReadNew, Typing
      <4> QED
        BY <1>1, <4>1 DEF Typing
    <3> QED
      BY <3>1, <3>2
  <2>3. GoodConsumers(read + 1)
    <3>1. consumer' \in [Consumers -> ConsumerStates]
      BY <1>4, <2>1 DEF ReadNew, Typing
    <3> QED
      BY <2>1, <3>1
  <2>4. DOMAIN pending' \subseteq 1 .. read' /\ pending' \in [DOMAIN pending' -> Consumers]
    BY <1>1, <1>4 DEF ReadNew, Typing
  <2> QED
    BY <1>1, <1>4, <2>3, <2>4 DEF ReadNew, Typing, tables
<1>5. CASE ClaimPending(c)
  <2> DEFINE rest == From(consumer[c].cursor)
             n == CHOOSE x \in rest : \A z \in rest : x <= z
             s == [pc |-> "handle", entry |-> n, cursor |-> IF rest = {n} THEN 0 ELSE n + 1]
  <2>1. n \in 1 .. read
    <3>1. rest \subseteq Nat /\ rest # {} /\ rest \subseteq 1 .. read
      BY <1>5 DEF ClaimPending, From, Typing
    <3>2. \E x \in rest : \A z \in rest : x <= z
      BY <3>1, LeastElement
    <3> QED
      BY <3>1, <3>2
  <2>2. s \in ConsumerStates /\ s.entry \in 1 .. read
    BY <1>1, <2>1 DEF ConsumerStates
  <2>3. consumer' = [consumer EXCEPT ![c] = s]
    BY <1>5 DEF ClaimPending
  <2>4. GoodConsumers(read)
    BY <1>1, <2>2, <2>3, ConsumerMoves
  <2>5. DOMAIN pending' \subseteq 1 .. read /\ pending' \in [DOMAIN pending' -> Consumers]
    BY <1>5 DEF ClaimPending, Typing
  <2> QED
    BY <1>5, <2>4, <2>5 DEF ClaimPending, Typing, tables
<1>6. CASE ClaimNothing(c)
  <2>1. GoodConsumers(read)
    BY <1>1, <1>6 DEF ClaimNothing, Typing, ConsumerStates
  <2> QED
    BY <1>6, <2>1 DEF ClaimNothing, Typing, tables, redis
<1>7. CASE HandleNew(c) \/ HandleAgain(c) \/ HandleConflict(c)
  <2>1. consumer[c].pc = "handle" /\ consumer' = [consumer EXCEPT ![c].pc = "ack"]
    BY <1>7 DEF HandleNew, HandleAgain, HandleConflict, Handled
  <2>2. GoodConsumers(read)
    BY <1>1, <2>1 DEF Typing, ConsumerStates
  <2>3. Held(c).event \in Events
    <3>1. consumer[c].entry \in 1 .. Len(stream)
      BY <1>1, <2>1 DEF Typing
    <3>2. Held(c) \in Entries
      BY <3>1, ElementOfSeq DEF Typing, Held
    <3> QED
      BY <3>2 DEF Entries
  <2>4. /\ inbox' \subseteq Events /\ dead' \subseteq Events /\ log' \in Seq(Events)
        /\ UNCHANGED <<outbox, redis, publisher, faults>>
    <3>1. Append(log, Held(c).event) \in Seq(Events)
      BY <2>3, AppendProperties DEF Typing
    <3> QED
      BY <1>7, <2>3, <3>1 DEF HandleNew, HandleAgain, HandleConflict, Recording, Typing, tables
  <2> QED
    BY <2>2, <2>4 DEF Typing, redis
<1>8. CASE HandleRaises(c)
  <2>1. consumer[c].cursor \in Nat
    BY <1>2 DEF ConsumerStates
  <2>2. consumer' = [consumer EXCEPT ![c] = Waiting(consumer[c].cursor)]
    BY <1>8 DEF HandleRaises
  <2>3. GoodConsumers(read)
    BY <1>1, <1>3, <2>1, <2>2, ConsumerMoves
  <2> QED
    BY <1>8, <2>3 DEF HandleRaises, Typing, tables, redis
<1>9. CASE Acknowledge(c)
  <2>1. consumer[c].cursor \in Nat
    BY <1>2 DEF ConsumerStates
  <2>2. consumer' = [consumer EXCEPT ![c] = Waiting(consumer[c].cursor)]
    BY <1>9 DEF Acknowledge
  <2>3. GoodConsumers(read)
    BY <1>1, <1>3, <2>1, <2>2, ConsumerMoves
  <2>4. DOMAIN pending' \subseteq 1 .. read /\ pending' \in [DOMAIN pending' -> Consumers]
    BY <1>9 DEF Acknowledge, Typing
  <2> QED
    BY <1>9, <2>3, <2>4 DEF Acknowledge, Typing, tables
<1>10. CASE CrashConsumer(c)
  <2>1. GoodConsumers(read)
    BY <1>1, <1>3, <1>10, ConsumerMoves DEF CrashConsumer
  <2> QED
    BY <1>10, <2>1, DeliveryAssumption DEF CrashConsumer, Typing, tables, redis, DeliveryAssumption
<1> QED
  BY <1>4, <1>5, <1>6, <1>7, <1>8, <1>9, <1>10 DEF Consuming, Recovering, Handling

(* The types hold (outbox.py, outbox_dispatcher.py, inbox.py, inbox_consumer.py *)
(* write nothing else).                                                        *)
LEMMA TypingAlways == Spec => []Typing
<1>1. Init => Typing
  <2>1. Resting \in PublisherStates /\ Resting.pc = "idle"
    BY DEF Resting, PublisherStates
  <2>2. Waiting(0) \in ConsumerStates /\ Waiting(0).pc = "idle"
    BY DEF Waiting, ConsumerStates
  <2>3. NoRow \in OutboxRows
    BY DEF NoRow, OutboxRows
  <2> QED
    BY <2>1, <2>2, <2>3, EmptySeq, DeliveryAssumption DEF Init, Typing, DeliveryAssumption
<1>2. Typing /\ [Next]_vars => Typing'
  <2> SUFFICES ASSUME Typing, [Next]_vars PROVE Typing'
    OBVIOUS
  <2>1. ASSUME NEW e \in Events, Enqueue(e) PROVE Typing'
    BY <2>1 DEF Enqueue, Typing, OutboxRows, redis
  <2>2. ASSUME NEW e \in Events, Expire(e) PROVE Typing'
    <3>1. outbox' \in [Events -> OutboxRows]
      BY <2>2 DEF Expire, Typing, OutboxRows
    <3>2. faults' \in 0 .. MaxFaults
      BY <2>2, DeliveryAssumption DEF Expire, Typing, DeliveryAssumption
    <3> QED
      BY <2>2, <3>1, <3>2 DEF Expire, Typing, redis
  <2>3. ASSUME NEW e \in Events, ForeignEntry(e) PROVE Typing'
    <3>1. stream' \in Seq(Entries) /\ Len(stream') = Len(stream) + 1 /\ Len(stream) \in Nat
      BY <2>3, AppendProperties, LenProperties DEF ForeignEntry, Typing, Entries
    <3> QED
      BY <2>3, <3>1, DeliveryAssumption DEF ForeignEntry, Typing, tables, DeliveryAssumption
  <2>4. ASSUME NEW p \in Publishers, Publishing(p) \/ CrashPublisher(p) PROVE Typing'
    BY <2>4, PublisherTyping
  <2>5. ASSUME NEW c \in Consumers, Consuming(c) \/ Recovering(c) \/ CrashConsumer(c)
        PROVE  Typing'
    BY <2>5, ConsumerTyping
  <2>6. CASE UNCHANGED vars
    BY <2>6 DEF vars, Typing, tables, redis
  <2> QED
    BY <2>1, <2>2, <2>3, <2>4, <2>5, <2>6 DEF Next
<1> QED
  BY <1>1, <1>2, PTL DEF Spec

(* The variables have their types, for any number of everything. *)
THEOREM TypeCorrect == Spec => []TypeOK
<1>1. Typing => TypeOK
  BY DEF Typing, TypeOK, OutboxRows, Entries, PublisherStates, ConsumerStates, Range
<1> QED
  BY <1>1, TypingAlways, PTL

-----------------------------------------------------------------------------
(* An entry that is in the stream stays what it is, the group only reads on,   *)
(* and neither an outbox row nor an inbox row is taken back.                   *)
LEMMA StreamGrows ==
    ASSUME Typing, [Next]_vars
    PROVE  Streaming
<1>1. Len(stream) \in Nat /\ DOMAIN stream = 1 .. Len(stream) /\ read \in Nat
  BY LenProperties DEF Typing
<1>2. ASSUME NEW x \in Entries, stream' = Append(stream, x)
      PROVE  \A n \in DOMAIN stream : n \in DOMAIN stream' /\ stream'[n] = stream[n]
  <2>1. /\ stream' \in Seq(Entries) /\ Len(stream') = Len(stream) + 1
        /\ \A n \in 1 .. Len(stream) : stream'[n] = stream[n]
    BY <1>2, AppendProperties DEF Typing
  <2>2. DOMAIN stream' = 1 .. Len(stream')
    BY <2>1, LenProperties
  <2> QED
    BY <1>1, <2>1, <2>2
<1>3. ASSUME NEW e \in Events, Enqueue(e) PROVE Streaming
  BY <1>1, <1>3 DEF Enqueue, Streaming, Written, redis, Typing, OutboxRows
<1>4. ASSUME NEW e \in Events, Expire(e) PROVE Streaming
  BY <1>1, <1>4 DEF Expire, Streaming, Written, redis, Typing, OutboxRows
<1>5. ASSUME NEW e \in Events, ForeignEntry(e) PROVE Streaming
  <2>1. [event |-> e, same |-> FALSE] \in Entries
    BY DEF Entries
  <2> QED
    BY <1>1, <1>2, <1>5, <2>1 DEF ForeignEntry, Streaming, Written, tables
<1>6. ASSUME NEW p \in Publishers, NEW b \in Batches, Claim(p, b) PROVE Streaming
  <2>1. Written \subseteq Written'
    BY <1>6 DEF Claim, Written, Typing, OutboxRows
  <2> QED
    <3>1. UNCHANGED <<stream, read, inbox>>
      BY <1>6 DEF Claim, redis
    <3> QED
      BY <1>1, <2>1, <3>1 DEF Streaming
<1>7. ASSUME NEW p \in Publishers, Check(p) \/ CrashPublisher(p) PROVE Streaming
  BY <1>1, <1>7 DEF Check, CrashPublisher, Streaming, Written, tables, redis
<1>8. ASSUME NEW p \in Publishers, Publish(p) PROVE Streaming
  <2>1. Head(publisher[p].todo) \in Events
    BY <1>8, HeadTailProperties DEF Publish, Typing, PublisherStates
  <2>2. [event |-> Head(publisher[p].todo), same |-> TRUE] \in Entries
    BY <2>1 DEF Entries
  <2> QED
    BY <1>1, <1>2, <1>8, <2>2 DEF Publish, Streaming, Written, tables
<1>9. ASSUME NEW p \in Publishers, Mark(p) PROVE Streaming
  <2>1. Written \subseteq Written'
    <3>1. CASE outbox' = [outbox EXCEPT ![Head(publisher[p].todo)].published = TRUE]
      BY <3>1 DEF Written, Typing, OutboxRows
    <3>2. CASE UNCHANGED outbox
      BY <3>2 DEF Written
    <3> QED
      BY <1>9, <3>1, <3>2 DEF Mark
  <2> QED
    BY <1>1, <1>9, <2>1 DEF Mark, Streaming, redis
<1>10. ASSUME NEW c \in Consumers, Consuming(c) \/ Recovering(c) \/ CrashConsumer(c)
       PROVE  Streaming
  <2>1. UNCHANGED <<outbox, stream>> /\ read' \in {read, read + 1} /\ inbox \subseteq inbox'
    BY <1>10 DEF Consuming, Recovering, Handling, ReadNew, ClaimPending, ClaimNothing,
       HandleNew, HandleAgain, HandleConflict, HandleRaises, Recording, Acknowledge,
       CrashConsumer, tables, redis
  <2> QED
    BY <1>1, <2>1 DEF Streaming, Written
<1>11. CASE UNCHANGED vars
  BY <1>1, <1>11 DEF vars, tables, redis, Streaming, Written
<1> QED
  BY <1>3, <1>4, <1>5, <1>6, <1>7, <1>8, <1>9, <1>10, <1>11
     DEF Next, Publishing, PublishThenMark

Acked == AckIsCommitted /\ AcknowledgedIsCommitted

(* A step that leaves the group and its consumers alone keeps what they did. *)
LEMMA GroupAtRest ==
    ASSUME Typing, Acked, Streaming, UNCHANGED <<read, pending, consumer>>
    PROVE  Acked'
<1>1. DOMAIN stream = 1 .. Len(stream) /\ Len(stream) \in Nat /\ read \in 0 .. Len(stream)
  BY LenProperties DEF Typing
<1>2. \A n \in 1 .. read : stream'[n] = stream[n]
  BY <1>1 DEF Streaming
<1>3. AckIsCommitted'
  BY <1>2 DEF Acked, AckIsCommitted, Typing, Streaming
<1>4. AcknowledgedIsCommitted'
  BY <1>2 DEF Acked, AcknowledgedIsCommitted, Streaming
<1> QED
  BY <1>3, <1>4 DEF Acked

(* A consumer's step: what it takes out of the pending list has its row. *)
LEMMA ConsumerAcks ==
    ASSUME Typing, Acked, NEW c \in Consumers,
           Consuming(c) \/ Recovering(c) \/ CrashConsumer(c)
    PROVE  Acked'
<1>1. /\ consumer[c] \in ConsumerStates /\ consumer \in [Consumers -> ConsumerStates]
      /\ read \in Nat
  BY LenProperties DEF Typing
<1>2. CASE ReadNew(c)
  <2>1. consumer'[c].pc = "handle" /\ \A d \in Consumers \ {c} : consumer'[d] = consumer[d]
    BY <1>1, <1>2 DEF ReadNew, ConsumerStates
  <2>2. AckIsCommitted'
    <3>1. UNCHANGED <<stream, inbox>>
      BY <1>2 DEF ReadNew, tables
    <3> QED
      BY <2>1, <3>1 DEF Acked, AckIsCommitted
  <2>3. AcknowledgedIsCommitted'
    BY <1>1, <1>2 DEF ReadNew, Acked, AcknowledgedIsCommitted, tables
  <2> QED
    BY <2>2, <2>3 DEF Acked
<1>3. CASE Recovering(c) \/ CrashConsumer(c) \/ HandleRaises(c)
  <2>1. /\ consumer'[c].pc # "ack" /\ \A d \in Consumers \ {c} : consumer'[d] = consumer[d]
        /\ DOMAIN pending' = DOMAIN pending
        /\ UNCHANGED <<stream, inbox, read>>
    BY <1>1, <1>3 DEF Recovering, ClaimPending, ClaimNothing, CrashConsumer, HandleRaises,
       Waiting, tables, redis, ConsumerStates
  <2> QED
    BY <2>1 DEF Acked, AckIsCommitted, AcknowledgedIsCommitted
<1>4. CASE HandleNew(c) \/ HandleAgain(c) \/ HandleConflict(c)
  <2>1. /\ Held(c).event \in inbox' /\ inbox \subseteq inbox'
        /\ UNCHANGED <<stream, read, pending>>
        /\ consumer'[c].entry = consumer[c].entry
        /\ \A d \in Consumers \ {c} : consumer'[d] = consumer[d]
    BY <1>1, <1>4 DEF HandleNew, HandleAgain, HandleConflict, BeginOnce, Recording,
       Handled, redis, tables, ConsumerStates
  <2> QED
    BY <2>1 DEF Acked, AckIsCommitted, AcknowledgedIsCommitted, Held
<1>5. CASE Acknowledge(c)
  <2>1. /\ consumer'[c].pc = "idle" /\ \A d \in Consumers \ {c} : consumer'[d] = consumer[d]
        /\ DOMAIN pending' = DOMAIN pending \ {consumer[c].entry}
        /\ UNCHANGED <<stream, inbox, read>> /\ consumer[c].pc = "ack"
    BY <1>1, <1>5 DEF Acknowledge, Waiting, tables
  <2> QED
    BY <2>1 DEF Acked, AckIsCommitted, AcknowledgedIsCommitted
<1> QED
  BY <1>2, <1>3, <1>4, <1>5 DEF Consuming, Handling

(* An entry that left the pending list (inbox_consumer.py) was committed, for  *)
(* any number of consumers, deaths and redeliveries.                           *)
THEOREM AcknowledgedIsCommittedAlways == Spec => []AcknowledgedIsCommitted
<1>1. Init => Acked
  BY DEF Init, Acked, AckIsCommitted, AcknowledgedIsCommitted, Waiting
<1>2. Typing /\ Acked /\ [Next]_vars => Acked'
  <2> SUFFICES ASSUME Typing, Acked, [Next]_vars PROVE Acked'
    OBVIOUS
  <2>1. Streaming
    BY StreamGrows
  <2>2. ASSUME NEW e \in Events, Enqueue(e) \/ Expire(e) \/ ForeignEntry(e) PROVE Acked'
    <3>1. UNCHANGED <<read, pending, consumer>>
      BY <2>2 DEF Enqueue, Expire, ForeignEntry, redis
    <3> QED
      BY <2>1, <3>1, GroupAtRest
  <2>3. ASSUME NEW p \in Publishers, Publishing(p) \/ CrashPublisher(p) PROVE Acked'
    <3>1. UNCHANGED <<read, pending, consumer>>
      BY <2>3 DEF Publishing, PublishThenMark, Claim, Check, Publish, Mark, CrashPublisher, redis
    <3> QED
      BY <2>1, <3>1, GroupAtRest
  <2>4. ASSUME NEW c \in Consumers, Consuming(c) \/ Recovering(c) \/ CrashConsumer(c)
        PROVE  Acked'
    BY <2>4, ConsumerAcks
  <2>5. CASE UNCHANGED vars
    BY <2>1, <2>5, GroupAtRest DEF vars, redis
  <2> QED
    BY <2>2, <2>3, <2>4, <2>5 DEF Next
<1>3. Acked => AcknowledgedIsCommitted
  BY DEF Acked
<1> QED
  BY <1>1, <1>2, <1>3, TypingAlways, PTL DEF Spec

-----------------------------------------------------------------------------
(* The elements of a sequence and of what is appended to it. *)
LEMMA RangeOfAppend ==
    ASSUME NEW S, NEW t \in Seq(S), NEW x \in S
    PROVE  Range(Append(t, x)) = Range(t) \cup {x}
<1>1. DOMAIN t = 1 .. Len(t) /\ Len(t) \in Nat
  BY LenProperties
<1>2. /\ Append(t, x) \in Seq(S) /\ Len(Append(t, x)) = Len(t) + 1
      /\ \A i \in 1 .. Len(t) : Append(t, x)[i] = t[i]
      /\ Append(t, x)[Len(t) + 1] = x
  BY AppendProperties
<1>3. DOMAIN Append(t, x) = 1 .. Len(t) + 1
  BY <1>1
<1>4. ASSUME NEW y \in Range(Append(t, x)) PROVE y \in Range(t) \cup {x}
  <2>1. PICK i \in 1 .. Len(t) + 1 : y = Append(t, x)[i]
    BY <1>3, <1>4 DEF Range
  <2>2. CASE i = Len(t) + 1
    BY <1>2, <2>1, <2>2
  <2>3. CASE i # Len(t) + 1
    <3>1. i \in 1 .. Len(t)
      BY <1>1, <2>1, <2>3
    <3> QED
      BY <1>1, <1>2, <2>1, <3>1 DEF Range
  <2> QED
    BY <2>2, <2>3
<1>5. ASSUME NEW y \in Range(t) PROVE y \in Range(Append(t, x))
  <2>1. PICK i \in 1 .. Len(t) : y = t[i]
    BY <1>1, <1>5 DEF Range
  <2>2. i \in 1 .. Len(t) + 1 /\ y = Append(t, x)[i]
    BY <1>1, <1>2, <2>1
  <2> QED
    BY <1>3, <2>2 DEF Range
<1>6. x \in Range(Append(t, x))
  <2>1. Len(t) + 1 \in 1 .. Len(t) + 1
    BY <1>1
  <2> QED
    BY <1>2, <1>3, <2>1 DEF Range
<1> QED
  BY <1>4, <1>5, <1>6

(* What the abstract log sees of a step: an event written, an effect of an     *)
(* event that had none, or nothing.                                            *)
LEMMA WhatTheLogSees ==
    ASSUME Typing, Provenance, [Next]_vars
    PROVE  \/ \E e \in Events : /\ e \notin Written /\ Written' = Written \cup {e}
                                /\ UNCHANGED <<log, inbox>>
           \/ \E e \in Events : /\ e \in Written \ (inbox \cup Refused)
                                /\ inbox' = inbox \cup {e} /\ log' = Append(log, e)
                                /\ UNCHANGED Written
           \/ UNCHANGED <<Written, log, inbox>>
<1>1. ASSUME NEW e \in Events, Enqueue(e)
      PROVE  /\ e \notin Written /\ Written' = Written \cup {e}
             /\ UNCHANGED <<log, inbox>>
  BY <1>1 DEF Enqueue, Written, Typing, OutboxRows
<1>2. ASSUME NEW e \in Events, Expire(e) PROVE UNCHANGED <<Written, log, inbox>>
  BY <1>2 DEF Expire, Written, Typing, OutboxRows
<1>3. ASSUME NEW p \in Publishers, NEW b \in Batches, Claim(p, b)
      PROVE  UNCHANGED <<Written, log, inbox>>
  <2>1. \A e \in Events : outbox'[e].written = outbox[e].written
    BY <1>3 DEF Claim, Typing, OutboxRows
  <2>2. UNCHANGED <<log, inbox>>
    BY <1>3 DEF Claim
  <2> QED
    BY <2>1, <2>2 DEF Written
<1>4. ASSUME NEW p \in Publishers, Mark(p) PROVE UNCHANGED <<Written, log, inbox>>
  <2>1. CASE outbox' = [outbox EXCEPT ![Head(publisher[p].todo)].published = TRUE]
    BY <1>4, <2>1 DEF Mark, Written, Typing, OutboxRows
  <2>2. CASE UNCHANGED outbox
    BY <1>4, <2>2 DEF Mark, Written
  <2> QED
    BY <1>4, <2>1, <2>2 DEF Mark
<1>5. ASSUME NEW c \in Consumers, HandleNew(c)
      PROVE  \E e \in Events : /\ e \in Written \ (inbox \cup Refused)
                               /\ inbox' = inbox \cup {e} /\ log' = Append(log, e)
                               /\ UNCHANGED Written
  <2> DEFINE e == Held(c).event
  <2>1. e \in Written
    <3>1. consumer[c].entry \in DOMAIN stream
      BY <1>5, LenProperties DEF HandleNew, Typing
    <3> QED
      BY <3>1 DEF Provenance, Held
  <2>2. e \notin inbox /\ e \notin Refused
    BY <1>5 DEF HandleNew, BeginOnce
  <2>3. inbox' = inbox \cup {e} /\ log' = Append(log, e) /\ UNCHANGED Written
    BY <1>5 DEF HandleNew, Recording, Written
  <2>4. e \in Events
    BY <2>1 DEF Written
  <2> HIDE DEF e
  <2> QED
    BY <2>1, <2>2, <2>3, <2>4
<1>6. ASSUME \/ \E e \in Events : ForeignEntry(e)
             \/ \E p \in Publishers : Check(p) \/ Publish(p) \/ CrashPublisher(p)
             \/ \E c \in Consumers : \/ ReadNew(c) \/ HandleAgain(c) \/ HandleConflict(c)
                                     \/ HandleRaises(c) \/ Acknowledge(c)
                                     \/ Recovering(c) \/ CrashConsumer(c)
             \/ UNCHANGED vars
      PROVE  UNCHANGED <<Written, log, inbox>>
  BY <1>6 DEF ForeignEntry, Check, Publish, CrashPublisher, ReadNew, HandleAgain,
     HandleConflict, HandleRaises, Acknowledge, Recovering, ClaimPending, ClaimNothing,
     CrashConsumer, vars, tables, Written
<1> QED
  BY <1>1, <1>2, <1>3, <1>4, <1>5, <1>6
     DEF Next, Publishing, PublishThenMark, Consuming, Handling

(* Where the events come from stays true. *)
LEMMA ProvenanceKept ==
    ASSUME Typing, Provenance, [Next]_vars
    PROVE  Provenance'
<1> DEFINE Batched == \A p \in Publishers : \A i \in DOMAIN publisher[p].todo :
                         publisher[p].todo[i] \in Written
           Streamed == \A n \in DOMAIN stream : stream[n].event \in Written
<1>1. Batched /\ Streamed /\ Written \subseteq Written'
  BY StreamGrows DEF Provenance, Streaming
<1>2. inbox' \subseteq Written' /\ Range(log') = inbox'
  <2>1. CASE UNCHANGED <<log, inbox>>
    BY <1>1, <2>1 DEF Provenance
  <2>2. CASE \E e \in Events : /\ e \in Written \ (inbox \cup Refused)
                               /\ inbox' = inbox \cup {e} /\ log' = Append(log, e)
                               /\ UNCHANGED Written
    BY <2>2, RangeOfAppend DEF Provenance, Typing
  <2> QED
    BY <2>1, <2>2, WhatTheLogSees
<1>3. ASSUME UNCHANGED publisher PROVE Batched'
  BY <1>1, <1>3
<1>4. ASSUME UNCHANGED stream PROVE Streamed'
  BY <1>1, <1>4
<1>5. ASSUME NEW e \in Written, NEW same \in BOOLEAN,
             stream' = Append(stream, [event |-> e, same |-> same])
      PROVE  Streamed'
  <2>1. [event |-> e, same |-> same] \in Entries
    BY DEF Entries, Written
  <2>2. /\ stream' \in Seq(Entries) /\ Len(stream') = Len(stream) + 1
        /\ \A n \in 1 .. Len(stream) : stream'[n] = stream[n]
        /\ stream'[Len(stream) + 1] = [event |-> e, same |-> same]
    BY <1>5, <2>1, AppendProperties DEF Typing
  <2>3. DOMAIN stream = 1 .. Len(stream) /\ Len(stream) \in Nat /\ DOMAIN stream' = 1 .. Len(stream')
    BY <2>2, LenProperties DEF Typing
  <2>4. ASSUME NEW n \in DOMAIN stream' PROVE stream'[n].event \in Written'
    <3>1. CASE n = Len(stream) + 1
      BY <1>1, <2>2, <3>1
    <3>2. CASE n # Len(stream) + 1
      <4>1. n \in DOMAIN stream
        BY <2>2, <2>3, <2>4, <3>2
      <4> QED
        BY <1>1, <2>2, <2>3, <4>1
    <3> QED
      BY <3>1, <3>2
  <2> QED
    BY <2>4
<1>6. ASSUME NEW p \in Publishers, NEW s \in PublisherStates,
             publisher' = [publisher EXCEPT ![p] = s],
             \A i \in DOMAIN s.todo : s.todo[i] \in Written
      PROVE  Batched'
  BY <1>1, <1>6 DEF Typing
<1>7. Resting \in PublisherStates /\ DOMAIN Resting.todo = {}
  BY DEF Resting, PublisherStates
<1>8. ASSUME NEW p \in Publishers, GivesUp(p) PROVE Batched'
  BY <1>6, <1>7, <1>8 DEF GivesUp
<1>9. ASSUME NEW p \in Publishers, publisher[p].pc # "idle", NextEvent(p) PROVE Batched'
  <2>1. PICK s \in PublisherStates :
          /\ publisher' = [publisher EXCEPT ![p] = s]
          /\ \A i \in DOMAIN s.todo : i + 1 \in DOMAIN publisher[p].todo
                                      /\ s.todo[i] = publisher[p].todo[i + 1]
    BY <1>9, RestOfBatch
  <2> QED
    BY <1>1, <1>6, <2>1
<1>10. ASSUME NEW p \in Publishers, NEW pc \in {"publish", "mark"},
              publisher' = [publisher EXCEPT ![p].pc = pc]
       PROVE  Batched'
  <2>1. \A q \in Publishers : publisher'[q].todo = publisher[q].todo
    BY <1>10 DEF Typing, PublisherStates
  <2> QED
    BY <1>1, <2>1
<1>11. ASSUME NEW e \in Events, Enqueue(e) \/ Expire(e) \/ ForeignEntry(e)
       PROVE  Batched' /\ Streamed'
  <2>1. CASE Enqueue(e) \/ Expire(e)
    BY <1>3, <1>4, <2>1 DEF Enqueue, Expire, redis
  <2>2. CASE ForeignEntry(e)
    BY <1>3, <1>5, <2>2 DEF ForeignEntry, Provenance
  <2> QED
    BY <1>11, <2>1, <2>2
<1>12. ASSUME NEW p \in Publishers, Publishing(p) \/ CrashPublisher(p)
       PROVE  Batched' /\ Streamed'
  <2>1. ASSUME NEW b \in Batches, Claim(p, b) PROVE Batched' /\ Streamed'
    <3>1. b \in Seq(Events) /\ publisher' = [publisher EXCEPT ![p] = [pc |-> "check", todo |-> b]]
      BY <2>1, BatchType DEF Claim
    <3>2. [pc |-> "check", todo |-> b] \in PublisherStates
      BY <3>1 DEF PublisherStates
    <3>3. ASSUME NEW i \in DOMAIN b PROVE b[i] \in Written
      <4>1. outbox[b[i]].written
        BY <2>1, <3>3 DEF Claim, Claimable
      <4>2. b[i] \in Events
        BY <3>1, <3>3, ElementOfSeq, LenProperties
      <4> QED
        BY <4>1, <4>2 DEF Written
    <3> QED
      BY <1>4, <1>6, <2>1, <3>1, <3>2, <3>3 DEF Claim, redis
  <2>2. CASE Check(p)
    BY <1>4, <1>8, <1>9, <1>10, <2>2 DEF Check, redis
  <2>3. CASE Publish(p)
    <3>1. Head(publisher[p].todo) \in Written
      <4>1. publisher[p].todo \in Seq(Events) /\ publisher[p].todo # <<>>
        BY <2>3 DEF Publish, Typing, PublisherStates
      <4>2. 1 \in DOMAIN publisher[p].todo /\ Head(publisher[p].todo) = publisher[p].todo[1]
        BY <4>1, EmptySeq, LenProperties
      <4> QED
        BY <1>1, <4>2
    <3> QED
      BY <1>5, <1>10, <2>3, <3>1 DEF Publish
  <2>4. CASE Mark(p)
    BY <1>4, <1>8, <1>9, <2>4 DEF Mark, redis
  <2>5. CASE CrashPublisher(p)
    BY <1>4, <1>8, <2>5 DEF CrashPublisher, redis
  <2> QED
    BY <1>12, <2>1, <2>2, <2>3, <2>4, <2>5 DEF Publishing, PublishThenMark
<1>13. ASSUME NEW c \in Consumers, Consuming(c) \/ Recovering(c) \/ CrashConsumer(c)
       PROVE  Batched' /\ Streamed'
  <2>1. UNCHANGED <<publisher, stream>>
    BY <1>13 DEF Consuming, Recovering, Handling, ReadNew, ClaimPending, ClaimNothing,
       HandleNew, HandleAgain, HandleConflict, HandleRaises, Acknowledge, CrashConsumer, redis
  <2> QED
    BY <1>3, <1>4, <2>1
<1>14. ASSUME UNCHANGED vars PROVE Batched' /\ Streamed'
  <2>1. UNCHANGED <<publisher, stream>>
    BY <1>14 DEF vars, redis
  <2> QED
    BY <1>3, <1>4, <2>1
<1>15. Batched' /\ Streamed'
  <2> HIDE DEF Batched, Streamed
  <2> QED
    BY <1>11, <1>12, <1>13, <1>14 DEF Next
<1> QED
  BY <1>2, <1>15 DEF Provenance

LEMMA ProvenanceAlways == Spec => []Provenance
<1>1. Init => Provenance
  BY DEF Init, Provenance, Written, NoRow, Resting, Range
<1>2. Typing /\ Provenance /\ [Next]_vars => Provenance'
  BY ProvenanceKept
<1> QED
  BY <1>1, <1>2, TypingAlways, PTL DEF Spec

(* The pipeline (outbox.py to inbox_consumer.py) refines the log, step by      *)
(* step: each of its steps writes an event, has the effect of an event that    *)
(* was written and had none, or is one the log does not see.                   *)
THEOREM StepsImplementLog == Spec => Log!Init /\ [][Log!Next]_<<Written, log>>
<1>1. Init => Log!Init
  BY DEF Init, Log!Init, Written, NoRow
<1>2. Typing /\ Provenance /\ [Next]_vars => [Log!Next]_<<Written, log>>
  <2> SUFFICES ASSUME Typing, Provenance, [Next]_vars PROVE [Log!Next]_<<Written, log>>
    OBVIOUS
  <2>1. ASSUME NEW e \in Events, e \notin Written, Written' = Written \cup {e},
               UNCHANGED <<log, inbox>>
        PROVE  Log!Next
    BY <2>1 DEF Log!Next, Log!Write
  <2>2. ASSUME NEW e \in Events, e \in Written \ (inbox \cup Refused),
               inbox' = inbox \cup {e}, log' = Append(log, e), UNCHANGED Written
        PROVE  Log!Next
    BY <2>2 DEF Log!Next, Log!Effect, Log!Range, Range, Provenance
  <2> QED
    BY <2>1, <2>2, WhatTheLogSees
<1> QED
  BY <1>1, <1>2, TypingAlways, ProvenanceAlways, PTL DEF Spec

(* No event has its effect twice (inbox.py, begin_once, in the transaction of  *)
(* the effect), however often it is published, redelivered or claimed again.   *)
THEOREM OneEffectAlways == Spec => []OneEffect
<1>1. Init => OneEffect
  BY DEF Init, OneEffect
<1>2. Typing /\ Provenance /\ OneEffect /\ [Next]_vars => OneEffect'
  <2> SUFFICES ASSUME Typing, Provenance, OneEffect, [Next]_vars PROVE OneEffect'
    OBVIOUS
  <2>1. CASE UNCHANGED log
    BY <2>1 DEF OneEffect
  <2>2. ASSUME NEW e \in Events, e \notin inbox, log' = Append(log, e) PROVE OneEffect'
    <3>1. DOMAIN log = 1 .. Len(log) /\ Len(log) \in Nat
      BY LenProperties DEF Typing
    <3>2. /\ log' \in Seq(Events) /\ Len(log') = Len(log) + 1
          /\ \A i \in 1 .. Len(log) : log'[i] = log[i]
          /\ log'[Len(log) + 1] = e
      BY <2>2, AppendProperties DEF Typing
    <3>3. DOMAIN log' = 1 .. Len(log) + 1
      BY <3>2, LenProperties
    <3>4. \A i \in 1 .. Len(log) : log'[i] # e
      BY <2>2, <3>1, <3>2 DEF Provenance, Range
    <3>5. ASSUME NEW i \in 1 .. Len(log) + 1, NEW j \in 1 .. Len(log) + 1, log'[i] = log'[j]
          PROVE  i = j
      <4>1. CASE i \in 1 .. Len(log) /\ j \in 1 .. Len(log)
        BY <3>1, <3>2, <3>5, <4>1 DEF OneEffect
      <4>2. CASE i = Len(log) + 1 \/ j = Len(log) + 1
        <5>1. i \in 1 .. Len(log) \/ i = Len(log) + 1
          BY <3>1
        <5>2. j \in 1 .. Len(log) \/ j = Len(log) + 1
          BY <3>1
        <5> QED
          BY <3>2, <3>4, <3>5, <4>2, <5>1, <5>2
      <4> QED
        BY <3>1, <4>1, <4>2
    <3> QED
      BY <3>3, <3>5 DEF OneEffect
  <2> QED
    BY <2>1, <2>2, WhatTheLogSees
<1> QED
  BY <1>1, <1>2, TypingAlways, ProvenanceAlways, PTL DEF Spec

-----------------------------------------------------------------------------
Published == MarkedIsSent /\ PublishedIsInStream

(* What was sent stays sent. *)
LEMMA SentStays ==
    ASSUME Streaming, NEW e, Sent(e)
    PROVE  Sent(e)'
<1>1. PICK n \in DOMAIN stream : stream[n] = [event |-> e, same |-> TRUE]
  BY DEF Sent
<1>2. n \in DOMAIN stream' /\ stream'[n] = [event |-> e, same |-> TRUE]
  BY <1>1 DEF Streaming
<1> QED
  BY <1>2 DEF Sent

(* A step that marks no event and leaves the publishers alone, or lets one of  *)
(* them do something other than send.                                          *)
LEMMA NothingMarked ==
    ASSUME Typing, Published, Streaming,
           \A e \in Events : outbox'[e].published => outbox[e].published,
           \A p \in Publishers : publisher'[p].pc = "mark" => publisher'[p] = publisher[p]
    PROVE  Published'
<1>1. MarkedIsSent'
  <2> SUFFICES ASSUME NEW p \in Publishers, publisher'[p].pc = "mark"
               PROVE  \E n \in DOMAIN stream' :
                        stream'[n] = [event |-> Head(publisher'[p].todo), same |-> TRUE]
    BY DEF MarkedIsSent, Sent
  <2>1. publisher'[p] = publisher[p] /\ Sent(Head(publisher[p].todo))
    BY DEF Published, MarkedIsSent
  <2>2. PICK n \in DOMAIN stream :
          stream[n] = [event |-> Head(publisher[p].todo), same |-> TRUE]
    BY <2>1 DEF Sent
  <2> QED
    BY <2>1, <2>2 DEF Streaming
<1>2. PublishedIsInStream'
  BY SentStays DEF Published, PublishedIsInStream, Sent
<1> QED
  BY <1>1, <1>2 DEF Published

(* A publisher that goes on to its next event marks nothing yet. *)
LEMMA PublisherGoesOn ==
    ASSUME Typing, NEW p \in Publishers, publisher[p].pc # "idle",
           \/ GivesUp(p) \/ NextEvent(p)
           \/ publisher' = [publisher EXCEPT ![p].pc = "publish"]
    PROVE  \A q \in Publishers : publisher'[q].pc = "mark" => publisher'[q] = publisher[q]
<1>1. CASE GivesUp(p)
  BY <1>1 DEF GivesUp, Resting, Typing
<1>2. CASE NextEvent(p)
  <2>1. PICK s \in PublisherStates :
          publisher' = [publisher EXCEPT ![p] = s] /\ s.pc \in {"idle", "check"}
    BY <1>2, RestOfBatch
  <2> QED
    BY <2>1 DEF Typing
<1>3. CASE publisher' = [publisher EXCEPT ![p].pc = "publish"]
  BY <1>3 DEF Typing, PublisherStates
<1> QED
  BY <1>1, <1>2, <1>3

(* An event is never marked published (outbox_dispatcher.py) unless an entry   *)
(* of it is in the stream, for any number of publishers and deaths.            *)
THEOREM PublishedIsInStreamAlways == Spec => []PublishedIsInStream
<1>1. Init => Published
  BY DEF Init, Published, MarkedIsSent, PublishedIsInStream, NoRow, Resting
<1>2. Typing /\ Published /\ [Next]_vars => Published'
  <2> SUFFICES ASSUME Typing, Published, [Next]_vars PROVE Published'
    OBVIOUS
  <2>1. Streaming
    BY StreamGrows
  <2>2. ASSUME NEW e \in Events, Enqueue(e) \/ Expire(e) \/ ForeignEntry(e) PROVE Published'
    <3>1. UNCHANGED publisher /\ \A x \in Events : outbox'[x].published => outbox[x].published
      BY <2>2 DEF Enqueue, Expire, ForeignEntry, tables, Typing, OutboxRows
    <3> QED
      BY <2>1, <3>1, NothingMarked
  <2>3. ASSUME NEW p \in Publishers, NEW b \in Batches, Claim(p, b) PROVE Published'
    <3>1. \A x \in Events : outbox'[x].published => outbox[x].published
      BY <2>3 DEF Claim, Typing, OutboxRows
    <3>2. \A q \in Publishers : publisher'[q].pc = "mark" => publisher'[q] = publisher[q]
      BY <2>3 DEF Claim, Typing
    <3> QED
      BY <2>1, <3>1, <3>2, NothingMarked
  <2>4. ASSUME NEW p \in Publishers, Check(p) \/ CrashPublisher(p) PROVE Published'
    <3>1. \A q \in Publishers : publisher'[q].pc = "mark" => publisher'[q] = publisher[q]
      BY <2>4, PublisherGoesOn DEF Check, CrashPublisher
    <3>2. UNCHANGED outbox
      BY <2>4 DEF Check, CrashPublisher, tables
    <3> QED
      BY <2>1, <3>1, <3>2, NothingMarked
  <2>5. ASSUME NEW p \in Publishers, Publish(p) PROVE Published'
    <3> DEFINE x == [event |-> Head(publisher[p].todo), same |-> TRUE]
    <3>1. x \in Entries
      BY <2>5, HeadTailProperties DEF Publish, Typing, PublisherStates, Entries
    <3>2. Len(stream) + 1 \in DOMAIN stream' /\ stream'[Len(stream) + 1] = x
      BY <2>5, <3>1, AppendProperties, LenProperties DEF Publish, Typing
    <3>3. /\ publisher'[p].todo = publisher[p].todo
          /\ \A q \in Publishers \ {p} : publisher'[q] = publisher[q]
      BY <2>5 DEF Publish, Typing, PublisherStates
    <3>4. MarkedIsSent'
      <4> SUFFICES ASSUME NEW q \in Publishers, publisher'[q].pc = "mark"
                   PROVE  \E n \in DOMAIN stream' :
                            stream'[n] = [event |-> Head(publisher'[q].todo), same |-> TRUE]
        BY DEF MarkedIsSent, Sent
      <4>1. CASE q = p
        BY <3>2, <3>3, <4>1
      <4>2. CASE q # p
        <5>1. publisher'[q] = publisher[q] /\ Sent(Head(publisher[q].todo))
          BY <3>3, <4>2 DEF Published, MarkedIsSent
        <5>2. PICK n \in DOMAIN stream :
                stream[n] = [event |-> Head(publisher[q].todo), same |-> TRUE]
          BY <5>1 DEF Sent
        <5> QED
          BY <2>1, <5>1, <5>2 DEF Streaming
      <4> QED
        BY <4>1, <4>2
    <3>5. PublishedIsInStream'
      <4>1. UNCHANGED outbox
        BY <2>5 DEF Publish, tables
      <4> QED
        BY <2>1, <4>1 DEF Published, PublishedIsInStream, Streaming
    <3> QED
      BY <3>4, <3>5 DEF Published
  <2>6. ASSUME NEW p \in Publishers, Mark(p) PROVE Published'
    <3> DEFINE e == Head(publisher[p].todo)
    <3>1. publisher[p].pc = "mark" /\ UNCHANGED stream /\ Sent(e)
      BY <2>6 DEF Mark, redis, Published, MarkedIsSent
    <3>2. \A q \in Publishers : publisher'[q].pc = "mark" => publisher'[q] = publisher[q]
      BY <2>6, <3>1, PublisherGoesOn DEF Mark
    <3>3. \A x \in Events : outbox'[x].published => outbox[x].published \/ x = e
      <4>1. CASE outbox' = [outbox EXCEPT ![e].published = TRUE]
        BY <4>1 DEF Typing, OutboxRows
      <4>2. CASE UNCHANGED outbox
        BY <4>2
      <4> QED
        BY <2>6, <4>1, <4>2 DEF Mark
    <3>4. MarkedIsSent'
      BY <3>1, <3>2 DEF Published, MarkedIsSent, Sent
    <3>5. PublishedIsInStream'
      BY <3>1, <3>3 DEF Published, PublishedIsInStream, Sent
    <3> QED
      BY <3>4, <3>5 DEF Published
  <2>7. ASSUME NEW c \in Consumers, Consuming(c) \/ Recovering(c) \/ CrashConsumer(c)
        PROVE  Published'
    <3>1. UNCHANGED <<publisher, outbox>>
      BY <2>7 DEF Consuming, Recovering, Handling, ReadNew, ClaimPending, ClaimNothing,
         HandleNew, HandleAgain, HandleConflict, HandleRaises, Acknowledge, CrashConsumer, tables
    <3> QED
      BY <2>1, <3>1, NothingMarked
  <2>8. CASE UNCHANGED vars
    <3>1. UNCHANGED <<publisher, outbox>>
      BY <2>8 DEF vars, tables
    <3> QED
      BY <2>1, <3>1, NothingMarked
  <2> QED
    BY <2>2, <2>3, <2>4, <2>5, <2>6, <2>7, <2>8 DEF Next, Publishing, PublishThenMark
<1>3. Published => PublishedIsInStream
  BY DEF Published
<1> QED
  BY <1>1, <1>2, <1>3, TypingAlways, PTL DEF Spec

=============================================================================
