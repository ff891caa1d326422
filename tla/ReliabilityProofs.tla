--------------------------- MODULE ReliabilityProofs ---------------------------
(***************************************************************************)
(* The outbox, the queues and the inbox implement the link the services    *)
(* rely on, for any events, outbox workers, deliveries and retries.        *)
(***************************************************************************)
EXTENDS Reliability, TLAPS

(* Where a delivery is still going to run the operation, or to hand a copy *)
(* on, and where it can still erase the row of the inbox.                  *)
Unfinished == Phases \ {"ack"}

Erasing == {"run", "mark", "erase"}

(* Applied or given up.                                                    *)
Settled(e) == e \in applied \/ e \in dead

(* Somebody still has a copy of the event to deal with.                    *)
Owed(e) ==
  \/ \E copy \in ready : copy.event = e
  \/ \E c \in Consumers : WorksOn(c, e, Unfinished)

-------------------------------------------------------------------------------
(* The parts of the inductive invariant.                                   *)

(* Before its commit an event is nowhere.                                  *)
UncommittedIsNowhere ==
  \A e \in Ids : outbox[e] = "NONE" =>
    /\ inbox[e] = "NONE" /\ e \notin applied /\ e \notin dead
    /\ \A p \in Publishers : ~Touches(p, e)
    /\ \A copy \in ready : copy.event # e
    /\ \A c \in Consumers : ~WorksOn(c, e, Phases)

(* What RabbitMQ has confirmed is not forgotten before it is settled.      *)
ConfirmedIsOwed ==
  \A e \in Ids :
    \/ outbox[e] = "PUBLISHED"
    \/ \E p \in Publishers : e \in publisher[p].event /\ publisher[p].sent
    => Settled(e) \/ Owed(e)

(* The inbox says PROCESSED only after the operation.                      *)
ProcessedIsApplied ==
  /\ \A e \in Ids : inbox[e] = "PROCESSED" => e \in applied
  /\ \A c \in Consumers : At(c, "mark") => EventOf(c) \in applied

(* A copy that has been tried n times has failed n times.                  *)
TriesHaveFailed ==
  /\ \A copy \in ready : failures[copy.event] >= copy.tries
  /\ \A c \in Consumers : job[c] # NoJob =>
       /\ failures[EventOf(c)] >= job[c].copy.tries
       /\ job[c].phase \in {"erase", "retry"} => failures[EventOf(c)] > job[c].copy.tries

LinkInv ==
  /\ TypeOK /\ UncommittedIsNowhere /\ ConfirmedIsOwed /\ ProcessedIsApplied
  /\ TriesHaveFailed /\ DeadWasRetried

-------------------------------------------------------------------------------
LEMMA LinkInvInit == Init => LinkInv
<1> SUFFICES ASSUME Init PROVE LinkInv
  OBVIOUS
<1> USE ReliabilityAssumption DEF Init
<1>1. TypeOK  BY DEF TypeOK, Idle
<1>2. UncommittedIsNowhere
  BY DEF UncommittedIsNowhere, Touches, Idle, WorksOn
<1>3. ConfirmedIsOwed  BY DEF ConfirmedIsOwed, Idle
<1>4. ProcessedIsApplied  BY DEF ProcessedIsApplied, At, NoJob
<1>5. TriesHaveFailed /\ DeadWasRetried  BY DEF TriesHaveFailed, DeadWasRetried
<1>6. QED  BY <1>1, <1>2, <1>3, <1>4, <1>5 DEF LinkInv

-------------------------------------------------------------------------------
(* The sending service changes nothing that the receiving one looks at.    *)
LEMMA SenderKeeps ==
  ASSUME LinkInv, UNCHANGED consumerVars, TypeOK',
         \A copy \in ready' : copy \in ready \/ copy.tries = 0
  PROVE  ProcessedIsApplied' /\ TriesHaveFailed' /\ DeadWasRetried'
<1> USE DEF LinkInv, consumerVars
<1>1. ProcessedIsApplied'  BY DEF ProcessedIsApplied, At, EventOf
<1>2. TriesHaveFailed'
  <2>1. \A copy \in ready' : failures[copy.event] \in Nat
    BY DEF TypeOK, Copies
  <2>2. QED  BY <2>1 DEF TriesHaveFailed, EventOf
<1>3. DeadWasRetried'  BY DEF DeadWasRetried
<1>4. QED  BY <1>1, <1>2, <1>3

LEMMA EmitInv == ASSUME LinkInv, NEW e \in Ids, Emit(e) PROVE LinkInv'
<1> USE DEF LinkInv, Emit, consumerVars
<1>1. TypeOK'  BY DEF TypeOK
<1>2. UncommittedIsNowhere'
  BY DEF UncommittedIsNowhere, TypeOK, Touches, WorksOn, EventOf
<1>3. ConfirmedIsOwed'
  BY DEF ConfirmedIsOwed, TypeOK, Settled, Owed, WorksOn, EventOf
<1>4. QED  BY <1>1, <1>2, <1>3, SenderKeeps

LEMMA PollInv == ASSUME LinkInv, NEW p \in Publishers, Poll(p) PROVE LinkInv'
<1> USE DEF LinkInv, Poll, consumerVars
<1>1. PICK due \in SUBSET {e \in Ids : outbox[e] = "PENDING"} :
        publisher' = [publisher EXCEPT ![p].batch = due]
  OBVIOUS
<1>2. \A q \in Publishers :
        /\ publisher'[q].event = publisher[q].event
        /\ publisher'[q].sent = publisher[q].sent
        /\ publisher'[q].batch \in {publisher[q].batch, due}
  BY <1>1 DEF TypeOK
<1>3. TypeOK'  BY <1>1 DEF TypeOK
<1>4. UncommittedIsNowhere'
  BY <1>2 DEF UncommittedIsNowhere, Touches, WorksOn, EventOf
<1>5. ConfirmedIsOwed'
  BY <1>2 DEF ConfirmedIsOwed, Settled, Owed, WorksOn, EventOf
<1>6. QED  BY <1>3, <1>4, <1>5, SenderKeeps

LEMMA PublishInv ==
  ASSUME LinkInv, NEW p \in Publishers, NEW e \in Ids, Publish(p, e)
  PROVE  LinkInv'
<1> USE ReliabilityAssumption DEF LinkInv, Publish, consumerVars
<1> DEFINE copy == [event |-> e, tries |-> 0]
<1>1. PICK sent \in BOOLEAN :
        /\ publisher' = [publisher EXCEPT ![p] =
             [batch |-> publisher[p].batch \ {e}, event |-> {e}, sent |-> sent]]
        /\ ready' \in {ready \cup {copy}, ready}
        /\ sent => ready' = ready \cup {copy}
  OBVIOUS
<1>2. copy \in Copies /\ copy.event = e /\ copy.tries = 0  BY DEF Copies
<1>3. publisher'[p].event = {e} /\ publisher'[p].sent = sent
      /\ publisher'[p].batch \subseteq publisher[p].batch
  BY <1>1 DEF TypeOK
<1>4. \A q \in Publishers \ {p} : publisher'[q] = publisher[q]
  BY <1>1 DEF TypeOK
<1> HIDE DEF copy
<1>5. TypeOK'
  <2>1. [batch |-> publisher[p].batch \ {e}, event |-> {e}, sent |-> sent]
          \in [batch : SUBSET Ids, event : SUBSET Ids, sent : BOOLEAN]
    BY DEF TypeOK
  <2>2. publisher' \in
          [Publishers -> [batch : SUBSET Ids, event : SUBSET Ids, sent : BOOLEAN]]
    BY <1>1, <2>1 DEF TypeOK
  <2>3. ready' \subseteq Copies  BY <1>1, <1>2 DEF TypeOK
  <2>4. QED  BY <2>2, <2>3 DEF TypeOK
<1>6. outbox[e] # "NONE"
  BY DEF UncommittedIsNowhere, Touches
<1>7. UncommittedIsNowhere'
  BY <1>1, <1>2, <1>3, <1>4, <1>6 DEF UncommittedIsNowhere, Touches, WorksOn, EventOf
<1>8. ConfirmedIsOwed'
  <2> SUFFICES ASSUME NEW f \in Ids,
                      \/ outbox'[f] = "PUBLISHED"
                      \/ \E q \in Publishers : f \in publisher'[q].event /\ publisher'[q].sent
               PROVE  Settled(f)' \/ Owed(f)'
    BY DEF ConfirmedIsOwed
  <2>1. Settled(f) \/ Owed(f) => Settled(f)' \/ Owed(f)'
    BY <1>1 DEF Settled, Owed, WorksOn, EventOf
  <2>2. CASE f = e /\ sent  BY <1>1, <1>2, <2>2 DEF Owed
  <2>3. CASE ~(f = e /\ sent)  BY <1>3, <1>4, <2>1, <2>3 DEF ConfirmedIsOwed
  <2>4. QED  BY <2>2, <2>3
<1>9. QED  BY <1>1, <1>2, <1>5, <1>7, <1>8, SenderKeeps

(* A worker that has come to the end of a row, or of itself.               *)
LEMMA SaveRowInv == ASSUME LinkInv, NEW p \in Publishers, SaveRow(p) PROVE LinkInv'
<1> USE DEF LinkInv, SaveRow, consumerVars
<1>1. publisher'[p] = [batch |-> publisher[p].batch, event |-> {}, sent |-> FALSE]
  BY DEF TypeOK
<1>2. \A q \in Publishers \ {p} : publisher'[q] = publisher[q]
  BY DEF TypeOK
<1>3. TypeOK'
  <2>1. publisher' \in
          [Publishers -> [batch : SUBSET Ids, event : SUBSET Ids, sent : BOOLEAN]]
    BY DEF TypeOK
  <2>2. outbox' \in [Ids -> {"NONE", "PENDING", "PUBLISHED"}]  BY DEF TypeOK
  <2>3. QED  BY <2>1, <2>2 DEF TypeOK
<1>4. \A e \in Ids :
        /\ outbox'[e] = "NONE" => outbox[e] = "NONE"
        /\ outbox'[e] = "PUBLISHED" =>
             outbox[e] = "PUBLISHED" \/ (e \in publisher[p].event /\ publisher[p].sent)
  OBVIOUS
<1>5. UncommittedIsNowhere'
  BY <1>1, <1>2, <1>4 DEF UncommittedIsNowhere, Touches, WorksOn, EventOf
<1>6. ConfirmedIsOwed'
  <2> SUFFICES ASSUME NEW f \in Ids,
                      \/ outbox'[f] = "PUBLISHED"
                      \/ \E q \in Publishers : f \in publisher'[q].event /\ publisher'[q].sent
               PROVE  Settled(f)' \/ Owed(f)'
    BY DEF ConfirmedIsOwed
  <2>1. Settled(f) \/ Owed(f)  BY <1>1, <1>2, <1>4 DEF ConfirmedIsOwed
  <2>2. QED  BY <2>1 DEF Settled, Owed, WorksOn, EventOf
<1>7. QED  BY <1>3, <1>5, <1>6, SenderKeeps

LEMMA AbortFlushInv == ASSUME LinkInv, NEW p \in Publishers, AbortFlush(p) PROVE LinkInv'
<1> USE DEF LinkInv, AbortFlush, consumerVars
<1>1. publisher'[p] = Idle /\ \A q \in Publishers \ {p} : publisher'[q] = publisher[q]
  BY DEF TypeOK
<1>2. TypeOK'  BY DEF TypeOK, Idle
<1>3. UncommittedIsNowhere'
  BY <1>1 DEF UncommittedIsNowhere, Touches, WorksOn, EventOf, Idle
<1>4. ConfirmedIsOwed'
  BY <1>1 DEF ConfirmedIsOwed, Settled, Owed, WorksOn, EventOf, Idle
<1>5. QED  BY <1>2, <1>3, <1>4, SenderKeeps

-------------------------------------------------------------------------------
(* A step of a delivery is about one event.                                *)
OnlyAbout(c, e) ==
  /\ UNCHANGED <<outbox, publisher>>
  /\ \A f \in Ids \ {e} :
       /\ inbox'[f] = inbox[f] /\ failures'[f] = failures[f]
       /\ f \in applied' <=> f \in applied
       /\ f \in dead' <=> f \in dead
  /\ \A copy \in Copies : copy.event # e => (copy \in ready' <=> copy \in ready)
  /\ \A d \in Consumers \ {c} : job'[d] = job[d]
  /\ job[c] # NoJob => EventOf(c) = e
  /\ job'[c] # NoJob => EventOf(c)' = e

LEMMA OneEvent ==
  ASSUME LinkInv, TypeOK', NEW c \in Consumers, NEW e \in Ids, outbox[e] # "NONE",
         OnlyAbout(c, e),
         Settled(e) \/ Owed(e) => Settled(e)' \/ Owed(e)',
         e \in applied => e \in applied',
         inbox'[e] = "PROCESSED" \/ At(c, "mark")' => e \in applied',
         failures'[e] >= failures[e],
         \A copy \in ready' \ ready : failures'[e] >= copy.tries,
         job'[c] # NoJob =>
           /\ failures'[e] >= job'[c].copy.tries
           /\ job'[c].phase \in {"erase", "retry"} => failures'[e] > job'[c].copy.tries,
         e \in dead' => failures'[e] = MaxRetries + 1
  PROVE  LinkInv'
<1> USE DEF LinkInv, OnlyAbout
<1>1. UncommittedIsNowhere'
  BY DEF UncommittedIsNowhere, Touches, WorksOn, EventOf, TypeOK
<1>2. ConfirmedIsOwed'
  <2> SUFFICES ASSUME NEW f \in Ids \ {e},
                      \/ outbox[f] = "PUBLISHED"
                      \/ \E q \in Publishers : f \in publisher[q].event /\ publisher[q].sent
               PROVE  Settled(f)' \/ Owed(f)'
    BY DEF ConfirmedIsOwed
  <2>1. Settled(f) \/ Owed(f)  BY DEF ConfirmedIsOwed
  <2>2. Settled(f) => Settled(f)'  BY DEF Settled
  <2>3. ASSUME NEW copy \in ready, copy.event = f PROVE Owed(f)'
    BY <2>3 DEF Owed, TypeOK
  <2>4. ASSUME NEW d \in Consumers, WorksOn(d, f, Unfinished) PROVE Owed(f)'
    BY <2>4 DEF Owed, WorksOn, EventOf
  <2>5. QED  BY <2>1, <2>2, <2>3, <2>4 DEF Owed
<1>3. \A f \in Ids : failures[f] \in Nat /\ failures'[f] \in Nat
  BY DEF TypeOK
<1>4. \A d \in Consumers : job[d] # NoJob => EventOf(d) \in Ids /\ job[d].copy.tries \in Nat
  BY DEF TypeOK, EventOf, Jobs, Copies
<1>5. ProcessedIsApplied'
  <2>1. \A f \in Ids : inbox'[f] = "PROCESSED" => f \in applied'
    BY DEF ProcessedIsApplied
  <2>2. ASSUME NEW d \in Consumers \ {c}, job'[d].phase = "mark"
        PROVE  EventOf(d)' \in applied'
    <3>1. At(d, "mark") /\ EventOf(d)' = EventOf(d) /\ job[d] # NoJob
      BY <2>2 DEF At, EventOf, NoJob
    <3>2. EventOf(d) \in Ids /\ EventOf(d) \in applied
      BY <1>4, <3>1 DEF ProcessedIsApplied
    <3>3. CASE EventOf(d) = e  BY <1>3, <3>1, <3>2, <3>3
    <3>4. CASE EventOf(d) # e  BY <3>1, <3>2, <3>4
    <3>5. QED  BY <3>3, <3>4
  <2>3. job'[c].phase = "mark" => EventOf(c)' \in applied'
    BY DEF At, NoJob
  <2>4. QED  BY <2>1, <2>2, <2>3 DEF ProcessedIsApplied, At
<1>6. TriesHaveFailed'
  <2>1. ASSUME NEW copy \in ready' PROVE failures'[copy.event] >= copy.tries
    <3>1. copy \in Copies /\ copy.event \in Ids /\ copy.tries \in Nat
      BY DEF TypeOK, Copies
    <3>2. CASE copy \in ready
      <4>1. failures[copy.event] >= copy.tries  BY <3>2 DEF TriesHaveFailed
      <4>2. CASE copy.event = e  BY <1>3, <3>1, <4>1, <4>2
      <4>3. CASE copy.event # e  BY <3>1, <4>1, <4>3
      <4>4. QED  BY <4>2, <4>3
    <3>3. CASE copy \notin ready
      <4>1. copy.event = e  BY <3>1, <3>3
      <4>2. QED  BY <3>3, <4>1
    <3>4. QED  BY <3>2, <3>3
  <2>2. ASSUME NEW d \in Consumers, job'[d] # NoJob
        PROVE  /\ failures'[EventOf(d)'] >= job'[d].copy.tries
               /\ job'[d].phase \in {"erase", "retry"} =>
                    failures'[EventOf(d)'] > job'[d].copy.tries
    <3>1. CASE d = c  BY <2>2, <3>1
    <3>2. CASE d # c
      <4>1. job'[d] = job[d] /\ EventOf(d)' = EventOf(d) /\ job[d] # NoJob
        BY <2>2, <3>2 DEF EventOf
      <4>2. /\ failures[EventOf(d)] >= job[d].copy.tries
            /\ job[d].phase \in {"erase", "retry"} =>
                 failures[EventOf(d)] > job[d].copy.tries
        BY <4>1 DEF TriesHaveFailed
      <4>3. CASE EventOf(d) = e  BY <1>3, <1>4, <4>1, <4>2, <4>3
      <4>4. CASE EventOf(d) # e  BY <1>4, <4>1, <4>2, <4>4
      <4>5. QED  BY <4>3, <4>4
    <3>3. QED  BY <3>1, <3>2
  <2>3. QED  BY <2>1, <2>2 DEF TriesHaveFailed
<1>7. DeadWasRetried'  BY DEF DeadWasRetried, TypeOK
<1>8. QED  BY <1>1, <1>2, <1>5, <1>6, <1>7

-------------------------------------------------------------------------------
LEMMA JobFacts ==
  ASSUME TypeOK, NEW c \in Consumers, job[c] # NoJob
  PROVE  /\ job[c] \in Jobs /\ job[c].copy \in Copies /\ job[c].phase \in Phases
         /\ EventOf(c) \in Ids /\ job[c].copy.event = EventOf(c)
         /\ job[c].copy.tries \in 0..MaxRetries /\ job[c].copy.tries \in Nat
BY ReliabilityAssumption DEF TypeOK, Jobs, Copies, EventOf

LEMMA JobsMove ==
  ASSUME TypeOK, NEW c \in Consumers, job[c] # NoJob, NEW phase \in Phases, Goto(c, phase)
  PROVE  /\ job' \in [Consumers -> Jobs \cup {NoJob}]
         /\ job'[c] = [phase |-> phase, copy |-> job[c].copy]
         /\ job'[c] # NoJob
         /\ \A d \in Consumers \ {c} : job'[d] = job[d]
<1>1. job[c] \in Jobs /\ job[c].copy \in Copies  BY JobFacts
<1>2. [job[c] EXCEPT !.phase = phase] = [phase |-> phase, copy |-> job[c].copy]
  BY <1>1 DEF Jobs
<1>3. job' = [job EXCEPT ![c] = [phase |-> phase, copy |-> job[c].copy]]
  BY <1>2 DEF Goto
<1>4. [phase |-> phase, copy |-> job[c].copy] \in Jobs  BY <1>1 DEF Jobs
<1>5. phase # "none"  BY DEF Phases
<1>6. job'[c] = [phase |-> phase, copy |-> job[c].copy]  BY <1>3 DEF TypeOK
<1>7. job'[c] # NoJob  BY <1>5, <1>6 DEF NoJob
<1>8. QED  BY <1>3, <1>4, <1>6, <1>7 DEF TypeOK

LEMMA WorkedOnIsCommitted ==
  ASSUME LinkInv, NEW c \in Consumers, job[c] # NoJob
  PROVE  outbox[EventOf(c)] # "NONE"
BY JobFacts DEF LinkInv, UncommittedIsNowhere, WorksOn

(* The steps of a delivery that only look at the inbox.                    *)
LEMMA LookingInv ==
  ASSUME LinkInv, NEW c \in Consumers, NEW e \in Ids, e = EventOf(c), job[c] # NoJob,
         NEW phase \in {"insert", "run", "recheck", "ack"}, Goto(c, phase),
         ~At(c, "ack"),
         phase = "ack" => e \in applied,
         inbox' \in {inbox, [inbox EXCEPT ![e] = "PROCESSING"]},
         UNCHANGED <<outbox, publisher, ready, dead, applied, failures>>
  PROVE  LinkInv' /\ OnlyAbout(c, e)
<1> USE DEF LinkInv
<1>1. phase \in Phases  BY DEF Phases
<1>2. /\ job' \in [Consumers -> Jobs \cup {NoJob}]
      /\ job'[c] = [phase |-> phase, copy |-> job[c].copy]
      /\ job'[c] # NoJob
      /\ \A d \in Consumers \ {c} : job'[d] = job[d]
  BY <1>1, JobsMove
<1>3. TypeOK'  BY <1>2 DEF TypeOK
<1>4. EventOf(c)' = e /\ job'[c].copy = job[c].copy /\ job'[c].phase = phase
  BY <1>2 DEF EventOf
<1>5. OnlyAbout(c, e)  BY <1>2, <1>4 DEF OnlyAbout, TypeOK
<1>6. Settled(e) \/ Owed(e) => Settled(e)' \/ Owed(e)'
  <2>1. CASE phase = "ack"  BY <2>1 DEF Settled
  <2>2. CASE phase # "ack"
    <3>1. WorksOn(c, e, Unfinished)'
      BY <1>1, <1>2, <1>4, <2>2 DEF WorksOn, Unfinished
    <3>2. QED  BY <3>1 DEF Owed
  <2>3. QED  BY <2>1, <2>2
<1>7. inbox'[e] = "PROCESSED" \/ At(c, "mark")' => e \in applied'
  BY <1>4 DEF TypeOK, ProcessedIsApplied, At
<1>8. failures'[e] >= job'[c].copy.tries
  BY <1>4 DEF TriesHaveFailed
<1>9. failures[e] \in Nat  BY DEF TypeOK
<1>10. QED
  BY <1>3, <1>4, <1>5, <1>6, <1>7, <1>8, <1>9, OneEvent, WorkedOnIsCommitted
     DEF DeadWasRetried

(* The operation, and what the inbox and the failures say after it.        *)
LEMMA WorkingInv ==
  ASSUME LinkInv, NEW c \in Consumers, NEW e \in Ids, e = EventOf(c), job[c] # NoJob,
         NEW phase \in {"mark", "erase", "retry", "ack"}, Goto(c, phase),
         inbox' \in [Ids -> {"NONE", "PROCESSING", "PROCESSED"}],
         applied' \subseteq Ids,
         failures' \in [Ids -> 0..(MaxRetries + 1)],
         \A f \in Ids \ {e} :
           /\ inbox'[f] = inbox[f] /\ failures'[f] = failures[f]
           /\ f \in applied' <=> f \in applied,
         e \in applied => e \in applied',
         inbox'[e] = "PROCESSED" \/ phase \in {"mark", "ack"} => e \in applied',
         failures'[e] >= failures[e],
         phase \in {"erase", "retry"} => failures'[e] > job[c].copy.tries,
         UNCHANGED <<outbox, publisher, ready, dead>>
  PROVE  LinkInv' /\ OnlyAbout(c, e)
<1> USE DEF LinkInv
<1>1. phase \in Phases  BY DEF Phases
<1>2. /\ job' \in [Consumers -> Jobs \cup {NoJob}]
      /\ job'[c] = [phase |-> phase, copy |-> job[c].copy]
      /\ job'[c] # NoJob
      /\ \A d \in Consumers \ {c} : job'[d] = job[d]
  BY <1>1, JobsMove
<1>3. TypeOK'  BY <1>2 DEF TypeOK
<1>4. EventOf(c)' = e /\ job'[c].copy = job[c].copy /\ job'[c].phase = phase
  BY <1>2 DEF EventOf
<1>5. OnlyAbout(c, e)  BY <1>2, <1>4 DEF OnlyAbout
<1>6. Settled(e) \/ Owed(e) => Settled(e)' \/ Owed(e)'
  <2>1. CASE phase \in {"mark", "ack"}  BY <2>1 DEF Settled
  <2>2. CASE phase \in {"erase", "retry"}
    <3>1. WorksOn(c, e, Unfinished)'
      BY <1>1, <1>2, <1>4, <2>2 DEF WorksOn, Unfinished
    <3>2. QED  BY <3>1 DEF Owed
  <2>3. QED  BY <2>1, <2>2
<1>7. inbox'[e] = "PROCESSED" \/ At(c, "mark")' => e \in applied'
  BY <1>4 DEF At
<1>8. failures[e] \in Nat /\ failures'[e] \in 0..(MaxRetries + 1)
  BY DEF TypeOK
<1>9. failures[e] >= job[c].copy.tries /\ job[c].copy.tries \in Nat
  BY JobFacts DEF TriesHaveFailed
<1>10. failures'[e] >= job'[c].copy.tries
  BY <1>4, <1>8, <1>9, ReliabilityAssumption
<1>11. e \in dead' => failures'[e] = MaxRetries + 1
  BY <1>8, ReliabilityAssumption DEF DeadWasRetried
<1>12. QED
  BY <1>3, <1>4, <1>5, <1>6, <1>7, <1>10, <1>11, OneEvent, WorkedOnIsCommitted

LEMMA ReceiverInv ==
  ASSUME LinkInv, NEW c \in Consumers, NEW e \in Ids, e = EventOf(c), job[c] # NoJob,
         \/ LookUp(c) \/ InsertRow(c) \/ Recheck(c)
         \/ RunOperation(c) \/ MarkProcessed(c) \/ HandlerThrows(c) \/ EraseRow(c)
         \/ ReadThrows(c)
  PROVE  LinkInv' /\ OnlyAbout(c, e)
<1>1. inbox[e] \in {"NONE", "PROCESSING", "PROCESSED"}
      /\ (inbox[e] = "PROCESSED" => e \in applied)
      /\ inbox \in [Ids -> {"NONE", "PROCESSING", "PROCESSED"}]
      /\ applied \subseteq Ids
      /\ failures \in [Ids -> 0..(MaxRetries + 1)] /\ failures[e] \in 0..(MaxRetries + 1)
  BY DEF LinkInv, TypeOK, ProcessedIsApplied
<1>2. job[c].copy.tries \in 0..MaxRetries /\ failures[e] >= job[c].copy.tries
  BY JobFacts DEF LinkInv, TriesHaveFailed
<1>3. CASE LookUp(c)
  BY <1>1, <1>3, LookingInv DEF LookUp, At
<1>4. CASE InsertRow(c)
  BY <1>1, <1>4, LookingInv DEF InsertRow, At
<1>5. CASE Recheck(c)
  BY <1>1, <1>5, LookingInv DEF Recheck, At
<1>6. CASE RunOperation(c)
  BY <1>1, <1>6, WorkingInv DEF RunOperation
<1>7. CASE MarkProcessed(c)
  <2>1. e \in applied
    BY <1>7 DEF MarkProcessed, LinkInv, ProcessedIsApplied
  <2>2. QED  BY <1>1, <1>7, <2>1, WorkingInv DEF MarkProcessed
<1>8. CASE HandlerThrows(c)
  BY <1>1, <1>2, <1>8, ReliabilityAssumption, WorkingInv DEF HandlerThrows, CountFailure
<1>9. CASE EraseRow(c)
  <2>1. failures[e] > job[c].copy.tries
    BY <1>9 DEF EraseRow, At, LinkInv, TriesHaveFailed
  <2>2. QED  BY <1>1, <1>9, <2>1, WorkingInv DEF EraseRow
<1>10. CASE ReadThrows(c)
  BY <1>1, <1>2, <1>10, ReliabilityAssumption, WorkingInv DEF ReadThrows, CountFailure
<1>11. QED  BY <1>3, <1>4, <1>5, <1>6, <1>7, <1>8, <1>9, <1>10

LEMMA CopyForRetryInv ==
  ASSUME LinkInv, NEW c \in Consumers, NEW e \in Ids, e = EventOf(c), job[c] # NoJob,
         CopyForRetry(c)
  PROVE  LinkInv' /\ OnlyAbout(c, e)
<1> USE ReliabilityAssumption DEF LinkInv
<1> DEFINE again == [job[c].copy EXCEPT !.tries = @ + 1]
<1>1. Goto(c, "ack") /\ At(c, "retry") /\ "ack" \in Phases
  BY DEF CopyForRetry, Phases
<1>2. /\ job' \in [Consumers -> Jobs \cup {NoJob}]
      /\ job'[c] = [phase |-> "ack", copy |-> job[c].copy]
      /\ job'[c] # NoJob
      /\ \A d \in Consumers \ {c} : job'[d] = job[d]
  BY <1>1, JobsMove
<1>3. EventOf(c)' = e /\ job'[c].copy = job[c].copy /\ job'[c].phase = "ack"
  BY <1>2 DEF EventOf
<1>4. /\ job[c].copy \in Copies /\ job[c].copy.event = e
      /\ job[c].copy.tries \in 0..MaxRetries
      /\ failures[e] > job[c].copy.tries /\ failures[e] \in 0..(MaxRetries + 1)
  BY <1>1, JobFacts DEF TriesHaveFailed, At, TypeOK
<1>5. ~Exhausted(job[c].copy) => again \in Copies
  BY <1>4 DEF Copies, Exhausted
<1>6. again.event = e /\ again.tries = job[c].copy.tries + 1
  BY <1>4 DEF Copies
<1> HIDE DEF again
<1>7. /\ Exhausted(job[c].copy) => dead' = dead \cup {e} /\ ready' = ready
      /\ ~Exhausted(job[c].copy) => ready' = ready \cup {again} /\ dead' = dead
      /\ UNCHANGED <<outbox, publisher, inbox, applied, failures>>
  BY DEF CopyForRetry, again
<1>8. TypeOK'  BY <1>2, <1>5, <1>7 DEF TypeOK
<1>9. OnlyAbout(c, e)  BY <1>2, <1>3, <1>6, <1>7 DEF OnlyAbout
<1>10. Settled(e)' \/ Owed(e)'
  BY <1>6, <1>7 DEF Settled, Owed
<1>11. inbox'[e] = "PROCESSED" \/ At(c, "mark")' => e \in applied'
  BY <1>3, <1>7 DEF ProcessedIsApplied, At
<1>12. \A copy \in ready' \ ready : failures'[e] >= copy.tries
  BY <1>4, <1>6, <1>7
<1>13. failures'[e] >= job'[c].copy.tries  BY <1>3, <1>4, <1>7
<1>14. e \in dead' => failures'[e] = MaxRetries + 1
  BY <1>4, <1>7 DEF Exhausted, DeadWasRetried
<1>15. (e \in applied => e \in applied') /\ failures'[e] >= failures[e]
  BY <1>7 DEF TypeOK
<1>16. QED
  BY <1>3, <1>8, <1>9, <1>10, <1>11, <1>12, <1>13, <1>14, <1>15, OneEvent,
     WorkedOnIsCommitted

(* An acknowledgement, or the redelivery of what had none.                 *)
LEMMA JobEndsInv ==
  ASSUME LinkInv, NEW c \in Consumers, NEW e \in Ids, e = EventOf(c), job[c] # NoJob,
         Ack(c) \/ LoseConsumer(c)
  PROVE  LinkInv' /\ OnlyAbout(c, e)
<1> USE DEF LinkInv
<1>1. /\ job' = [job EXCEPT ![c] = NoJob]
      /\ ready' = ready \/ ready' = ready \cup {job[c].copy}
      /\ At(c, "ack") \/ ready' = ready \cup {job[c].copy}
      /\ UNCHANGED <<outbox, publisher, inbox, dead, applied, failures>>
  BY DEF Ack, LoseConsumer
<1>2. /\ job' \in [Consumers -> Jobs \cup {NoJob}] /\ job'[c] = NoJob
      /\ \A d \in Consumers \ {c} : job'[d] = job[d]
  BY <1>1 DEF TypeOK
<1>3. /\ job[c].copy \in Copies /\ job[c].copy.event = e
      /\ failures[e] >= job[c].copy.tries
  BY JobFacts DEF TriesHaveFailed
<1>4. TypeOK'  BY <1>1, <1>2, <1>3 DEF TypeOK
<1>5. OnlyAbout(c, e)  BY <1>1, <1>2, <1>3 DEF OnlyAbout
<1>6. Settled(e) \/ Owed(e) => Settled(e)' \/ Owed(e)'
  <2>1. CASE ready' = ready \cup {job[c].copy}  BY <1>3, <2>1 DEF Owed
  <2>2. CASE ready' = ready /\ At(c, "ack")
    <3>1. \A d \in Consumers : WorksOn(d, e, Unfinished) => WorksOn(d, e, Unfinished)'
      BY <1>2, <2>2 DEF WorksOn, EventOf, Unfinished, At
    <3>2. QED  BY <1>1, <2>2, <3>1 DEF Settled, Owed
  <2>3. QED  BY <1>1, <2>1, <2>2
<1>7. inbox'[e] = "PROCESSED" \/ At(c, "mark")' => e \in applied'
  BY <1>1, <1>2 DEF ProcessedIsApplied, At, NoJob
<1>8. \A copy \in ready' \ ready : failures'[e] >= copy.tries
  BY <1>1, <1>3
<1>9. (e \in applied => e \in applied') /\ failures'[e] >= failures[e]
      /\ (e \in dead' => failures'[e] = MaxRetries + 1)
  BY <1>1 DEF TypeOK, DeadWasRetried
<1>10. QED
  BY <1>2, <1>4, <1>5, <1>6, <1>7, <1>8, <1>9, OneEvent, WorkedOnIsCommitted

LEMMA DeliverInv ==
  ASSUME LinkInv, NEW c \in Consumers, NEW copy \in ready, NEW e \in Ids,
         e = copy.event, Deliver(c, copy)
  PROVE  LinkInv' /\ OnlyAbout(c, e) /\ outbox[e] # "NONE"
<1> USE DEF LinkInv, Deliver
<1>1. copy \in Copies /\ failures[e] >= copy.tries /\ outbox[e] # "NONE"
  BY DEF TypeOK, TriesHaveFailed, UncommittedIsNowhere
<1>2. [phase |-> "lookup", copy |-> copy] \in Jobs
      /\ [phase |-> "lookup", copy |-> copy] # NoJob
  BY <1>1 DEF Jobs, Phases, NoJob
<1>3. /\ job' \in [Consumers -> Jobs \cup {NoJob}]
      /\ job'[c] = [phase |-> "lookup", copy |-> copy]
      /\ \A d \in Consumers \ {c} : job'[d] = job[d]
  BY <1>2 DEF TypeOK
<1>4. TypeOK'  BY <1>3 DEF TypeOK
<1>5. EventOf(c)' = e /\ job'[c].copy = copy /\ job'[c].phase = "lookup"
  BY <1>3 DEF EventOf
<1>6. OnlyAbout(c, e)  BY <1>3, <1>5 DEF OnlyAbout
<1>7. Owed(e)'
  BY <1>2, <1>3, <1>5 DEF Owed, WorksOn, Unfinished, Phases
<1>8. inbox'[e] = "PROCESSED" \/ At(c, "mark")' => e \in applied'
  BY <1>5 DEF ProcessedIsApplied, At
<1>9. (e \in applied => e \in applied') /\ failures'[e] >= failures[e]
      /\ (e \in dead' => failures'[e] = MaxRetries + 1)
  BY DEF TypeOK, DeadWasRetried
<1>10. failures'[e] >= job'[c].copy.tries  BY <1>1, <1>5
<1>11. \A other \in ready' \ ready : failures'[e] >= other.tries
  OBVIOUS
<1>12. LinkInv'
  BY <1>1, <1>4, <1>5, <1>6, <1>7, <1>8, <1>9, <1>10, <1>11, OneEvent
<1>13. QED  BY <1>1, <1>6, <1>12

-------------------------------------------------------------------------------
(* The inductive invariant of the link.                                    *)
THEOREM LinkInvariance == Spec => []LinkInv
<1>1. Init => LinkInv  BY LinkInvInit
<1>2. LinkInv /\ [Next]_vars => LinkInv'
  <2> SUFFICES ASSUME LinkInv, [Next]_vars PROVE LinkInv'
    OBVIOUS
  <2>1. ASSUME NEW e \in Ids, Emit(e) PROVE LinkInv'
    BY <2>1, EmitInv
  <2>2. ASSUME NEW p \in Publishers, PublisherStep(p) \/ AbortFlush(p) PROVE LinkInv'
    BY <2>2, PollInv, PublishInv, SaveRowInv, AbortFlushInv DEF PublisherStep
  <2>3. ASSUME NEW c \in Consumers, NEW copy \in ready, Deliver(c, copy) PROVE LinkInv'
    <3>1. copy.event \in Ids  BY DEF LinkInv, TypeOK, Copies
    <3>2. QED  BY <2>3, <3>1, DeliverInv
  <2>4. ASSUME NEW c \in Consumers, ConsumerStep(c) \/ LoseConsumer(c) PROVE LinkInv'
    <3>1. job[c] # NoJob
      BY <2>4 DEF ConsumerStep, LookUp, InsertRow, Recheck, ReadThrows, RunOperation,
         MarkProcessed, HandlerThrows, EraseRow, CopyForRetry, Ack, LoseConsumer, At, NoJob
    <3>2. EventOf(c) \in Ids  BY <3>1, JobFacts DEF LinkInv
    <3>3. QED
      BY <2>4, <3>1, <3>2, ReceiverInv, CopyForRetryInv, JobEndsInv DEF ConsumerStep
  <2>5. CASE UNCHANGED vars
    BY <2>5 DEF vars, LinkInv, TypeOK, UncommittedIsNowhere, ConfirmedIsOwed,
       ProcessedIsApplied, TriesHaveFailed, DeadWasRetried, Touches, WorksOn, EventOf,
       Settled, Owed, At
  <2>6. QED  BY <2>1, <2>2, <2>3, <2>4, <2>5 DEF Next
<1>3. QED  BY <1>1, <1>2, PTL DEF Spec

(* A dead letter has been retried as often as it is allowed, whatever      *)
(* copies overlap and whichever process dies.                              *)
THEOREM DeadLettersWereRetried == Spec => []DeadWasRetried
<1>1. LinkInv => DeadWasRetried  BY DEF LinkInv
<1>2. QED  BY <1>1, LinkInvariance, PTL

-------------------------------------------------------------------------------
(* The refinement.  An event leaves the link only when it is settled.      *)
LEMMA GoneIsSettled ==
  ASSUME LinkInv', NEW e \in Ids, outbox'[e] # "NONE", e \notin Live'
  PROVE  Settled(e)'
<1> USE DEF LinkInv
<1>1. CASE e \in Final'  BY <1>1 DEF Final, ProcessedIsApplied, Settled
<1>2. CASE e \in Quiet'
  <2>1. ~Owed(e)'
    BY <1>2 DEF Quiet, Owed, WorksOn, Unfinished
  <2>2. QED  BY <1>2, <2>1 DEF Quiet, ConfirmedIsOwed
<1>3. QED  BY <1>1, <1>2 DEF Live

(* Steps that neither apply nor give up may still be the last to deal with *)
(* some events.                                                            *)
LEMMA LinkForgets ==
  ASSUME LinkInv', Live' \subseteq Live, UNCHANGED <<applied, dead>>,
         \A e \in Ids : outbox[e] # "NONE" => outbox'[e] # "NONE"
  PROVE  Link!Forget(Live \ Live') /\ Live \ Live' \in SUBSET Ids
<1>1. ASSUME NEW e \in Live \ Live' PROVE e \in applied \/ e \in dead
  <2>1. e \in Ids /\ outbox'[e] # "NONE"  BY DEF Live
  <2>2. Settled(e)'  BY <2>1, GoneIsSettled
  <2>3. QED  BY <2>2 DEF Settled
<1>2. Live' = Live \ (Live \ Live')
  OBVIOUS
<1>3. Live \ Live' \in SUBSET Ids  BY DEF Live
<1>4. QED  BY <1>1, <1>2, <1>3 DEF Link!Forget

LEMMA SenderIsInside ==
  ASSUME LinkInv, NEW p \in Publishers, PublisherStep(p) \/ AbortFlush(p)
  PROVE  /\ Live' \subseteq Live /\ UNCHANGED <<applied, dead>>
         /\ \A e \in Ids : outbox[e] # "NONE" => outbox'[e] # "NONE"
<1> USE DEF consumerVars
<1>1. UNCHANGED <<job, inbox, applied, dead>>
  BY DEF PublisherStep, Poll, Publish, SaveRow, AbortFlush
<1>2. Final = Final'
  BY <1>1 DEF Final, WorksOn, EventOf
<1>3. \A e \in Ids : (outbox[e] = "NONE" <=> outbox'[e] = "NONE")
                    /\ (e \in Quiet => e \in Quiet')
  <2>1. CASE Poll(p)
    <3>1. PICK due \in SUBSET {e \in Ids : outbox[e] = "PENDING"} :
            publisher' = [publisher EXCEPT ![p].batch = due]
      BY <2>1 DEF Poll
    <3>2. \A q \in Publishers, e \in Ids :
            Touches(q, e)' => Touches(q, e) \/ outbox[e] = "PENDING"
      BY <3>1 DEF Touches, LinkInv, TypeOK
    <3>3. QED  BY <2>1, <3>2 DEF Poll, Quiet, WorksOn, EventOf
  <2>2. ASSUME NEW e \in Ids, Publish(p, e)
        PROVE  \A f \in Ids : (outbox[f] = "NONE" <=> outbox'[f] = "NONE")
                            /\ (f \in Quiet => f \in Quiet')
    <3>1. Touches(p, e)  BY <2>2 DEF Publish, Touches
    <3>2. \A q \in Publishers, f \in Ids : Touches(q, f)' => Touches(q, f)
      BY <2>2, <3>1 DEF Publish, Touches, LinkInv, TypeOK
    <3>3. \A copy \in ready' : copy \in ready \/ copy.event = e
      BY <2>2 DEF Publish
    <3>4. UNCHANGED <<outbox, job>>  BY <2>2 DEF Publish
    <3>5. QED  BY <3>1, <3>2, <3>3, <3>4 DEF Quiet, WorksOn, EventOf
  <2>3. CASE SaveRow(p)
    <3>1. \A q \in Publishers, f \in Ids : Touches(q, f)' => Touches(q, f)
      BY <2>3 DEF SaveRow, Touches, LinkInv, TypeOK
    <3>2. \A e \in publisher[p].event : e \in Ids => outbox[e] # "NONE" /\ e \notin Quiet
      BY DEF LinkInv, UncommittedIsNowhere, Touches, Quiet
    <3>3. \A e \in Ids : \/ e \in publisher[p].event /\ outbox'[e] # "NONE"
                        \/ outbox'[e] = outbox[e]
      BY <2>3 DEF SaveRow
    <3>4. UNCHANGED <<ready, job>>  BY <2>3 DEF SaveRow
    <3>5. QED  BY <3>1, <3>2, <3>3, <3>4 DEF Quiet, WorksOn, EventOf
  <2>4. CASE AbortFlush(p)
    <3>1. \A q \in Publishers, f \in Ids : Touches(q, f)' => Touches(q, f)
      BY <2>4 DEF AbortFlush, Touches, LinkInv, TypeOK, Idle
    <3>2. QED  BY <2>4, <3>1 DEF AbortFlush, Quiet, WorksOn, EventOf
  <2>5. QED  BY <2>1, <2>2, <2>3, <2>4 DEF PublisherStep
<1>4. QED  BY <1>1, <1>2, <1>3 DEF Live

(* What happens to one event leaves the others where they are.             *)
LEMMA OthersStay ==
  ASSUME LinkInv, LinkInv', NEW c \in Consumers, NEW e \in Ids, OnlyAbout(c, e)
  PROVE  \A f \in Ids \ {e} : f \in Live' <=> f \in Live
<1> SUFFICES ASSUME NEW f \in Ids \ {e} PROVE f \in Live' <=> f \in Live
  OBVIOUS
<1>1. \A d \in Consumers : \A phases : WorksOn(d, f, phases)' <=> WorksOn(d, f, phases)
  BY DEF OnlyAbout, WorksOn, EventOf
<1>2. f \in Final' <=> f \in Final
  BY <1>1 DEF OnlyAbout, Final
<1>3. (\E copy \in ready' : copy.event = f) <=> (\E copy \in ready : copy.event = f)
  BY DEF OnlyAbout, LinkInv, TypeOK
<1>4. \A p \in Publishers : Touches(p, f)' <=> Touches(p, f)
  BY DEF OnlyAbout, Touches
<1>5. f \in Quiet' <=> f \in Quiet
  BY <1>1, <1>3, <1>4 DEF OnlyAbout, Quiet
<1>6. QED  BY <1>2, <1>5 DEF Live, OnlyAbout

(* Nothing that has left the link comes back.                              *)
LEMMA GoneStaysGone ==
  ASSUME LinkInv, NEW c \in Consumers, NEW e \in Ids, e = EventOf(c), job[c] # NoJob,
         OnlyAbout(c, e), ConsumerStep(c) \/ LoseConsumer(c), e \in Live'
  PROVE  e \in Live
<1>1. job[c].phase \in Phases  BY JobFacts DEF LinkInv
<1>2. e \notin Quiet  BY <1>1 DEF Quiet, WorksOn
<1>3. ASSUME e \in Final PROVE FALSE
  <2>1. inbox[e] = "PROCESSED" /\ job[c].phase \notin Erasing
    BY <1>3 DEF Final, WorksOn, Erasing
  <2>2. \/ LookUp(c) \/ InsertRow(c) \/ Recheck(c) \/ ReadThrows(c) \/ CopyForRetry(c)
        \/ Ack(c) \/ LoseConsumer(c)
    BY <2>1 DEF ConsumerStep, RunOperation, MarkProcessed, HandlerThrows, EraseRow, At,
       Erasing
  <2>3. inbox' = inbox
    BY <2>1, <2>2 DEF LookUp, InsertRow, Recheck, ReadThrows, CopyForRetry, Ack,
       LoseConsumer
  <2>4. CASE LookUp(c) \/ InsertRow(c) \/ Recheck(c) \/ ReadThrows(c) \/ CopyForRetry(c)
    <3>1. PICK phase \in {"ack", "recheck", "retry"} : Goto(c, phase)
      BY <2>1, <2>4 DEF LookUp, InsertRow, Recheck, ReadThrows, CopyForRetry
    <3>2. phase \in Phases  BY DEF Phases
    <3>3. job'[c].phase = phase
      <4>1. TypeOK  BY DEF LinkInv
      <4>2. job'[c] = [phase |-> phase, copy |-> job[c].copy]
        BY <3>1, <3>2, <4>1, JobsMove
      <4>3. QED  BY <4>2
    <3>4. ~WorksOn(c, e, {"run", "mark", "erase"})'
      BY <3>3 DEF WorksOn
    <3>5. e \in Final'
      BY <1>3, <2>3, <3>4 DEF Final, OnlyAbout, WorksOn, EventOf
    <3>6. QED  BY <3>5 DEF Live
  <2>5. CASE Ack(c) \/ LoseConsumer(c)
    <3>1. job'[c] = NoJob  BY <2>5 DEF Ack, LoseConsumer, LinkInv, TypeOK
    <3>2. e \in Final'
      BY <1>3, <2>3, <3>1 DEF Final, OnlyAbout, WorksOn, EventOf
    <3>3. QED  BY <3>2 DEF Live
  <2>6. QED  BY <2>2, <2>4, <2>5
<1>4. outbox[e] # "NONE"  BY WorkedOnIsCommitted
<1>5. QED  BY <1>2, <1>3, <1>4 DEF Live

(* The next-state relation of the link, one kind of step at a time.        *)
LEMMA EmitCommits ==
  ASSUME LinkInv, LinkInv', NEW e \in Ids, Emit(e) PROVE Link!Commit(e)
<1> USE DEF Emit, consumerVars
<1>1. /\ inbox[e] = "NONE" /\ e \notin applied /\ e \notin dead
      /\ outbox'[e] = "PENDING" /\ \A f \in Ids \ {e} : outbox'[f] = outbox[f]
  BY DEF LinkInv, UncommittedIsNowhere, TypeOK
<1>2. e \notin Live  BY DEF Live
<1>3. Final' = Final  BY DEF Final, WorksOn, EventOf
<1>4. e \notin Final /\ e \notin Quiet'  BY <1>1 DEF Final, Quiet
<1>5. \A f \in Ids \ {e} : f \in Quiet' <=> f \in Quiet
  BY <1>1 DEF Quiet, Touches, WorksOn, EventOf
<1>6. Live' = Live \cup {e}  BY <1>1, <1>3, <1>4, <1>5 DEF Live
<1>7. QED  BY <1>1, <1>2, <1>6 DEF Link!Commit

LEMMA DeliveryImplements ==
  ASSUME LinkInv, LinkInv', NEW c \in Consumers, NEW e \in Ids, e = EventOf(c),
         job[c] # NoJob, OnlyAbout(c, e), ConsumerStep(c) \/ LoseConsumer(c)
  PROVE  Link!Next
<1>1. /\ \A f \in Ids \ {e} : f \in Live' <=> f \in Live
      /\ e \in Live' => e \in Live
  BY OthersStay, GoneStaysGone
<1>2. Live' = Live \/ Live' = Live \ {e}  BY <1>1 DEF Live
<1>3. e \in Live \/ e \in Final
  <2>1. e \notin Quiet  BY JobFacts DEF Quiet, WorksOn, LinkInv
  <2>2. QED  BY <2>1, WorkedOnIsCommitted DEF Live
<1>4. CASE RunOperation(c)
  <2>1. e \notin Final  BY <1>4 DEF RunOperation, At, Final, WorksOn
  <2>2. Link!Apply(e)  BY <1>2, <1>3, <1>4, <2>1 DEF RunOperation, Link!Apply
  <2>3. QED  BY <2>2 DEF Link!Next
<1>5. CASE CopyForRetry(c) /\ Exhausted(job[c].copy)
  <2>1. e \in Final => e \in applied  BY DEF Final, LinkInv, ProcessedIsApplied
  <2>2. Link!GiveUp(e)  BY <1>2, <1>3, <1>5, <2>1 DEF CopyForRetry, Link!GiveUp
  <2>3. QED  BY <2>2 DEF Link!Next
<1>6. CASE ~RunOperation(c) /\ ~(CopyForRetry(c) /\ Exhausted(job[c].copy))
  <2>1. UNCHANGED <<applied, dead>>
    BY <1>6 DEF ConsumerStep, LookUp, InsertRow, Recheck, ReadThrows, MarkProcessed,
       HandlerThrows, EraseRow, CopyForRetry, Ack, LoseConsumer
  <2>2. Live' \subseteq Live /\ outbox' = outbox  BY <1>2 DEF OnlyAbout
  <2>3. Link!Forget(Live \ Live') /\ Live \ Live' \in SUBSET Ids
    BY <2>1, <2>2, LinkForgets
  <2>4. QED  BY <2>3 DEF Link!Next
<1>7. QED  BY <1>4, <1>5, <1>6

LEMMA DeliverImplements ==
  ASSUME LinkInv, LinkInv', NEW c \in Consumers, NEW copy \in ready, Deliver(c, copy)
  PROVE  Link!Next
<1>1. copy.event \in Ids /\ copy \in Copies  BY DEF LinkInv, TypeOK, Copies
<1>2. OnlyAbout(c, copy.event)  BY <1>1, DeliverInv
<1>3. copy.event \notin Quiet  BY <1>1 DEF Quiet
<1>4. copy.event \in Final => copy.event \in Final'
  <2>1. job'[c].phase = "lookup"  BY DEF Deliver, LinkInv, TypeOK
  <2>2. QED  BY <1>2, <2>1 DEF Deliver, Final, OnlyAbout, WorksOn, EventOf
<1>5. outbox[copy.event] # "NONE"  BY <1>1, DeliverInv
<1>6. Live' \subseteq Live
  BY <1>1, <1>2, <1>3, <1>4, <1>5, OthersStay DEF Live
<1>7. UNCHANGED <<applied, dead, outbox>>  BY DEF Deliver
<1>8. Link!Forget(Live \ Live') /\ Live \ Live' \in SUBSET Ids
  BY <1>6, <1>7, LinkForgets
<1>9. QED  BY <1>8 DEF Link!Next

-------------------------------------------------------------------------------
(* The outbox, the queues and the inbox are the link the services rely on, *)
(* for any number of events, workers, deliveries and retries: no event is  *)
(* lost, whichever of them die and however often it is copied.             *)
THEOREM LinkImplemented == Spec => ImplementsLink
<1>1. Init => Link!Init
  BY DEF Init, Link!Init, Live
<1>2. LinkInv /\ LinkInv' /\ [Next]_vars => [Link!Next]_(Link!linkVars)
  <2> SUFFICES ASSUME LinkInv, LinkInv', [Next]_vars
               PROVE  [Link!Next]_(Link!linkVars)
    OBVIOUS
  <2>1. ASSUME NEW e \in Ids, Emit(e) PROVE Link!Next
    BY <2>1, EmitCommits DEF Link!Next
  <2>2. ASSUME NEW p \in Publishers, PublisherStep(p) \/ AbortFlush(p) PROVE Link!Next
    <3>1. Link!Forget(Live \ Live') /\ Live \ Live' \in SUBSET Ids
      BY <2>2, SenderIsInside, LinkForgets
    <3>2. QED  BY <3>1 DEF Link!Next
  <2>3. ASSUME NEW c \in Consumers, NEW copy \in ready, Deliver(c, copy) PROVE Link!Next
    BY <2>3, DeliverImplements
  <2>4. ASSUME NEW c \in Consumers, ConsumerStep(c) \/ LoseConsumer(c) PROVE Link!Next
    <3>1. job[c] # NoJob
      BY <2>4 DEF ConsumerStep, LookUp, InsertRow, Recheck, ReadThrows, RunOperation,
         MarkProcessed, HandlerThrows, EraseRow, CopyForRetry, Ack, LoseConsumer, At, NoJob
    <3>2. EventOf(c) \in Ids  BY <3>1, JobFacts DEF LinkInv
    <3>3. PICK e \in Ids : e = EventOf(c)  BY <3>2
    <3>4. OnlyAbout(c, e)
      BY <2>4, <3>1, <3>3, ReceiverInv, CopyForRetryInv, JobEndsInv DEF ConsumerStep
    <3>5. QED  BY <2>4, <3>1, <3>3, <3>4, DeliveryImplements
  <2>5. CASE UNCHANGED vars
    <3>1. Live' = Live
      BY <2>5 DEF vars, Live, Final, Quiet, Touches, WorksOn, EventOf
    <3>2. QED  BY <2>5, <3>1 DEF vars, Link!linkVars
  <2>6. QED  BY <2>1, <2>2, <2>3, <2>4, <2>5 DEF Next
<1>3. QED
  BY <1>1, <1>2, LinkInvariance, PTL DEF Spec, ImplementsLink, Link!Spec
-------------------------------------------------------------------------------
(* The machinery as the bus of EventBus.tla, of which the services are the *)
(* handlers.  Any event type will do; an event is named by its order.      *)

EventCopy(e, tries) ==
  [type |-> "order.ready_for_dispatch", order |-> e, driver |-> "none",
   list |-> <<>>, tries |-> tries]

(* The copies there have been of committed events.                         *)
Copied(rows, failed) ==
  {EventCopy(copy.event, copy.tries) :
     copy \in {k \in Copies : rows[k.event] # "NONE" /\ k.tries <= failed[k.event]}}

Sent == Copied(outbox, failures)

Bus == INSTANCE EventBus WITH
  Orders <- Ids, Drivers <- {}, NoDriver <- "none", NoList <- "none",
  net <- Sent, dlq <- dead

(* A transaction emits an event, once; a handler of a copy commits, which  *)
(* applies the event, or throws.                                           *)
BusPublishes ==
  \E e \in Ids :
    /\ \A m \in Sent : m.order # e
    /\ Bus!Publish({Bus!NewEvent(Bus!OrderReady, e, "none")})
    /\ UNCHANGED applied

BusHandles ==
  \E m \in Sent :
    /\ Bus!Handled(m, {})
    /\ applied' = applied \cup {m.order}

BusRejects == \E m \in Sent : Bus!Rejected(m) /\ UNCHANGED applied

BusNext == BusPublishes \/ BusHandles \/ BusRejects

busVars == <<Sent, dead, applied>>

BusSpec ==
  /\ Bus!BusInit /\ applied = {}
  /\ [][BusNext]_busVars

(* A handler that has failed has had the event.                            *)
NotYetFailed == \A e \in Ids : outbox[e] = "NONE" => failures[e] = 0

LEMMA CopiedEvents ==
  ASSUME NEW rows, NEW failed, NEW m
  PROVE  m \in Copied(rows, failed) <=>
           \E e \in Ids, n \in 0..MaxRetries :
             rows[e] # "NONE" /\ n <= failed[e] /\ m = EventCopy(e, n)
<1>1. ASSUME NEW e \in Ids, NEW n \in 0..MaxRetries, rows[e] # "NONE", n <= failed[e],
             m = EventCopy(e, n)
      PROVE  m \in Copied(rows, failed)
  <2> DEFINE copy == [event |-> e, tries |-> n]
  <2>1. copy \in Copies /\ copy.event = e /\ copy.tries = n
    BY DEF Copies
  <2> HIDE DEF copy
  <2>2. QED  BY <1>1, <2>1 DEF Copied
<1>2. ASSUME m \in Copied(rows, failed)
      PROVE  \E e \in Ids, n \in 0..MaxRetries :
               rows[e] # "NONE" /\ n <= failed[e] /\ m = EventCopy(e, n)
  <2>1. PICK copy \in Copies :
          /\ rows[copy.event] # "NONE" /\ copy.tries <= failed[copy.event]
          /\ m = EventCopy(copy.event, copy.tries)
    BY <1>2 DEF Copied
  <2>2. copy.event \in Ids /\ copy.tries \in 0..MaxRetries
    BY DEF Copies
  <2>3. QED  BY <2>1, <2>2
<1>3. QED  BY <1>1, <1>2

LEMMA SameCopies ==
  ASSUME NEW rows, NEW others, NEW failed,
         \A e \in Ids : others[e] = "NONE" <=> rows[e] = "NONE"
  PROVE  Copied(others, failed) = Copied(rows, failed)
<1>1. \A m : m \in Copied(others, failed) <=> m \in Copied(rows, failed)
  BY CopiedEvents
<1>2. QED  BY <1>1

(* Steps that neither commit an event nor end a handler.                   *)
LEMMA BusStutters ==
  ASSUME NotYetFailed, UNCHANGED <<failures, dead, applied>>,
         \A e \in Ids : outbox'[e] = "NONE" <=> outbox[e] = "NONE"
  PROVE  UNCHANGED busVars /\ NotYetFailed'
<1>1. Copied(outbox', failures) = Copied(outbox, failures)
  BY SameCopies
<1>2. Sent' = Sent
  BY <1>1 DEF Sent
<1>3. QED  BY <1>2 DEF NotYetFailed, busVars

LEMMA EmitIsPublished ==
  ASSUME LinkInv, NotYetFailed, NEW e \in Ids, Emit(e)
  PROVE  BusPublishes /\ NotYetFailed'
<1>1. /\ outbox[e] = "NONE" /\ failures[e] = 0
      /\ outbox' = [outbox EXCEPT ![e] = "PENDING"]
      /\ outbox'[e] = "PENDING" /\ \A f \in Ids \ {e} : outbox'[f] = outbox[f]
      /\ UNCHANGED <<failures, dead, applied>>
  BY DEF Emit, NotYetFailed, LinkInv, TypeOK, consumerVars
<1>2. Copied(outbox', failures) = Copied(outbox, failures) \cup {EventCopy(e, 0)}
  <2>1. ASSUME NEW m
        PROVE  m \in Copied(outbox', failures) <=>
                 m \in Copied(outbox, failures) \/ m = EventCopy(e, 0)
    <3>1. m \in Copied(outbox', failures) <=>
            \E f \in Ids, n \in 0..MaxRetries :
              outbox'[f] # "NONE" /\ n <= failures[f] /\ m = EventCopy(f, n)
      BY CopiedEvents
    <3>2. m \in Copied(outbox, failures) <=>
            \E f \in Ids, n \in 0..MaxRetries :
              outbox[f] # "NONE" /\ n <= failures[f] /\ m = EventCopy(f, n)
      BY CopiedEvents
    <3>3. 0 \in 0..MaxRetries /\ \A n \in 0..MaxRetries : n <= 0 <=> n = 0
      BY ReliabilityAssumption
    <3>4. QED  BY <1>1, <3>1, <3>2, <3>3
  <2>2. QED  BY <2>1
<1>3. Sent' = Sent \cup {Bus!NewEvent(Bus!OrderReady, e, "none")}
  BY <1>1, <1>2 DEF Sent, EventCopy, Bus!NewEvent, Bus!OrderReady
<1>4. \A m \in Sent : m.order # e
  <2>1. ASSUME NEW m \in Sent
        PROVE  m.order # e
    <3>1. PICK f \in Ids, n \in 0..MaxRetries : outbox[f] # "NONE" /\ m = EventCopy(f, n)
      BY CopiedEvents DEF Sent
    <3>2. QED  BY <1>1, <3>1 DEF EventCopy
  <2>2. QED  BY <2>1
<1>5. NotYetFailed'
  BY <1>1 DEF NotYetFailed
<1>6. QED  BY <1>1, <1>3, <1>4, <1>5 DEF BusPublishes, Bus!Publish

(* The copy a delivery is about is on the bus.                             *)
LEMMA DeliveredIsSent ==
  ASSUME LinkInv, NEW c \in Consumers, job[c] # NoJob
  PROVE  EventCopy(EventOf(c), job[c].copy.tries) \in Sent
<1>1. /\ EventOf(c) \in Ids /\ job[c].copy.tries \in 0..MaxRetries
      /\ outbox[EventOf(c)] # "NONE"
  BY JobFacts, WorkedOnIsCommitted DEF LinkInv
<1>2. job[c].copy.tries <= failures[EventOf(c)]
  <2>1. failures[EventOf(c)] >= job[c].copy.tries
    BY DEF LinkInv, TriesHaveFailed
  <2>2. failures[EventOf(c)] \in Nat /\ job[c].copy.tries \in Nat
    BY <1>1, ReliabilityAssumption DEF LinkInv, TypeOK
  <2>3. QED  BY <2>1, <2>2
<1>3. QED  BY <1>1, <1>2, CopiedEvents DEF Sent

LEMMA RunIsHandled ==
  ASSUME LinkInv, NotYetFailed, NEW c \in Consumers, RunOperation(c)
  PROVE  BusHandles /\ NotYetFailed'
<1> DEFINE m == EventCopy(EventOf(c), job[c].copy.tries)
<1>1. job[c] # NoJob /\ UNCHANGED <<outbox, failures, dead>>
  BY DEF RunOperation, At, NoJob
<1>2. m \in Sent /\ m.order = EventOf(c)
  BY <1>1, DeliveredIsSent DEF EventCopy
<1>3. applied' = applied \cup {EventOf(c)}
  BY DEF RunOperation
<1>4. Sent' = Sent \cup {} /\ NotYetFailed'
  BY <1>1 DEF Sent, NotYetFailed
<1> HIDE DEF m
<1>5. Bus!Handled(m, {})
  BY <1>1, <1>4 DEF Bus!Handled, Bus!Unsettled
<1>6. QED  BY <1>2, <1>3, <1>4, <1>5 DEF BusHandles

LEMMA ThrowIsRejected ==
  ASSUME LinkInv, NotYetFailed, NEW c \in Consumers, HandlerThrows(c) \/ ReadThrows(c)
  PROVE  (BusRejects \/ UNCHANGED busVars) /\ NotYetFailed'
<1> DEFINE e == EventOf(c)
           n == failures[e]
<1>1. job[c] # NoJob /\ UNCHANGED <<outbox, dead, applied>>
  BY DEF HandlerThrows, ReadThrows, At, NoJob
<1>2. e \in Ids /\ outbox[e] # "NONE"
  BY <1>1, JobFacts, WorkedOnIsCommitted DEF LinkInv
<1>3. n \in 0..(MaxRetries + 1) /\ MaxRetries \in Nat
  BY <1>2, ReliabilityAssumption DEF LinkInv, TypeOK
<1>4. /\ failures'[e] = IF n <= MaxRetries THEN n + 1 ELSE n
      /\ \A f \in Ids \ {e} : failures'[f] = failures[f]
  BY <1>2 DEF HandlerThrows, ReadThrows, CountFailure, LinkInv, TypeOK
<1>5. NotYetFailed'
  BY <1>1, <1>2, <1>4 DEF NotYetFailed
<1> HIDE DEF e, n
<1>6. ASSUME NEW m
      PROVE  /\ m \in Sent <=>
                  \E f \in Ids, k \in 0..MaxRetries :
                    outbox[f] # "NONE" /\ k <= failures[f] /\ m = EventCopy(f, k)
             /\ m \in Sent' <=>
                  \E f \in Ids, k \in 0..MaxRetries :
                    outbox[f] # "NONE" /\ k <= failures'[f] /\ m = EventCopy(f, k)
  BY <1>1, CopiedEvents DEF Sent
<1>7. CASE n < MaxRetries
  <2> DEFINE m == EventCopy(e, n)
             more == EventCopy(e, n + 1)
  <2>1. n + 1 \in 0..MaxRetries /\ n \in 0..MaxRetries /\ failures'[e] = n + 1
    BY <1>3, <1>4, <1>7
  <2>2. \A k \in 0..MaxRetries : k <= n + 1 <=> k <= n \/ k = n + 1
    BY <1>3
  <2>3. more = [m EXCEPT !.tries = @ + 1] /\ m.tries = n
    BY DEF EventCopy
  <2>4. m \in Sent
    BY <1>2, <1>3, <1>6, <2>1 DEF n
  <2> HIDE DEF more
  <2>5. ASSUME NEW x
        PROVE  x \in Sent' <=> x \in Sent \/ x = more
    BY <1>2, <1>4, <1>6, <2>1, <2>2 DEF more, n
  <2>6. Sent' = Sent \cup {more}
    BY <2>5
  <2> HIDE DEF m
  <2>7. Bus!Rejected(m)
    BY <1>1, <1>7, <2>3, <2>6 DEF Bus!Rejected
  <2>8. QED  BY <1>1, <1>5, <2>4, <2>7 DEF BusRejects
<1>8. CASE ~ (n < MaxRetries)
  <2>1. \A k \in 0..MaxRetries : k <= n /\ k <= failures'[e]
    BY <1>3, <1>4, <1>8
  <2>2. ASSUME NEW x
        PROVE  x \in Sent' <=> x \in Sent
    BY <1>2, <1>4, <1>6, <2>1 DEF n
  <2>3. Sent' = Sent
    BY <2>2
  <2>4. QED  BY <1>1, <1>5, <2>3 DEF busVars
<1>9. QED  BY <1>7, <1>8

LEMMA LastCopyIsRejected ==
  ASSUME LinkInv, NotYetFailed, NEW c \in Consumers, CopyForRetry(c)
  PROVE  (BusRejects \/ UNCHANGED busVars) /\ NotYetFailed'
<1> DEFINE m == EventCopy(EventOf(c), job[c].copy.tries)
<1>1. job[c] # NoJob /\ UNCHANGED <<outbox, failures, applied>>
  BY DEF CopyForRetry, At, NoJob
<1>2. m \in Sent /\ m.order = EventOf(c) /\ m.tries = job[c].copy.tries
  BY <1>1, DeliveredIsSent DEF EventCopy
<1>3. Sent' = Sent /\ NotYetFailed'
  BY <1>1 DEF Sent, NotYetFailed
<1> HIDE DEF m
<1>4. CASE Exhausted(job[c].copy)
  <2>1. dead' = dead \cup {m.order} /\ m.tries >= MaxRetries
    BY <1>2, <1>4 DEF CopyForRetry, Exhausted
  <2>2. Bus!Rejected(m)
    BY <1>3, <2>1 DEF Bus!Rejected
  <2>3. QED  BY <1>1, <1>2, <1>3, <2>2 DEF BusRejects
<1>5. CASE ~ Exhausted(job[c].copy)
  BY <1>1, <1>3, <1>5 DEF CopyForRetry, busVars
<1>6. QED  BY <1>4, <1>5

LEMMA OthersAreInside ==
  ASSUME LinkInv, NotYetFailed, NEW c \in Consumers,
         \/ LookUp(c) \/ InsertRow(c) \/ Recheck(c) \/ MarkProcessed(c) \/ EraseRow(c)
         \/ Ack(c) \/ LoseConsumer(c) \/ \E copy \in ready : Deliver(c, copy)
  PROVE  UNCHANGED busVars /\ NotYetFailed'
<1>1. UNCHANGED <<outbox, failures, dead, applied>>
  BY DEF LookUp, InsertRow, Recheck, MarkProcessed, EraseRow, Ack, LoseConsumer, Deliver
<1>2. QED  BY <1>1, BusStutters

LEMMA SenderIsInsideBus ==
  ASSUME LinkInv, NotYetFailed, NEW p \in Publishers, PublisherStep(p) \/ AbortFlush(p)
  PROVE  UNCHANGED busVars /\ NotYetFailed'
<1>1. UNCHANGED <<failures, dead, applied>>
  BY DEF PublisherStep, Poll, Publish, SaveRow, AbortFlush, consumerVars
<1>2. \A e \in Ids : outbox'[e] = "NONE" <=> outbox[e] = "NONE"
  <2>1. CASE SaveRow(p)
    <3>1. \A e \in Ids : e \in publisher[p].event => outbox[e] # "NONE"
      BY DEF LinkInv, UncommittedIsNowhere, Touches
    <3>2. QED  BY <2>1, <3>1 DEF SaveRow
  <2>2. CASE UNCHANGED outbox
    BY <2>2
  <2>3. QED  BY <2>1, <2>2 DEF PublisherStep, Poll, Publish, AbortFlush
<1>3. QED  BY <1>1, <1>2, BusStutters

(* EventBus, on which the saga is built, leaves nothing out that outbox,   *)
(* queues and inbox can do: whatever races and dies in them, a handler     *)
(* only ever sees copies of what was committed, a failure only ever adds a *)
(* copy with one try more, and an event only becomes a dead letter from a  *)
(* copy that has no retry left.                                            *)
THEOREM BusImplemented == Spec => BusSpec
<1>1. Init => Bus!BusInit /\ applied = {} /\ NotYetFailed
  <2> SUFFICES ASSUME Init
               PROVE  Bus!BusInit /\ applied = {} /\ NotYetFailed
    OBVIOUS
  <2>1. \A m : m \notin Sent
    BY CopiedEvents DEF Init, Sent
  <2>2. Sent = {} /\ dead = {}
    BY <2>1 DEF Init
  <2>3. QED  BY <2>2 DEF Init, Bus!BusInit, NotYetFailed
<1>2. LinkInv /\ NotYetFailed /\ [Next]_vars => [BusNext]_busVars /\ NotYetFailed'
  <2> SUFFICES ASSUME LinkInv, NotYetFailed, [Next]_vars
               PROVE  (BusNext \/ UNCHANGED busVars) /\ NotYetFailed'
    OBVIOUS
  <2>1. ASSUME NEW e \in Ids, Emit(e)
        PROVE  BusNext /\ NotYetFailed'
    BY <2>1, EmitIsPublished DEF BusNext
  <2>2. ASSUME NEW p \in Publishers, PublisherStep(p) \/ AbortFlush(p)
        PROVE  UNCHANGED busVars /\ NotYetFailed'
    BY <2>2, SenderIsInsideBus
  <2>3. ASSUME NEW c \in Consumers, NEW copy \in ready, Deliver(c, copy)
        PROVE  UNCHANGED busVars /\ NotYetFailed'
    BY <2>3, OthersAreInside
  <2>4. ASSUME NEW c \in Consumers, ConsumerStep(c) \/ LoseConsumer(c)
        PROVE  (BusNext \/ UNCHANGED busVars) /\ NotYetFailed'
    BY <2>4, RunIsHandled, ThrowIsRejected, LastCopyIsRejected, OthersAreInside
    DEF ConsumerStep, BusNext
  <2>5. CASE UNCHANGED vars
    <3>1. UNCHANGED <<outbox, failures, dead, applied>>
      BY <2>5 DEF vars
    <3>2. QED  BY <3>1, BusStutters
  <2>6. QED  BY <2>1, <2>2, <2>3, <2>4, <2>5 DEF Next
<1>3. QED  BY <1>1, <1>2, LinkInvariance, PTL DEF Spec, BusSpec, busVars
===============================================================================
