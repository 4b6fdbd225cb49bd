------------------------- MODULE MailPipelineProofs -------------------------
(***************************************************************************)
(* Proofs about MailPipeline, for any number of events, of replicas, of    *)
(* records, of faults and of forgotten keys.                               *)
(***************************************************************************)
EXTENDS MailPipeline, TLAPS

(* The types of the topic, the group, the members and the provider hold in
   the initial states. *)
LEMMA TypeInit == PipelineInit => PipelineTypeOK
<1> SUFFICES ASSUME PipelineInit PROVE PipelineTypeOK OBVIOUS
<1> USE ConsumerAssumption DEF PipelineInit, Init, Outbox!Init
<1>1. delivered \in Seq(Event) /\ Len(delivered) = 0 OBVIOUS
<1>2. pc \in [Consumer -> PC] BY DEF PC
<1>3. answer \in [Consumer -> Answer] BY DEF Answer
<1>4. position \in [Consumer -> Nat] /\ mails \in [Event -> Nat] OBVIOUS
<1>5. \A c \in Consumer : position[c] = 0 /\ pc[c] = "down" OBVIOUS
<1>6. QED BY <1>1, <1>2, <1>3, <1>4, <1>5 DEF PipelineTypeOK, TypeOK

(* A record in hand is an event. *)
LEMMA RecordType ==
    ASSUME PipelineTypeOK, NEW c \in Consumer, HasRecord(c)
    PROVE  Record(c) \in Event /\ position[c] + 1 \in DOMAIN delivered
BY DEF PipelineTypeOK, TypeOK, HasRecord, Record

(* A step of the outbox appends at most an accepted event to the topic. *)
LEMMA OutboxStepShape ==
    ASSUME PipelineTypeOK, NEW e \in Event, OutboxStep(e)
    PROVE  /\ UNCHANGED <<kind, group, consumers, provider, faults>>
           /\ accepted \subseteq accepted' /\ accepted' \in SUBSET Event
           /\ settled' \in SUBSET Event
           /\ delivered' \in Seq(Event) /\ Len(delivered') >= Len(delivered)
           /\ \A i \in DOMAIN delivered : i \in DOMAIN delivered' /\ delivered'[i] = delivered[i]
           /\ \A i \in DOMAIN delivered' \ DOMAIN delivered : delivered'[i] \in accepted
<1> USE DEF PipelineTypeOK, TypeOK, OutboxStep
<1>1. CASE Outbox!Accept(e) BY <1>1 DEF Outbox!Accept
<1>2. CASE Outbox!Deliver(e) BY <1>2 DEF Outbox!Deliver
<1>3. CASE Outbox!Settle(e) BY <1>3 DEF Outbox!Settle
<1>4. QED BY <1>1, <1>2, <1>3

(* Every step keeps the types. *)
LEMMA TypeStep == OffsetsInLog /\ PipelineTypeOK /\ [Next]_pipelineVars => PipelineTypeOK'
<1> SUFFICES ASSUME OffsetsInLog, PipelineTypeOK, [Next]_pipelineVars PROVE PipelineTypeOK' OBVIOUS
<1>0. ASSUME NEW e \in Event, OutboxStep(e) PROVE PipelineTypeOK'
  BY <1>0, OutboxStepShape DEF PipelineTypeOK, TypeOK, group, consumers, provider
<1>s. ASSUME UNCHANGED pipelineVars PROVE PipelineTypeOK'
  BY <1>s DEF pipelineVars, vars, PipelineTypeOK, TypeOK, group, consumers, provider
<1>a. ASSUME ConsumerNext, UNCHANGED <<accepted, settled>> PROVE PipelineTypeOK'
  <2> USE <1>a, ConsumerAssumption DEF PipelineTypeOK, TypeOK, PC, Goto, Fault, NoFault, group, consumers, provider
  <2>1. ASSUME NEW c \in Consumer, Start(c) PROVE PipelineTypeOK' BY <2>1 DEF Start
  <2>2. ASSUME NEW c \in Consumer, Assign(c) PROVE PipelineTypeOK'
    <3>1. StartOffset \in Nat /\ StartOffset <= Len(delivered) BY DEF StartOffset, OffsetsInLog
    <3>2. faults' \in 0..MaxFaults BY <2>2 DEF Assign
    <3>3. QED BY <2>2, <3>1, <3>2 DEF Assign
  <2>3. ASSUME NEW c \in Consumer, Revoke(c) PROVE PipelineTypeOK' BY <2>3 DEF Revoke
  <2>4. ASSUME NEW c \in Consumer, Commit(c) PROVE PipelineTypeOK' BY <2>4 DEF Commit
  <2>5. ASSUME NEW c \in Consumer, Stop(c) PROVE PipelineTypeOK' BY <2>5 DEF Stop
  <2>6. ASSUME NEW c \in Consumer, Crash(c) PROVE PipelineTypeOK' BY <2>6 DEF Crash
  <2>7. ASSUME NEW c \in Consumer, SkipRecord(c) PROVE PipelineTypeOK' BY <2>7 DEF SkipRecord, Return, HasRecord
  <2>8. ASSUME NEW c \in Consumer, DecodeFails(c) PROVE PipelineTypeOK'
    <3>1. PICK p \in {"idle", "member"} : pc' = [pc EXCEPT ![c] = p] BY <2>8 DEF DecodeFails, Throw
    <3>2. QED BY <2>8, <3>1 DEF DecodeFails, Throw
  <2>9. ASSUME NEW c \in Consumer, Send(c) PROVE PipelineTypeOK' BY <2>9 DEF Send, HasRecord
  <2>10. ASSUME NEW c \in Consumer, Succeed(c) PROVE PipelineTypeOK' BY <2>10 DEF Succeed, Return
  <2>11. ASSUME NEW c \in Consumer, GiveUp(c) PROVE PipelineTypeOK' BY <2>11 DEF GiveUp, Return
  <2>12. ASSUME NEW c \in Consumer, Retry(c) PROVE PipelineTypeOK' BY <2>12 DEF Retry, Throw
  <2>13. ASSUME NEW c \in Consumer, Accepted(c) PROVE PipelineTypeOK'
    <3>1. Record(c) \in Event BY <2>13, RecordType DEF Accepted, HasRecord
    <3>2. QED BY <2>13, <3>1 DEF Accepted, Deduplicate, AnswerWith, Answer
  <2>14. ASSUME NEW c \in Consumer, Refused(c) PROVE PipelineTypeOK' BY <2>14 DEF Refused, AnswerWith, Answer
  <2>15. ASSUME NEW c \in Consumer, RequestFails(c) PROVE PipelineTypeOK'
    <3>1. Record(c) \in Event BY <2>15, RecordType DEF RequestFails, HasRecord
    <3>2. mails' \in [Event -> Nat] /\ remembered' \in SUBSET Event
      <4>1. CASE UNCHANGED <<mails, remembered>> BY <4>1
      <4>2. CASE Deduplicate(Record(c)) BY <3>1, <4>2 DEF Deduplicate
      <4>3. QED BY <2>15, <4>1, <4>2 DEF RequestFails
    <3>3. QED BY <2>15, <3>2 DEF RequestFails, AnswerWith, Answer
  <2>16. ASSUME NEW e \in Event, Forget(e) PROVE PipelineTypeOK' BY <2>16 DEF Forget
  <2>17. QED
    BY <2>1, <2>2, <2>3, <2>4, <2>5, <2>6, <2>7, <2>8, <2>9, <2>10, <2>11, <2>12,
       <2>13, <2>14, <2>15, <2>16 DEF ConsumerNext, Step
<1>1. QED BY <1>0, <1>s, <1>a DEF Next

-----------------------------------------------------------------------------
(* Mails are never taken back, so what was handled stays handled. *)
LEMMA HandledStays ==
    ASSUME PipelineTypeOK, PipelineTypeOK', [Next]_pipelineVars, NEW e \in Event
    PROVE  kind' = kind /\ mails'[e] >= mails[e] /\ (Handled(e) => Handled(e)')
<1> SUFFICES kind' = kind /\ mails'[e] >= mails[e]
  BY DEF Handled, PipelineTypeOK, TypeOK
<1> mails[e] \in Nat /\ mails \in [Event -> Nat] BY DEF PipelineTypeOK, TypeOK
<1> USE DEF group, consumers, provider
<1>1. ASSUME NEW f, Deduplicate(f) PROVE mails'[e] >= mails[e]
  <2>1. CASE f \in remembered BY <1>1, <2>1 DEF Deduplicate
  <2>2. CASE f \notin remembered BY <1>1, <2>2 DEF Deduplicate
  <2>3. QED BY <2>1, <2>2
<1>2. ASSUME NEW f \in Event, OutboxStep(f) PROVE kind' = kind /\ mails'[e] >= mails[e]
  BY <1>2 DEF OutboxStep
<1>3. ASSUME NEW c \in Consumer, Accepted(c) \/ RequestFails(c)
      PROVE kind' = kind /\ mails'[e] >= mails[e]
  BY <1>1, <1>3 DEF Accepted, RequestFails
<1>4. ASSUME NEW c \in Consumer, Step(c) \/ Stop(c) \/ Crash(c), ~ Accepted(c)
      PROVE kind' = kind /\ mails' = mails
  BY <1>4 DEF Step, Start, Assign, Revoke, Commit, SkipRecord, DecodeFails, Send, Succeed,
     GiveUp, Retry, Refused, Stop, Crash
<1>5. ASSUME NEW f \in Event, Forget(f) PROVE kind' = kind /\ mails' = mails
  BY <1>5 DEF Forget
<1>6. ASSUME UNCHANGED pipelineVars PROVE kind' = kind /\ mails' = mails
  BY <1>6 DEF pipelineVars, vars
<1>7. QED BY <1>2, <1>3, <1>4, <1>5, <1>6 DEF Next, ConsumerNext

(* The inductive invariant holds of an empty topic. *)
LEMMA InvInit == PipelineInit => PipelineInv
BY TypeInit, ConsumerAssumption
DEF PipelineInit, Init, Outbox!Init, PipelineInv, LoggedWasAccepted, OffsetsInLog,
    OwnerPassedHandled, AnswerIsTrue, RememberedWasMailed, NoRecordSkipped, Working

(* A step of the outbox leaves the group alone and only appends. *)
LEMMA InvOutboxStep ==
    ASSUME PipelineInv, PipelineTypeOK', NEW e \in Event, OutboxStep(e) PROVE PipelineInv'
<1>1. \A f \in Event : Handled(f)' <=> Handled(f)
  BY OutboxStepShape DEF PipelineInv, Handled, provider
<1>2. /\ UNCHANGED <<kind, group, consumers, provider, faults>>
      /\ Len(delivered') >= Len(delivered)
      /\ \A i \in DOMAIN delivered : i \in DOMAIN delivered' /\ delivered'[i] = delivered[i]
      /\ \A i \in DOMAIN delivered' \ DOMAIN delivered : delivered'[i] \in accepted
      /\ accepted \subseteq accepted'
  BY OutboxStepShape DEF PipelineInv
<1>3. delivered \in Seq(Event) /\ delivered' \in Seq(Event) /\ position \in [Consumer -> Nat]
      /\ base \in Nat /\ committed \in Nat \cup {None}
  BY DEF PipelineInv, PipelineTypeOK, TypeOK
<1>4. LoggedWasAccepted' BY <1>2 DEF PipelineInv, LoggedWasAccepted
<1>5. OffsetsInLog' BY <1>2, <1>3 DEF PipelineInv, OffsetsInLog, group
<1>6. OwnerPassedHandled'
  <2> SUFFICES ASSUME NEW c \in Consumer, owner' = c, Working(c)', NEW i \in base' + 1..position'[c]
               PROVE Handled(delivered[i])'
    BY DEF OwnerPassedHandled
  <2>1. i \in base + 1..position[c] /\ position[c] <= Len(delivered)
    BY <1>2 DEF group, consumers, PipelineInv, PipelineTypeOK, TypeOK
  <2>2. i \in DOMAIN delivered /\ Handled(delivered[i])
    BY <1>2, <1>3, <2>1 DEF group, consumers, PipelineInv, OwnerPassedHandled, Working
  <2>3. delivered[i] \in Event /\ delivered'[i] = delivered[i] BY <1>2, <1>3, <2>2
  <2>4. Handled(delivered[i])' BY <1>2, <2>2, <2>3 DEF Handled, provider
  <2>5. QED BY <2>4
<1>7. NoRecordSkipped'
  <2> SUFFICES ASSUME committed' # None, NEW i \in base' + 1..committed'
               PROVE Handled(delivered[i])'
    BY DEF NoRecordSkipped
  <2>1. committed # None /\ i \in base + 1..committed /\ committed <= Len(delivered)
    BY <1>2 DEF group, PipelineInv, OffsetsInLog
  <2>2. i \in DOMAIN delivered /\ Handled(delivered[i])
    BY <1>3, <2>1 DEF PipelineInv, NoRecordSkipped
  <2>3. QED BY <1>2, <2>2 DEF Handled, provider
<1>8. AnswerIsTrue'
  <2> SUFFICES ASSUME NEW c \in Consumer, pc'[c] = "answered"
               PROVE /\ answer'[c] = "success" => mails'[Record(c)'] > 0
                     /\ answer'[c] = "listed" => kind'[Record(c)'] = "refused"
    BY DEF AnswerIsTrue
  <2>1. position[c] < Len(delivered) BY <1>2 DEF consumers, PipelineInv, PipelineTypeOK, TypeOK
  <2>2. position[c] + 1 \in DOMAIN delivered BY <1>3, <2>1
  <2>3. Record(c)' = Record(c) BY <1>2, <2>2 DEF Record, consumers
  <2>4. QED BY <1>2, <2>3 DEF PipelineInv, AnswerIsTrue, consumers, provider
<1>9. RememberedWasMailed' BY <1>2 DEF provider, PipelineInv, RememberedWasMailed
<1>10. QED BY <1>4, <1>5, <1>6, <1>7, <1>8, <1>9 DEF PipelineInv

(* A step of a member keeps what the owner has passed and what is committed
   handled: it moves on only past a record that was sent or is to be skipped,
   and a new owner starts from the committed offset. *)
LEMMA InvConsumerStep ==
    ASSUME PipelineInv, PipelineTypeOK', ConsumerNext, UNCHANGED <<accepted, settled>>
    PROVE  PipelineInv'
<1>0. PipelineTypeOK /\ [Next]_pipelineVars BY DEF PipelineInv, Next
<1>t. /\ delivered \in Seq(Event) /\ base \in Nat /\ committed \in Nat \cup {None}
      /\ position \in [Consumer -> Nat] /\ pc \in [Consumer -> PC] /\ answer \in [Consumer -> Answer]
      /\ \A c \in Consumer : position[c] <= Len(delivered)
      /\ \A c \in Consumer : pc[c] \in {"sending", "answered"} => position[c] < Len(delivered)
  BY <1>0 DEF PipelineTypeOK, TypeOK
<1>i. /\ LoggedWasAccepted /\ OffsetsInLog /\ OwnerPassedHandled /\ AnswerIsTrue /\ RememberedWasMailed
      /\ NoRecordSkipped
  BY DEF PipelineInv
<1>d. delivered' = delivered
  BY DEF ConsumerNext, Step, Start, Assign, Revoke, Commit, SkipRecord, DecodeFails, Send, Succeed,
     GiveUp, Retry, Accepted, Refused, Stop, Crash, RequestFails, Forget
<1>h. \A i \in DOMAIN delivered : Handled(delivered[i]) => Handled(delivered[i])'
  <2> TAKE i \in DOMAIN delivered
  <2>1. delivered[i] \in Event BY <1>t
  <2>2. QED BY <1>0, <1>d, <2>1, HandledStays DEF Handled
<1>1. LoggedWasAccepted' BY <1>d, <1>i DEF LoggedWasAccepted
<1>m. RememberedWasMailed'
  <2> SUFFICES ASSUME NEW e \in remembered' PROVE mails'[e] > 0 BY DEF RememberedWasMailed
  <2>0. e \in Event /\ mails[e] \in Nat /\ mails'[e] \in Nat /\ mails'[e] >= mails[e]
    BY <1>0, HandledStays DEF PipelineTypeOK, TypeOK
  <2>1. CASE e \in remembered BY <1>i, <2>0, <2>1 DEF RememberedWasMailed
  <2>2. CASE e \notin remembered
    <3>1. PICK c \in Consumer : Deduplicate(Record(c))
      BY <2>2 DEF ConsumerNext, Step, Start, Assign, Revoke, Commit, SkipRecord, DecodeFails, Send,
         Succeed, GiveUp, Retry, Accepted, Refused, Stop, Crash, RequestFails, Forget, provider
    <3>2. e = Record(c) BY <2>2, <3>1 DEF Deduplicate
    <3>3. mails'[e] = mails[e] + 1
      BY <1>0, <2>0, <2>2, <3>1, <3>2 DEF Deduplicate, PipelineTypeOK, TypeOK
    <3>4. QED BY <2>0, <3>3
  <2>3. QED BY <2>1, <2>2
<1> DEFINE Kept == OffsetsInLog' /\ OwnerPassedHandled' /\ NoRecordSkipped'
<1>k. ASSUME UNCHANGED <<base, committed>>,
             \A c \in Consumer : owner' = c /\ Working(c)' =>
               /\ owner = c /\ Working(c)
               /\ \/ position'[c] = position[c]
                  \/ position'[c] = position[c] + 1 /\ HasRecord(c) /\ Handled(Record(c))
      PROVE  Kept
  <2>1. OffsetsInLog' BY <1>d, <1>i, <1>k DEF OffsetsInLog
  <2>2. OwnerPassedHandled'
    <3> SUFFICES ASSUME NEW c \in Consumer, owner' = c, Working(c)', NEW i \in base' + 1..position'[c]
                 PROVE  Handled(delivered[i])'
      BY DEF OwnerPassedHandled
    <3>1. owner = c /\ Working(c) BY <1>k
    <3>2. i \in base + 1..position[c] \/ (i = position[c] + 1 /\ HasRecord(c) /\ Handled(Record(c)))
      BY <1>k, <1>t
    <3>3. i \in DOMAIN delivered /\ Handled(delivered[i])
      BY <1>t, <1>i, <3>1, <3>2 DEF OwnerPassedHandled, HasRecord, Record
    <3>4. QED BY <1>h, <1>d, <3>3
  <2>3. NoRecordSkipped'
    <3> SUFFICES ASSUME committed # None, NEW i \in base + 1..committed PROVE Handled(delivered[i])'
      BY <1>k DEF NoRecordSkipped
    <3>1. i \in DOMAIN delivered /\ Handled(delivered[i])
      BY <1>t, <1>i DEF NoRecordSkipped, OffsetsInLog
    <3>2. QED BY <1>h, <1>d, <3>1
  <2>4. QED BY <2>1, <2>2, <2>3
<1> DEFINE Truth == AnswerIsTrue'
<1>v. ASSUME mails' = mails, kind' = kind,
             \A c \in Consumer : pc'[c] = "answered" =>
               pc[c] = "answered" /\ UNCHANGED <<answer[c], position[c]>>
      PROVE  Truth
  BY <1>d, <1>i, <1>v DEF AnswerIsTrue, Record
<1> USE DEF group, consumers, provider, Goto, Working
<1>2. ASSUME NEW c \in Consumer, Start(c) \/ Revoke(c) \/ Crash(c) PROVE Kept /\ Truth
  BY <1>2, <1>k, <1>v, <1>t DEF Start, Revoke, Crash
<1>3. ASSUME NEW c \in Consumer, Assign(c) PROVE Kept /\ Truth
  <2>1. Truth BY <1>3, <1>v, <1>t DEF Assign
  <2>2. owner' = c /\ position'[c] = StartOffset /\ committed' = committed
        /\ base' = (IF committed = None THEN StartOffset ELSE base)
    BY <1>3, <1>t DEF Assign
  <2>3. OffsetsInLog'
    BY <1>d, <1>t, <1>i, <2>2 DEF OffsetsInLog, StartOffset
  <2>4. NoRecordSkipped'
    <3> SUFFICES ASSUME committed # None, NEW i \in base + 1..committed PROVE Handled(delivered[i])'
      BY <2>2 DEF NoRecordSkipped
    <3>1. i \in DOMAIN delivered /\ Handled(delivered[i])
      BY <1>t, <1>i DEF NoRecordSkipped, OffsetsInLog
    <3>2. QED BY <1>h, <1>d, <3>1
  <2>5. OwnerPassedHandled'
    <3>1. CASE committed = None
      <4>1. base' = position'[c] /\ base' \in Nat BY <1>t, <2>2, <3>1 DEF StartOffset
      <4>2. base' + 1..position'[c] = {} BY <4>1
      <4>3. QED BY <2>2, <4>2 DEF OwnerPassedHandled
    <3>2. CASE committed # None
      <4>1. base' = base' /\ position'[c] = committed' /\ committed' # None
        BY <2>2, <3>2 DEF StartOffset
      <4>2. QED BY <2>2, <2>4, <4>1 DEF OwnerPassedHandled, NoRecordSkipped
    <3>3. QED BY <3>1, <3>2
  <2>6. QED BY <2>1, <2>3, <2>4, <2>5
<1>c. ASSUME NEW c \in Consumer, pc[c] = "idle", owner = c, base' = base, committed' \in {committed, position[c]},
             \A d \in Consumer : owner' = d /\ Working(d)' => owner = d /\ Working(d) /\ position'[d] = position[d]
      PROVE  Kept
  <2>1. \A i \in base + 1..position[c] : i \in DOMAIN delivered /\ Handled(delivered[i])
    BY <1>c, <1>t, <1>i DEF OwnerPassedHandled
  <2>2. position[c] \in Nat /\ position[c] <= Len(delivered) BY <1>t
  <2>3. OffsetsInLog' BY <1>c, <1>d, <1>i, <2>2 DEF OffsetsInLog
  <2>4. NoRecordSkipped'
    <3> SUFFICES ASSUME committed' # None, NEW i \in base + 1..committed' PROVE Handled(delivered[i])'
      BY <1>c DEF NoRecordSkipped
    <3>1. i \in DOMAIN delivered /\ Handled(delivered[i])
      BY <1>c, <1>t, <1>i, <2>1 DEF NoRecordSkipped, OffsetsInLog
    <3>2. QED BY <1>h, <1>d, <3>1
  <2>5. OwnerPassedHandled'
    <3> SUFFICES ASSUME NEW d \in Consumer, owner' = d, Working(d)', NEW i \in base' + 1..position'[d]
                 PROVE  Handled(delivered[i])'
      BY DEF OwnerPassedHandled
    <3>1. i \in DOMAIN delivered /\ Handled(delivered[i])
      BY <1>c, <1>t, <1>i DEF OwnerPassedHandled
    <3>2. QED BY <1>h, <1>d, <3>1
  <2>6. QED BY <2>3, <2>4, <2>5
<1>4. ASSUME NEW c \in Consumer, Commit(c) PROVE Kept /\ Truth
  <2>1. Truth BY <1>4, <1>v, <1>t DEF Commit
  <2>2. Kept BY <1>4, <1>c, <1>t DEF Commit
  <2>3. QED BY <2>1, <2>2
<1>5. ASSUME NEW c \in Consumer, Stop(c) PROVE Kept /\ Truth
  <2>1. Truth BY <1>5, <1>v, <1>t DEF Stop
  <2>2. \A d \in Consumer : owner' = d /\ Working(d)' => owner = d /\ Working(d) /\ position'[d] = position[d]
    BY <1>5, <1>t, ConsumerAssumption DEF Stop
  <2>3. CASE pc[c] = "idle" /\ owner = c BY <1>5, <1>c, <2>1, <2>2, <2>3 DEF Stop
  <2>4. CASE ~(pc[c] = "idle" /\ owner = c)
    <3>1. committed' = committed BY <1>5, <2>4 DEF Stop
    <3>2. QED BY <1>5, <1>k, <2>1, <2>2, <3>1 DEF Stop
  <2>5. QED BY <2>1, <2>3, <2>4
<1>6. ASSUME NEW c \in Consumer, SkipRecord(c) PROVE Kept /\ Truth
  <2>1. Truth BY <1>6, <1>v, <1>t DEF SkipRecord, Return
  <2>2. Handled(Record(c)) BY <1>6 DEF SkipRecord, HasContent, Handled
  <2>3. QED BY <1>6, <1>k, <1>t, <2>1, <2>2 DEF SkipRecord, Return
<1>7. ASSUME NEW c \in Consumer, DecodeFails(c) \/ Retry(c) PROVE Kept /\ Truth
  BY <1>7, <1>k, <1>v, <1>t DEF DecodeFails, Retry, Throw
<1>8. ASSUME NEW c \in Consumer, Send(c) PROVE Kept /\ Truth
  BY <1>8, <1>k, <1>v, <1>t DEF Send
<1>9. ASSUME NEW c \in Consumer, Succeed(c) \/ GiveUp(c) PROVE Kept /\ Truth
  <2>1. Truth BY <1>9, <1>v, <1>t DEF Succeed, GiveUp, Return
  <2>2. Handled(Record(c))
    <3>1. CASE Succeed(c) BY <1>i, <3>1 DEF Succeed, AnswerIsTrue, Handled
    <3>2. CASE GiveUp(c)
      <4>1. answer[c] = "listed" /\ pc[c] = "answered" BY <1>t, <3>2 DEF GiveUp, Retryable, Answer
      <4>2. QED BY <1>i, <4>1 DEF AnswerIsTrue, Handled
    <3>3. QED BY <1>9, <3>1, <3>2
  <2>3. HasRecord(c) BY <1>9, <1>t DEF Succeed, GiveUp, HasRecord
  <2>4. QED BY <1>9, <1>k, <1>t, <2>1, <2>2, <2>3 DEF Succeed, GiveUp, Return
<1>r. ASSUME NEW c \in Consumer, Accepted(c) \/ Refused(c) \/ RequestFails(c) PROVE Kept /\ Truth
  <2>1. Kept BY <1>r, <1>k, <1>t DEF Accepted, Refused, RequestFails, AnswerWith
  <2>2. Truth
    <3> SUFFICES ASSUME NEW d \in Consumer, pc'[d] = "answered"
                 PROVE /\ answer'[d] = "success" => mails'[Record(d)'] > 0
                       /\ answer'[d] = "listed" => kind'[Record(d)'] = "refused"
      BY DEF AnswerIsTrue
    <3>0. position' = position /\ kind' = kind /\ Record(d)' = Record(d)
      BY <1>r, <1>d DEF Accepted, Refused, RequestFails, Record
    <3>1. CASE d # c
      <4>1. pc[d] = "answered" /\ answer'[d] = answer[d]
        BY <1>r, <1>t, <3>1 DEF Accepted, Refused, RequestFails, AnswerWith
      <4>2. Record(d) \in Event BY <4>1, <1>t, <1>0, RecordType DEF HasRecord
      <4>3. mails'[Record(d)] >= mails[Record(d)] BY <1>0, <4>2, HandledStays
      <4>4. mails[Record(d)] \in Nat /\ mails'[Record(d)] \in Nat BY <4>2, <1>0 DEF PipelineTypeOK, TypeOK
      <4>5. QED BY <1>i, <3>0, <4>1, <4>3, <4>4 DEF AnswerIsTrue
    <3>2. CASE d = c
      <4>1. pc[c] = "sending" BY <1>r DEF Accepted, Refused, RequestFails
      <4>2. CASE Accepted(c)
        <5>1. answer'[c] = "success" BY <1>t, <4>2 DEF Accepted, AnswerWith
        <5>2. Record(c) \in Event BY <4>1, <1>t, <1>0, RecordType DEF HasRecord
        <5>3. Record(c) \in remembered \/ mails'[Record(c)] = mails[Record(c)] + 1
          BY <4>2, <5>2, <1>0 DEF Accepted, Deduplicate, PipelineTypeOK, TypeOK
        <5>4. mails[Record(c)] \in Nat /\ mails'[Record(c)] \in Nat /\ mails'[Record(c)] >= mails[Record(c)]
          BY <1>0, <5>2, HandledStays DEF PipelineTypeOK, TypeOK
        <5>5. mails'[Record(c)] > 0 BY <1>i, <5>3, <5>4 DEF RememberedWasMailed
        <5>6. QED BY <3>0, <3>2, <5>1, <5>5
      <4>3. CASE Refused(c)
        BY <1>t, <3>0, <3>2, <4>3 DEF Refused, AnswerWith
      <4>4. CASE RequestFails(c)
        BY <1>t, <3>0, <3>2, <4>4 DEF RequestFails, AnswerWith
      <4>5. QED BY <1>r, <4>2, <4>3, <4>4
    <3>3. QED BY <3>1, <3>2
  <2>3. QED BY <2>1, <2>2
<1>f. ASSUME NEW e \in Event, Forget(e) PROVE Kept /\ Truth
  BY <1>f, <1>k, <1>v DEF Forget
<1>q. Kept /\ Truth
  BY <1>2, <1>3, <1>4, <1>5, <1>6, <1>7, <1>8, <1>9, <1>r, <1>f DEF ConsumerNext, Step
<1>z. QED BY <1>1, <1>m, <1>q DEF PipelineInv

LEMMA InvStep == PipelineInv /\ [Next]_pipelineVars => PipelineInv'
<1> SUFFICES ASSUME PipelineInv, [Next]_pipelineVars PROVE PipelineInv' OBVIOUS
<1>1. PipelineTypeOK' BY TypeStep DEF PipelineInv
<1>2. ASSUME NEW e \in Event, OutboxStep(e) PROVE PipelineInv' BY <1>1, <1>2, InvOutboxStep
<1>3. CASE ConsumerNext /\ UNCHANGED <<accepted, settled>> BY <1>1, <1>3, InvConsumerStep
<1>4. CASE UNCHANGED pipelineVars
  BY <1>4 DEF pipelineVars, vars, group, consumers, provider, PipelineInv, PipelineTypeOK, TypeOK,
     LoggedWasAccepted, OffsetsInLog, OwnerPassedHandled, AnswerIsTrue, RememberedWasMailed,
     NoRecordSkipped, Working, Handled, Record
<1>5. QED BY <1>2, <1>3, <1>4 DEF Next

(* The invariant of the pipeline: what the owner of the partition has passed
   and what the group has committed was handled. *)
THEOREM PipelineInvariance == Spec => []PipelineInv
<1>1. QED BY InvInit, InvStep, PTL DEF Spec

(* The topic, the group, the members and the provider keep their types. *)
THEOREM PipelineTypeCorrect == Spec => []PipelineTypeOK
<1>1. PipelineInv => PipelineTypeOK BY DEF PipelineInv
<1>2. QED BY <1>1, PipelineInvariance, PTL

(* Crashes, rebalances, zombies and lost answers never let the group pass a
   record that was neither mailed nor skipped on purpose. *)
THEOREM NothingSkipped == Spec => []NoRecordSkipped
<1>1. PipelineInv => NoRecordSkipped BY DEF PipelineInv
<1>2. QED BY <1>1, PipelineInvariance, PTL

-----------------------------------------------------------------------------
(* The pipeline implements the promise: a step of the outbox accepts at most,
   the provider mails what it does not remember, a key is forgotten, and all
   else is a stutter. *)
LEMMA MailInit == PipelineInit => Promise!Init
BY DEF PipelineInit, Init, Outbox!Init, Promise!Init

LEMMA MailStep == PipelineInv /\ [Next]_pipelineVars => [Promise!Next]_(Promise!vars)
<1> SUFFICES ASSUME PipelineInv, [Next]_pipelineVars PROVE [Promise!Next]_(Promise!vars) OBVIOUS
<1> USE DEF Promise!Next, Promise!vars, group, consumers, provider
<1>0. PipelineTypeOK /\ LoggedWasAccepted BY DEF PipelineInv
<1>1. ASSUME NEW e \in Event, OutboxStep(e) PROVE [Promise!Next]_(Promise!vars)
  BY <1>1 DEF OutboxStep, Outbox!Accept, Outbox!Deliver, Outbox!Settle, Promise!Accept
<1>2. ASSUME NEW c \in Consumer, Accepted(c) \/ RequestFails(c), UNCHANGED accepted
      PROVE  [Promise!Next]_(Promise!vars)
  <2>1. CASE UNCHANGED <<mails, remembered>> BY <1>2, <2>1
  <2>2. CASE Deduplicate(Record(c))
    <3>1. HasRecord(c) BY <1>0, <1>2 DEF PipelineTypeOK, TypeOK, Accepted, RequestFails, HasRecord
    <3>2. Record(c) \in Event /\ position[c] + 1 \in DOMAIN delivered BY <1>0, <3>1, RecordType
    <3>3. Record(c) \in accepted BY <1>0, <3>2 DEF LoggedWasAccepted, Record
    <3>4. CASE Record(c) \in remembered BY <1>2, <2>2, <3>4 DEF Deduplicate
    <3>5. CASE Record(c) \notin remembered
      <4>1. Promise!Mail(Record(c)) BY <1>2, <2>2, <3>3, <3>5 DEF Deduplicate, Promise!Mail
      <4>2. QED BY <3>2, <4>1
    <3>6. QED BY <3>4, <3>5
  <2>3. QED BY <1>2, <2>1, <2>2 DEF Accepted, RequestFails
<1>3. ASSUME NEW c \in Consumer, Step(c) \/ Stop(c) \/ Crash(c), ~ Accepted(c), UNCHANGED accepted
      PROVE  [Promise!Next]_(Promise!vars)
  BY <1>3 DEF Step, Start, Assign, Revoke, Commit, SkipRecord, DecodeFails, Send, Succeed,
     GiveUp, Retry, Refused, Stop, Crash
<1>4. ASSUME NEW e \in Event, Forget(e), UNCHANGED accepted PROVE [Promise!Next]_(Promise!vars)
  BY <1>4 DEF Forget, Promise!Forget
<1>5. CASE UNCHANGED pipelineVars BY <1>5 DEF pipelineVars, vars
<1>6. QED BY <1>1, <1>2, <1>3, <1>4, <1>5 DEF Next, ConsumerNext

(* From transaction to mail: only what was committed is mailed, and the same
   event again only when the provider has forgotten it. *)
THEOREM MailPromiseKept == Spec => ImplementsMailPromise
<1>1. QED BY MailInit, MailStep, PipelineInvariance, PTL
  DEF Spec, ImplementsMailPromise, Promise!Spec

-----------------------------------------------------------------------------
(* What a step may do at the provider: nothing, mail a committed event it has
   no key of, or forget a key. *)
LEMMA ProviderStep ==
    ASSUME PipelineInv, [Next]_pipelineVars
    PROVE  /\ accepted \subseteq accepted'
           /\ \/ UNCHANGED <<mails, remembered, forgets>>
              \/ \E e \in accepted : Deduplicate(e) /\ UNCHANGED forgets
              \/ \E e \in remembered :
                    UNCHANGED mails /\ remembered' = remembered \ {e} /\ forgets' = forgets + 1
<1> DEFINE Untouched == UNCHANGED <<mails, remembered, forgets>>
           Mailed == \E e \in accepted : Deduplicate(e) /\ UNCHANGED forgets
           Forgot == \E e \in remembered :
                       UNCHANGED mails /\ remembered' = remembered \ {e} /\ forgets' = forgets + 1
<1> USE DEF provider
<1>0. PipelineTypeOK /\ LoggedWasAccepted BY DEF PipelineInv
<1>1. ASSUME NEW e \in Event, OutboxStep(e) PROVE accepted \subseteq accepted' /\ Untouched
  BY <1>0, <1>1, OutboxStepShape
<1>2. ASSUME NEW c \in Consumer, Accepted(c) \/ RequestFails(c) PROVE Untouched \/ Mailed
  <2>1. HasRecord(c) BY <1>0, <1>2 DEF PipelineTypeOK, TypeOK, Accepted, RequestFails, HasRecord
  <2>2. Record(c) \in Event /\ position[c] + 1 \in DOMAIN delivered BY <1>0, <2>1, RecordType
  <2>3. Record(c) \in accepted BY <1>0, <2>2 DEF LoggedWasAccepted, Record
  <2>4. UNCHANGED forgets BY <1>2 DEF Accepted, RequestFails
  <2>5. UNCHANGED <<mails, remembered>> \/ Deduplicate(Record(c)) BY <1>2 DEF Accepted, RequestFails
  <2>6. QED BY <2>3, <2>4, <2>5
<1>3. ASSUME NEW c \in Consumer, Step(c) \/ Stop(c) \/ Crash(c), ~ Accepted(c) PROVE Untouched
  BY <1>3 DEF Step, Start, Assign, Revoke, Commit, SkipRecord, DecodeFails, Send, Succeed,
     GiveUp, Retry, Refused, Stop, Crash
<1>4. ASSUME NEW e \in Event, Forget(e) PROVE Forgot BY <1>4 DEF Forget
<1>5. CASE UNCHANGED pipelineVars BY <1>5 DEF pipelineVars, vars
<1>6. QED BY <1>1, <1>2, <1>3, <1>4, <1>5 DEF Next, ConsumerNext

(* The account of mails stays balanced. *)
LEMMA BudgetStep == PipelineInv /\ MailBudget /\ [Next]_pipelineVars => MailBudget'
<1> SUFFICES ASSUME PipelineInv, MailBudget, [Next]_pipelineVars, NEW e \in Event
             PROVE  /\ mails'[e] > 0 => e \in accepted'
                    /\ mails'[e] + (IF e \in remembered' THEN 0 ELSE 1) <= 1 + forgets'
  BY DEF MailBudget
<1>1. mails \in [Event -> Nat] /\ mails[e] \in Nat /\ forgets \in Nat
  BY DEF PipelineInv, PipelineTypeOK, TypeOK
<1>2. /\ mails[e] > 0 => e \in accepted
      /\ mails[e] + (IF e \in remembered THEN 0 ELSE 1) <= 1 + forgets
  BY DEF MailBudget
<1>3. accepted \subseteq accepted' BY ProviderStep
<1>4. CASE UNCHANGED <<mails, remembered, forgets>> BY <1>2, <1>3, <1>4
<1>5. ASSUME NEW f \in accepted, Deduplicate(f), UNCHANGED forgets
      PROVE  /\ mails'[e] > 0 => e \in accepted'
             /\ mails'[e] + (IF e \in remembered' THEN 0 ELSE 1) <= 1 + forgets'
  <2>1. CASE f = e /\ f \notin remembered
    <3>1. mails'[e] = mails[e] + 1 /\ e \in remembered' BY <1>1, <1>5, <2>1 DEF Deduplicate
    <3>2. QED BY <1>1, <1>2, <1>3, <1>5, <2>1, <3>1
  <2>2. CASE f # e \/ f \in remembered
    <3>1. mails'[e] = mails[e] /\ (e \in remembered' <=> e \in remembered)
      BY <1>1, <1>5, <2>2 DEF Deduplicate
    <3>2. QED BY <1>1, <1>2, <1>3, <1>5, <3>1
  <2>3. QED BY <2>1, <2>2
<1>6. ASSUME NEW f \in remembered, UNCHANGED mails, remembered' = remembered \ {f}, forgets' = forgets + 1
      PROVE  /\ mails'[e] > 0 => e \in accepted'
             /\ mails'[e] + (IF e \in remembered' THEN 0 ELSE 1) <= 1 + forgets'
  BY <1>1, <1>2, <1>3, <1>6
<1>7. QED BY <1>4, <1>5, <1>6, ProviderStep

LEMMA BudgetInit == PipelineInit => MailBudget
<1> SUFFICES ASSUME PipelineInit, NEW e \in Event
             PROVE  /\ mails[e] > 0 => e \in accepted
                    /\ mails[e] + (IF e \in remembered THEN 0 ELSE 1) <= 1 + forgets
  BY DEF MailBudget
<1>1. mails[e] = 0 /\ remembered = {} /\ forgets = 0 BY DEF PipelineInit, Init
<1>2. QED BY <1>1

(* What a user gets: mails of committed transactions only, one each, and one
   more for each key the provider forgot. *)
THEOREM MailsAreCharged == Spec => []MailsAreBacked
<1>1. ASSUME PipelineInv, MailBudget PROVE MailsAreBacked
  <2> SUFFICES ASSUME NEW e \in Event PROVE mails[e] <= IF e \in accepted THEN 1 + forgets ELSE 0
    BY DEF MailsAreBacked
  <2>1. mails[e] \in Nat /\ forgets \in Nat BY <1>1 DEF PipelineInv, PipelineTypeOK, TypeOK
  <2>2. QED BY <1>1, <2>1 DEF MailBudget
<1>2. Spec => [](PipelineInv /\ MailBudget)
  BY InvInit, InvStep, BudgetInit, BudgetStep, PTL DEF Spec
<1>3. QED BY <1>1, <1>2, PTL
=============================================================================
