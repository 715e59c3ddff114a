-------------------------- MODULE AuditPath_proof ---------------------------
(***************************************************************************)
(* Theorems about the path of an audit row from Kafka to the table: the bg *)
(* writer of one replica (BgWriter), for any rows, any period and any      *)
(* bound on the channel, and the pipeline of all replicas (AuditPipeline), *)
(* for any replicas, partitions and messages, junk among them, and any     *)
(* number of faults.  The two meet at RowBuffer: the writer implements it, *)
(* and the pipeline takes no more from its writers than that.              *)
(***************************************************************************)
EXTENDS BgWriter, AuditPipeline, TLAPS

(***************************************************************************)
(* The bg writer.                                                          *)
(***************************************************************************)

LEMMA ReceivedType == ASSUME chan \in Seq(Rows)
                      PROVE  /\ Received \subseteq Rows /\ Received \subseteq InChan
                             /\ chan # <<>> => /\ Tail(chan) \in Seq(Rows)
                                               /\ Len(Tail(chan)) <= Len(chan)
<1>1. CASE chan = <<>>
  BY <1>1 DEF Received
<1>2. CASE chan # <<>>
  <2>1. Head(chan) = chan[1] /\ 1 \in DOMAIN chan /\ Head(chan) \in Rows
    BY <1>2
  <2>2. Tail(chan) \in Seq(Rows) /\ Len(Tail(chan)) <= Len(chan)
    BY <1>2
  <2> QED
    BY <1>2, <2>1, <2>2 DEF Received, InChan
<1> QED
  BY <1>1, <1>2

LEMMA WriterTypeInit == WriterInit => WriterTypeOK
<1> SUFFICES ASSUME WriterInit PROVE WriterTypeOK
  OBVIOUS
<1>1. chan \in Seq(Rows) /\ Len(chan) <= MaxChan
  BY PeriodAssumption DEF WriterInit
<1>2. {turned, stopping, running} \subseteq BOOLEAN
  BY DEF WriterInit
<1>3. age \in 0 .. PERIOD + 1 /\ waited \in 0 .. PERIOD + 2
  BY PeriodAssumption DEF WriterInit
<1> QED
  BY <1>1, <1>2, <1>3 DEF WriterInit, WriterTypeOK

LEMMA WriterTypeStep == WriterTypeOK /\ [WriterNext]_writerVars => WriterTypeOK'
<1> SUFFICES ASSUME WriterTypeOK, [WriterNext]_writerVars PROVE WriterTypeOK'
  OBVIOUS
<1> USE PeriodAssumption DEF inMemory
<1>1. ASSUME NEW row \in Rows, Sent(row) PROVE WriterTypeOK'
  <2>1. chan' \in Seq(Rows) /\ Len(chan') <= MaxChan
    BY <1>1 DEF Sent, WriterTypeOK
  <2> QED
    BY <1>1, <2>1 DEF Sent, WriterTypeOK
<1>2. CASE Tick
  <2>1. age' \in 0 .. PERIOD + 1 /\ waited' \in 0 .. PERIOD + 2
    BY <1>2 DEF Tick, WriterTypeOK
  <2> QED
    BY <1>2, <2>1 DEF Tick, WriterTypeOK
<1>3. CASE Shutdown
  BY <1>3 DEF Shutdown, WriterTypeOK
<1>4. CASE Turn
  <2> DEFINE user  == insert_buffer \cup (Received \cap UserRows)
             self  == self_audit_buffer \cup (Received \cap SelfRows)
             fUser == FlushesUser(user, self)
             fSelf == FlushesSelf(user, self)
  <2>1. user \subseteq UserRows /\ self \subseteq SelfRows
    BY DEF WriterTypeOK
  <2>2. (fUser => user # {}) /\ (fSelf => self # {})
    BY DEF FlushesUser, FlushesSelf, Due
  <2>3. /\ insert_buffer' = Left(fUser, user)
        /\ self_audit_buffer' = Left(fSelf, self)
        /\ flights' = flights \cup Handed(fUser, user) \cup Handed(fSelf, self)
        /\ age' = IF fUser \/ fSelf THEN 0 ELSE age
        /\ waited' = IF insert_buffer = {} \/ fUser THEN 0 ELSE waited
    BY <1>4 DEF Turn
  <2> HIDE DEF user, self, fUser, fSelf
  <2>4. insert_buffer' \subseteq UserRows /\ self_audit_buffer' \subseteq SelfRows
    BY <2>1, <2>3 DEF Left
  <2>5. flights' \subseteq (SUBSET Rows) \ {{}}
    <3>0. user \in SUBSET Rows /\ self \in SUBSET Rows
      BY <2>1 DEF Rows
    <3>1. Handed(fUser, user) \subseteq (SUBSET Rows) \ {{}}
      BY <2>2, <3>0 DEF Handed
    <3>2. Handed(fSelf, self) \subseteq (SUBSET Rows) \ {{}}
      BY <2>2, <3>0 DEF Handed
    <3>3. flights \subseteq (SUBSET Rows) \ {{}}
      BY DEF WriterTypeOK
    <3> QED
      BY <2>3, <3>1, <3>2, <3>3
  <2>6. age' \in 0 .. PERIOD + 1 /\ waited' \in 0 .. PERIOD + 2
    BY <2>3 DEF WriterTypeOK
  <2>7. chan' \in Seq(Rows) /\ Len(chan') <= MaxChan
    <3>1. Len(chan) \in Nat
      BY DEF WriterTypeOK
    <3> QED
      BY <1>4, <3>1, ReceivedType DEF Turn, WriterTypeOK
  <2>8. /\ turned' \in BOOLEAN /\ running' \in BOOLEAN
        /\ UNCHANGED <<stopping, tables, dropped>>
    BY <1>4 DEF Turn
  <2> QED
    BY <2>4, <2>5, <2>6, <2>7, <2>8 DEF WriterTypeOK
<1>5. ASSUME NEW batch \in SUBSET Rows, Fly(batch) PROVE WriterTypeOK'
  <2>1. PICK rows \in Insertable(batch) : /\ tables' = tables \cup rows
                                          /\ dropped' = dropped \cup (batch \ rows)
    BY <1>5 DEF Fly
  <2>2. rows \subseteq batch
    BY <2>1 DEF Insertable
  <2> QED
    BY <1>5, <2>1, <2>2 DEF Fly, WriterTypeOK
<1>6. CASE WriterRestart
  <2>1. Held \subseteq Rows
    BY DEF Held, InChan, WriterTypeOK, Rows
  <2>2. chan' \in Seq(Rows) /\ Len(chan') <= MaxChan
    BY <1>6 DEF WriterRestart
  <2>3. age' \in 0 .. PERIOD + 1 /\ waited' \in 0 .. PERIOD + 2
    BY <1>6 DEF WriterRestart
  <2>4. {turned, stopping, running}' \subseteq BOOLEAN
    BY <1>6 DEF WriterRestart
  <2>5. tables' \subseteq Rows /\ dropped' \subseteq Rows
    BY <1>6, <2>1 DEF WriterRestart, WriterTypeOK
  <2> QED
    BY <1>6, <2>2, <2>3, <2>4, <2>5 DEF WriterRestart, WriterTypeOK
<1>7. CASE UNCHANGED writerVars
  BY <1>7 DEF writerVars, WriterTypeOK
<1> QED
  BY <1>1, <1>2, <1>3, <1>4, <1>5, <1>6, <1>7
     DEF WriterNext, SendUserAction, SendSelfAudit, Rows

(* The writer's memory stays well-formed and no thread is started for      *)
(* nothing.                                                                *)
THEOREM WriterTypeCorrect == WriterSpec => []WriterTypeOK
BY WriterTypeInit, WriterTypeStep, PTL DEF WriterSpec

-----------------------------------------------------------------------------
(* The insert buffer has not waited longer than the last hand-over is ago, *)
(* and after a turn of the loop it is not overdue.                         *)
PromptInv ==
  /\ WriterTypeOK
  /\ running => /\ waited <= age
                /\ turned /\ insert_buffer # {} => age <= PERIOD

LEMMA PromptStep == PromptInv /\ [WriterNext]_writerVars => PromptInv'
<1> SUFFICES ASSUME PromptInv, [WriterNext]_writerVars, running'
             PROVE  /\ waited' <= age'
                    /\ turned' /\ insert_buffer' # {} => age' <= PERIOD
  BY WriterTypeStep DEF PromptInv
<1>0. WriterTypeOK /\ age \in 0 .. PERIOD + 1 /\ waited \in 0 .. PERIOD + 2 /\ PERIOD \in Nat
  BY PeriodAssumption DEF PromptInv, WriterTypeOK
<1>1. CASE Tick
  <2>1. running /\ turned
    BY <1>1 DEF Tick
  <2>2. CASE insert_buffer = {}
    BY <1>0, <1>1, <2>1, <2>2 DEF Tick, PromptInv
  <2>3. CASE insert_buffer # {}
    BY <1>0, <1>1, <2>1, <2>3 DEF Tick, PromptInv
  <2> QED
    BY <2>2, <2>3
<1>2. CASE Turn
  <2> DEFINE user  == insert_buffer \cup (Received \cap UserRows)
             self  == self_audit_buffer \cup (Received \cap SelfRows)
             fUser == FlushesUser(user, self)
             fSelf == FlushesSelf(user, self)
  <2>1. /\ running
        /\ insert_buffer' = Left(fUser, user)
        /\ age' = IF fUser \/ fSelf THEN 0 ELSE age
        /\ waited' = IF insert_buffer = {} \/ fUser THEN 0 ELSE waited
    BY <1>2 DEF Turn
  <2>2. fUser <=> age > PERIOD /\ user # {}
    BY DEF FlushesUser, Due
  <2>3. fSelf /\ ~ fUser => age > PERIOD
    BY DEF FlushesSelf, Due
  <2>4. insert_buffer \subseteq user
    OBVIOUS
  <2> HIDE DEF user, self, fUser, fSelf
  <2>5. CASE fUser
    BY <1>0, <2>1, <2>5 DEF Left
  <2>6. CASE ~ fUser /\ user = {}
    BY <1>0, <2>1, <2>4, <2>6 DEF Left
  <2>7. CASE ~ fUser /\ user # {}
    <3>1. age <= PERIOD /\ ~ fSelf
      BY <1>0, <2>2, <2>3, <2>7
    <3> QED
      BY <1>0, <2>1, <2>7, <3>1 DEF Left, PromptInv
  <2> QED
    BY <2>5, <2>6, <2>7
<1>3. CASE WriterRestart
  BY <1>0, <1>3 DEF WriterRestart
<1>4. CASE UNCHANGED <<running, waited, age, turned, insert_buffer>>
  BY <1>4 DEF PromptInv
<1>5. Tick \/ Turn \/ WriterRestart \/ UNCHANGED <<running, waited, age, turned, insert_buffer>>
  BY DEF WriterNext, writerVars, inMemory, SendUserAction, SendSelfAudit, Sent, Shutdown, Fly
<1> QED
  BY <1>1, <1>2, <1>3, <1>4, <1>5

(* Although the two buffers share last_insert_time, the flush of the       *)
(* self-audit buffer never delays a user action beyond one period.         *)
THEOREM UserActionsArePrompt == WriterSpec => []UserActionsPrompt
<1>1. WriterInit => PromptInv
  BY WriterTypeInit, PeriodAssumption DEF WriterInit, PromptInv
<1>2. PromptInv => UserActionsPrompt
  BY PeriodAssumption DEF PromptInv, UserActionsPrompt, WriterTypeOK
<1> QED
  BY <1>1, <1>2, PromptStep, PTL DEF WriterSpec

-----------------------------------------------------------------------------
(* Refinement of RowBuffer *)

LEMMA SentIsAccept == ASSUME WriterTypeOK, NEW row \in Rows, Sent(row) PROVE Promise!Accept(row)
<1>1. InChan' = InChan \cup {row}
  <2>1. chan \in Seq(Rows) /\ chan' = Append(chan, row)
    BY DEF Sent, WriterTypeOK
  <2>2. DOMAIN chan' = DOMAIN chan \cup {Len(chan) + 1} /\ chan'[Len(chan) + 1] = row
    BY <2>1
  <2>3. \A i \in DOMAIN chan : chan'[i] = chan[i]
    BY <2>1
  <2> QED
    BY <2>2, <2>3 DEF InChan
<1> QED
  BY <1>1 DEF Sent, Held, Promise!Accept

LEMMA TurnKeepsRows == ASSUME WriterTypeOK, Turn PROVE Held' = Held /\ UNCHANGED <<tables, dropped>>
<1> DEFINE user  == insert_buffer \cup (Received \cap UserRows)
           self  == self_audit_buffer \cup (Received \cap SelfRows)
           fUser == FlushesUser(user, self)
           fSelf == FlushesSelf(user, self)
<1>1. InChan = InChan' \cup Received
  <2>1. CASE chan = <<>>
    BY <2>1 DEF Turn, Received, InChan
  <2>2. CASE chan # <<>>
    <3>1. chan \in Seq(Rows) /\ chan' = Tail(chan) /\ Received = {chan[1]}
      BY <2>2 DEF Turn, Received, WriterTypeOK
    <3>2. /\ Len(chan) \in Nat \ {0}
          /\ DOMAIN chan = 1 .. Len(chan) /\ DOMAIN chan' = 1 .. Len(chan) - 1
          /\ \A i \in 1 .. Len(chan) - 1 : chan'[i] = chan[i + 1]
      BY <2>2, <3>1
    <3>3. InChan \subseteq InChan' \cup Received
      <4>1. SUFFICES ASSUME NEW i \in 1 .. Len(chan) PROVE chan[i] \in InChan' \cup Received
        BY <3>2 DEF InChan
      <4>2. CASE i = 1
        BY <3>1, <4>2
      <4>3. CASE i # 1
        <5>1. i - 1 \in 1 .. Len(chan) - 1 /\ chan'[i - 1] = chan[i]
          BY <3>2, <4>3
        <5> QED
          BY <3>2, <5>1 DEF InChan
      <4> QED
        BY <4>2, <4>3
    <3>4. InChan' \cup Received \subseteq InChan
      <4>1. Received \subseteq InChan
        BY <3>1, <3>2 DEF InChan
      <4>2. SUFFICES ASSUME NEW i \in 1 .. Len(chan) - 1 PROVE chan'[i] \in InChan
        BY <3>2, <4>1 DEF InChan
      <4>3. i + 1 \in DOMAIN chan /\ chan'[i] = chan[i + 1]
        BY <3>2
      <4> QED
        BY <4>3 DEF InChan
    <3> QED
      BY <3>3, <3>4
  <2> QED
    BY <2>1, <2>2
<1>2. Received \subseteq Rows
  BY ReceivedType DEF WriterTypeOK
<1>3. user \cup self = insert_buffer \cup self_audit_buffer \cup Received
  BY <1>2 DEF Rows
<1>4. /\ insert_buffer' = Left(fUser, user)
      /\ self_audit_buffer' = Left(fSelf, self)
      /\ flights' = flights \cup Handed(fUser, user) \cup Handed(fSelf, self)
      /\ UNCHANGED <<tables, dropped>>
  BY DEF Turn
<1> HIDE DEF user, self, fUser, fSelf
<1>5. /\ Left(fUser, user) \cup (UNION Handed(fUser, user)) = user
      /\ Left(fSelf, self) \cup (UNION Handed(fSelf, self)) = self
  BY DEF Left, Handed
<1>6. UNION flights' = (UNION flights) \cup (UNION Handed(fUser, user)) \cup (UNION Handed(fSelf, self))
  BY <1>4
<1>7. Held' = InChan' \cup user \cup self \cup UNION flights
  BY <1>4, <1>5, <1>6 DEF Held
<1> QED
  BY <1>1, <1>3, <1>4, <1>7 DEF Held

LEMMA FlyIsSettle ==
  ASSUME WriterTypeOK, NEW batch \in SUBSET Rows, Fly(batch)
  PROVE  \E S, L \in SUBSET Rows : Promise!Settle(S, L)
<1>1. PICK rows \in Insertable(batch) : /\ tables' = tables \cup rows
                                        /\ dropped' = dropped \cup (batch \ rows)
  BY DEF Fly
<1>2. rows \subseteq batch /\ batch \in flights
  BY <1>1 DEF Insertable, Fly
<1>3. /\ UNION flights' \subseteq UNION flights
      /\ UNION flights \subseteq (UNION flights') \cup batch
  BY DEF Fly
<1>4. UNCHANGED <<InChan, insert_buffer, self_audit_buffer>>
  BY DEF Fly, InChan
<1>5. batch \subseteq Held
  BY <1>2 DEF Held
<1>6. Held' \subseteq Held /\ Held \ batch \subseteq Held'
  BY <1>3, <1>4 DEF Held
<1>7. rows \cup (batch \ rows) = batch
  BY <1>2
<1>8. Promise!Settle(rows, batch \ rows)
  BY <1>1, <1>5, <1>6, <1>7 DEF Promise!Settle
<1> QED
  BY <1>2, <1>8

(* The writer implements RowBuffer: what it was handed is in the channel,  *)
(* a buffer or a batch until it is stored or lost with a batch or the      *)
(* process.                                                                *)
THEOREM WriterKeepsPromise == WriterSpec => HeldUntilSettled
<1>1. WriterInit => Promise!Init
  BY DEF WriterInit, Promise!Init, Held, InChan
<1>2. WriterTypeOK /\ [WriterNext]_writerVars => [Promise!Next]_Promise!vars
  <2> SUFFICES ASSUME WriterTypeOK, [WriterNext]_writerVars PROVE [Promise!Next]_Promise!vars
    OBVIOUS
  <2>1. ASSUME NEW row \in Rows, Sent(row) PROVE Promise!Next
    BY <2>1, SentIsAccept DEF Promise!Next
  <2>2. CASE Turn
    BY <2>2, TurnKeepsRows DEF Promise!vars
  <2>3. ASSUME NEW batch \in SUBSET Rows, Fly(batch) PROVE Promise!Next
    BY <2>3, FlyIsSettle DEF Promise!Next
  <2>4. CASE WriterRestart
    <3>1. Held' = {}
      BY <2>4 DEF WriterRestart, Held, InChan
    <3>2. Held \subseteq Rows
      BY DEF Held, InChan, WriterTypeOK, Rows
    <3>3. Promise!Settle({}, Held)
      BY <2>4, <3>1 DEF WriterRestart, Promise!Settle
    <3> QED
      BY <3>2, <3>3 DEF Promise!Next
  <2>5. CASE UNCHANGED <<inMemory, tables, dropped>>
    BY <2>5 DEF inMemory, Held, InChan, Promise!vars
  <2>6. \/ \E row \in Rows : Sent(row)
        \/ Turn \/ WriterRestart
        \/ \E batch \in SUBSET Rows : Fly(batch)
        \/ UNCHANGED <<inMemory, tables, dropped>>
    BY DEF WriterNext, writerVars, SendUserAction, SendSelfAudit, Tick, Shutdown, Rows
  <2> QED
    BY <2>1, <2>2, <2>3, <2>4, <2>5, <2>6
<1> QED
  BY <1>1, <1>2, WriterTypeCorrect, PTL DEF WriterSpec, HeldUntilSettled, Promise!Spec

(***************************************************************************)
(* The pipeline.                                                           *)
(***************************************************************************)

LEMMA TypeInit == Init => TypeOK
BY EndAssumption, FaultsAssumption
   DEF Init, TypeOK, Offsets, NoOffset, Untracked

LEMMA MsgType == ASSUME NEW p \in Partitions, NEW o \in 0 .. End - 1
                 PROVE  Msg(p, o) \in Messages
BY DEF Msg, Messages

(* A replica that handles a message is behind the end of the partition.    *)
LEMMA HandleType == ASSUME TypeOK, NEW r \in Replicas, NEW p \in Partitions, Handle(r, p)
                    PROVE  /\ position[r][p] \in 0 .. End - 1
                           /\ position[r][p] + 1 \in Offsets
<1>1. position[r][p] \in 0 .. End /\ produced[p] \in 0 .. End
  BY DEF TypeOK, Offsets
<1> QED
  BY <1>1, EndAssumption DEF Handle, Offsets

LEMMA TypeStep == TypeOK /\ [Next]_vars => TypeOK'
<1> SUFFICES ASSUME TypeOK, [Next]_vars PROVE TypeOK'
  OBVIOUS
<1>1. ASSUME NEW p \in Partitions, Produce(p) PROVE TypeOK'
  <2>1. produced[p] + 1 \in Offsets
    BY <1>1, EndAssumption DEF Produce, TypeOK, Offsets
  <2> QED
    BY <1>1, <2>1 DEF Produce, TypeOK, faults
<1>2. CASE Rebalances
  <2>1. PICK group \in SUBSET Replicas : \E owner \in [Partitions -> group] : Rebalance(group, owner)
    BY <1>2 DEF Rebalances
  <2>2. PICK owner \in [Partitions -> group] : Rebalance(group, owner)
    BY <2>1
  <2>3. assigned' \in [Replicas -> SUBSET Partitions]
    BY <2>2 DEF Rebalance, TypeOK
  <2>4. position' \in [Replicas -> [Partitions -> Offsets]]
    BY <2>2 DEF Rebalance, TypeOK
  <2>5. restarts' \in 0 .. MaxRestarts /\ rebalances' \in 0 .. MaxRebalances
    BY <1>2, FaultsAssumption DEF Rebalances, TypeOK
  <2> QED
    BY <2>2, <2>3, <2>4, <2>5 DEF Rebalance, TypeOK
<1>3. ASSUME NEW r \in Replicas, NEW p \in Partitions, Handle(r, p) PROVE TypeOK'
  <2>1. held' \in [Replicas -> SUBSET Messages]
    BY <1>3, HandleType, MsgType DEF Handle, Taken, TypeOK
  <2>2. tracker' \in [Replicas -> [Partitions -> Offsets \cup {NoOffset}]]
    BY <1>3, HandleType DEF Handle, Passed, TypeOK
  <2>3. position' \in [Replicas -> [Partitions -> Offsets]]
    BY <1>3, HandleType DEF Handle, TypeOK
  <2> QED
    BY <1>3, <2>1, <2>2, <2>3 DEF Handle, TypeOK, faults
<1>4. ASSUME NEW r \in Replicas, Commit(r) PROVE TypeOK'
  <2>1. committed' \in [Partitions -> Offsets]
    BY <1>4 DEF Commit, TypeOK
  <2> QED
    BY <1>4, <2>1 DEF Commit, TypeOK, faults
<1>5. ASSUME NEW r \in Replicas, NEW rows \in SUBSET held[r], Flush(r, rows) \/ FlushFails(r, rows)
      PROVE  TypeOK'
  BY <1>5 DEF Flush, FlushFails, TypeOK, faults
<1>6. ASSUME NEW r \in Replicas, Restart(r) PROVE TypeOK'
  <2>1. Untracked \in [Partitions -> Offsets \cup {NoOffset}]
    BY DEF Untracked
  <2>2. restarts' \in 0 .. MaxRestarts
    BY <1>6, FaultsAssumption DEF Restart, TypeOK
  <2> QED
    BY <1>6, <2>1, <2>2 DEF Restart, TypeOK
<1>7. CASE UNCHANGED vars
  BY <1>7 DEF vars, faults, TypeOK
<1> QED
  BY <1>1, <1>2, <1>3, <1>4, <1>5, <1>6, <1>7 DEF Next, Step

(* The broker, the replicas and the table stay well-formed; in particular  *)
(* no offset that is fetched, tracked or committed is past the topic.      *)
THEOREM PipelineTypeCorrect == Spec => []TypeOK
BY TypeInit, TypeStep, PTL DEF Spec

-----------------------------------------------------------------------------
(* What was given to a bg writer stays given. *)
LEMMA GivenGrows == ASSUME TypeOK, [Next]_vars PROVE Given \subseteq Given'
<1>1. CASE UNCHANGED <<held, stored, lost>>
  BY <1>1 DEF Given
<1>2. ASSUME NEW r \in Replicas, NEW p \in Partitions, Handle(r, p)
      PROVE  Given \subseteq Given'
  <2>1. \A s \in Replicas : held[s] \subseteq held'[s]
    BY <1>2 DEF Handle, TypeOK
  <2> QED
    BY <1>2, <2>1 DEF Handle, Given
<1>3. ASSUME NEW r \in Replicas, NEW rows \in SUBSET held[r], Flush(r, rows) \/ FlushFails(r, rows)
      PROVE  Given \subseteq Given'
  <2>1. \A s \in Replicas : held[s] \subseteq held'[s] \cup rows
    BY <1>3 DEF Flush, FlushFails, TypeOK
  <2>2. /\ stored \subseteq stored' /\ lost \subseteq lost'
        /\ rows \subseteq stored' \cup lost'
    BY <1>3 DEF Flush, FlushFails
  <2> QED
    BY <2>1, <2>2 DEF Given
<1>4. ASSUME NEW r \in Replicas, Restart(r) PROVE Given \subseteq Given'
  <2>1. \A s \in Replicas : held[s] \subseteq held'[s] \cup lost'
    BY <1>4 DEF Restart, TypeOK
  <2>2. stored' = stored /\ lost \subseteq lost'
    BY <1>4 DEF Restart
  <2> QED
    BY <2>1, <2>2 DEF Given
<1>5. ASSUME NEW p \in Partitions, Produce(p) PROVE UNCHANGED <<held, stored, lost>>
  BY <1>5 DEF Produce
<1>6. ASSUME Rebalances PROVE UNCHANGED <<held, stored, lost>>
  BY <1>6 DEF Rebalances, Rebalance
<1>7. ASSUME NEW r \in Replicas, Commit(r) PROVE UNCHANGED <<held, stored, lost>>
  BY <1>7 DEF Commit
<1>8. ASSUME UNCHANGED vars PROVE UNCHANGED <<held, stored, lost>>
  BY <1>8 DEF vars
<1> QED
  BY <1>1, <1>2, <1>3, <1>4, <1>5, <1>6, <1>7, <1>8 DEF Next, Step

(* Nothing is skipped below the committed offsets because nothing is below *)
(* what the replicas track, and where they fetch.                          *)
SkipInv ==
  /\ TypeOK
  /\ NothingSkipped
  /\ \A r \in Replicas, p \in Partitions :
       /\ tracker[r][p] # NoOffset => GivenBelow(p, tracker[r][p])
       /\ p \in assigned[r] => GivenBelow(p, position[r][p])

LEMMA SkipStep == SkipInv /\ [Next]_vars => SkipInv'
<1> SUFFICES ASSUME SkipInv, [Next]_vars PROVE SkipInv'
  OBVIOUS
<1>0. TypeOK /\ TypeOK' /\ Given \subseteq Given'
  BY TypeStep, GivenGrows DEF SkipInv
<1>a. \A p \in Partitions : committed[p] \in Offsets /\ GivenBelow(p, committed[p])
  BY DEF SkipInv, NothingSkipped, TypeOK
<1>b. \A r \in Replicas, p \in Partitions :
        tracker[r][p] # NoOffset => tracker[r][p] \in Offsets /\ GivenBelow(p, tracker[r][p])
  BY DEF SkipInv, TypeOK
<1>c. \A r \in Replicas, p \in Partitions :
        p \in assigned[r] => position[r][p] \in Offsets /\ GivenBelow(p, position[r][p])
  BY DEF SkipInv, TypeOK
<1>1. ASSUME NEW p \in Partitions PROVE GivenBelow(p, committed[p])'
  <2>1. CASE committed'[p] = committed[p]
    BY <1>0, <1>a, <2>1 DEF GivenBelow, Good, Msg
  <2>2. CASE committed'[p] # committed[p]
    <3>1. PICK r \in Replicas : Commit(r)
      BY <2>2 DEF Next, Step, vars, Produce, Rebalances, Rebalance, Handle, Flush,
                  FlushFails, Restart
    <3>2. tracker[r][p] # NoOffset /\ committed'[p] = tracker[r][p]
      BY <2>2, <3>1 DEF Commit
    <3> QED
      BY <1>0, <1>b, <3>2 DEF GivenBelow, Good, Msg
  <2> QED
    BY <2>1, <2>2
<1>2. ASSUME NEW r \in Replicas, NEW p \in Partitions, p \in assigned'[r]
      PROVE  GivenBelow(p, position[r][p])'
  <2>1. CASE p \in assigned[r] /\ position'[r][p] = position[r][p]
    BY <1>0, <1>c, <2>1 DEF GivenBelow, Good, Msg
  <2>2. ASSUME NEW q \in Partitions, NEW s \in Replicas, Handle(s, q)
        PROVE  GivenBelow(p, position[r][p])'
    <3>1. p \in assigned[r]
      BY <1>2, <2>2 DEF Handle
    <3>2. CASE s = r /\ q = p
      <4>0. position[r][p] \in 0 .. End - 1
        BY <1>0, <2>2, <3>2, HandleType
      <4>1. position'[r][p] = position[r][p] + 1
        BY <1>0, <2>2, <3>2 DEF Handle, TypeOK
      <4>2. Good(p, position[r][p]) => Msg(p, position[r][p]) \in Given'
        BY <1>0, <2>2, <3>2 DEF Handle, Taken, Good, Given, TypeOK
      <4>3. \A o \in 0 .. position[r][p] - 1 : Good(p, o) => Msg(p, o) \in Given'
        BY <1>0, <1>c, <3>1 DEF GivenBelow, Good, Msg
      <4> QED
        BY <4>0, <4>1, <4>2, <4>3, EndAssumption DEF GivenBelow, Good, Msg
    <3>3. CASE ~ (s = r /\ q = p)
      <4>1. position'[r][p] = position[r][p]
        BY <1>0, <2>2, <3>3 DEF Handle, TypeOK
      <4> QED
        BY <2>1, <3>1, <4>1
    <3> QED
      BY <3>2, <3>3
  <2>3. CASE Rebalances
    <3>1. PICK group \in SUBSET Replicas : \E owner \in [Partitions -> group] : Rebalance(group, owner)
      BY <2>3 DEF Rebalances
    <3>2. CASE r \in group
      <4>1. position'[r][p] = committed[p]
        BY <3>1, <3>2 DEF Rebalance
      <4> QED
        BY <1>0, <1>a, <4>1 DEF GivenBelow, Good, Msg
    <3>3. CASE r \notin group
      BY <1>2, <2>1, <3>1, <3>3 DEF Rebalance
    <3> QED
      BY <3>2, <3>3
  <2>4. ASSUME NEW s \in Replicas, Restart(s) PROVE GivenBelow(p, position[r][p])'
    BY <1>0, <1>2, <2>1, <2>4 DEF Restart, TypeOK
  <2>5. CASE UNCHANGED <<assigned, position>>
    BY <1>2, <2>1, <2>5
  <2>6. (\E s \in Replicas, q \in Partitions : Handle(s, q)) \/ Rebalances
        \/ (\E s \in Replicas : Restart(s)) \/ UNCHANGED <<assigned, position>>
    BY DEF Next, Step, vars, Produce, Commit, Flush, FlushFails
  <2> QED
    BY <2>2, <2>3, <2>4, <2>5, <2>6
<1>3. ASSUME NEW r \in Replicas, NEW p \in Partitions, tracker'[r][p] # NoOffset
      PROVE  GivenBelow(p, tracker[r][p])'
  <2>1. CASE tracker'[r][p] = tracker[r][p]
    BY <1>0, <1>3, <1>b, <2>1 DEF GivenBelow, Good, Msg
  <2>2. ASSUME NEW q \in Partitions, NEW s \in Replicas, Handle(s, q)
        PROVE  GivenBelow(p, tracker[r][p])'
    <3>1. CASE s = r /\ q = p
      <4>1. /\ tracker'[r][p] = position[r][p] + 1 /\ position'[r][p] = position[r][p] + 1
            /\ p \in assigned'[r]
        BY <1>0, <2>2, <3>1 DEF Handle, Passed, TypeOK
      <4> QED
        BY <1>2, <4>1 DEF GivenBelow
    <3>2. CASE ~ (s = r /\ q = p)
      <4>1. tracker'[r][p] = tracker[r][p]
        BY <1>0, <2>2, <3>2 DEF Handle, Passed, TypeOK
      <4> QED
        BY <2>1, <4>1
    <3> QED
      BY <3>1, <3>2
  <2>3. ASSUME NEW s \in Replicas, Restart(s) PROVE GivenBelow(p, tracker[r][p])'
    <3>1. CASE s = r
      BY <1>0, <1>3, <2>3, <3>1 DEF Restart, Untracked, TypeOK
    <3>2. CASE s # r
      BY <1>0, <2>1, <2>3, <3>2 DEF Restart, TypeOK
    <3> QED
      BY <3>1, <3>2
  <2>4. CASE UNCHANGED tracker
    BY <2>1, <2>4
  <2>5. (\E s \in Replicas, q \in Partitions : Handle(s, q))
        \/ (\E s \in Replicas : Restart(s)) \/ UNCHANGED tracker
    BY DEF Next, Step, vars, Produce, Commit, Flush, FlushFails, Rebalances, Rebalance
  <2> QED
    BY <2>2, <2>3, <2>4, <2>5
<1> QED
  <2>1. NothingSkipped'
    BY <1>1 DEF NothingSkipped
  <2> QED
    BY <1>0, <1>2, <1>3, <2>1 DEF SkipInv

(* Whatever the group does, and however often replicas restart and commits *)
(* go back, no message below the committed offset of its partition was     *)
(* kept from the bg writers.                                               *)
THEOREM PipelineSkipsNothing == Spec => []NothingSkipped
<1>1. Init => SkipInv
  BY TypeInit DEF Init, SkipInv, NothingSkipped, GivenBelow, Untracked
<1>2. SkipInv => NothingSkipped
  BY DEF SkipInv
<1> QED
  BY <1>1, <1>2, SkipStep, PTL DEF Spec

-----------------------------------------------------------------------------
(* The rows of all the replicas, as one RowBuffer.  A flush of one replica *)
(* settles its rows although another may hold a second copy of them, which *)
(* a message that is handled twice leaves.                                 *)

AllHeld == UNION {held[r] : r \in Replicas}

(* No bg writer is given junk: what it holds are rows. *)
RowsOnly == \A r \in Replicas : held[r] \subseteq Messages \ Junk

BufferInv == TypeOK /\ RowsOnly

LEMMA BufferStep == BufferInv /\ [Next]_vars => BufferInv'
<1> SUFFICES ASSUME BufferInv, [Next]_vars PROVE RowsOnly'
  BY TypeStep DEF BufferInv
<1>0. TypeOK /\ RowsOnly
  BY DEF BufferInv
<1>1. ASSUME NEW r \in Replicas, NEW p \in Partitions, Handle(r, p) PROVE RowsOnly'
  <2>1. Msg(p, position[r][p]) \in Messages
    BY <1>0, <1>1, HandleType, MsgType
  <2> QED
    BY <1>0, <1>1, <2>1 DEF Handle, Taken, RowsOnly, TypeOK
<1>2. ASSUME NEW r \in Replicas, NEW rows \in SUBSET held[r], Flush(r, rows) \/ FlushFails(r, rows)
      PROVE  RowsOnly'
  BY <1>0, <1>2 DEF Flush, FlushFails, RowsOnly, TypeOK
<1>3. ASSUME NEW r \in Replicas, Restart(r) PROVE RowsOnly'
  BY <1>0, <1>3 DEF Restart, RowsOnly, TypeOK
<1>4. CASE UNCHANGED held
  BY <1>0, <1>4 DEF RowsOnly
<1>5. \/ \E r \in Replicas, p \in Partitions : Handle(r, p)
      \/ \E r \in Replicas : \E rows \in SUBSET held[r] : Flush(r, rows) \/ FlushFails(r, rows)
      \/ \E r \in Replicas : Restart(r)
      \/ UNCHANGED held
  BY DEF Next, Step, vars, Produce, Commit, Rebalances, Rebalance
<1> QED
  BY <1>1, <1>2, <1>3, <1>4, <1>5

(* Only "r" changes, and the rows that leave it are settled. *)
LEMMA SettleStep ==
  ASSUME BufferInv, NEW r \in Replicas, NEW S \in SUBSET held[r], NEW L \in SUBSET held[r],
         held' = [held EXCEPT ![r] = @ \ (S \cup L)],
         stored' = stored \cup S, lost' = lost \cup L
  PROVE  Writers!Settle(S, L) /\ S \in SUBSET (Messages \ Junk) /\ L \in SUBSET (Messages \ Junk)
<1>1. held'[r] = held[r] \ (S \cup L) /\ \A s \in Replicas \ {r} : held'[s] = held[s]
  BY DEF BufferInv, TypeOK
<1>2. S \cup L \subseteq AllHeld /\ AllHeld' \subseteq AllHeld
  BY <1>1 DEF AllHeld
<1>3. AllHeld \ (S \cup L) \subseteq AllHeld'
  <2> SUFFICES ASSUME NEW s \in Replicas, NEW m \in held[s], m \notin S \cup L
               PROVE  m \in held'[s]
    BY DEF AllHeld
  <2> QED
    BY <1>1
<1>4. S \in SUBSET (Messages \ Junk) /\ L \in SUBSET (Messages \ Junk)
  BY DEF BufferInv, RowsOnly
<1> QED
  BY <1>2, <1>3, <1>4 DEF Writers!Settle, AllHeld

LEMMA WritersStep == BufferInv /\ [Next]_vars => [Writers!Next]_Writers!vars
<1> SUFFICES ASSUME BufferInv, [Next]_vars PROVE [Writers!Next]_Writers!vars
  OBVIOUS
<1>0. TypeOK /\ RowsOnly
  BY DEF BufferInv
<1>1. ASSUME NEW r \in Replicas, NEW p \in Partitions, Handle(r, p)
      PROVE  [Writers!Next]_Writers!vars
  <2> DEFINE m == Msg(p, position[r][p])
  <2>1. m \in Messages
    BY <1>0, <1>1, HandleType, MsgType
  <2>2. /\ held'[r] = held[r] \cup Taken(m)
        /\ \A s \in Replicas \ {r} : held'[s] = held[s]
        /\ UNCHANGED <<stored, lost>>
    BY <1>0, <1>1 DEF Handle, TypeOK
  <2> HIDE DEF m
  <2>3. AllHeld' = AllHeld \cup Taken(m)
    BY <2>2 DEF AllHeld
  <2>4. CASE m \in Junk
    <3>1. AllHeld' = AllHeld
      BY <2>3, <2>4 DEF Taken
    <3> QED
      BY <2>2, <3>1 DEF Writers!vars, AllHeld
  <2>5. CASE m \notin Junk
    <3>1. AllHeld' = AllHeld \cup {m}
      BY <2>3, <2>5 DEF Taken
    <3>2. \E row \in Messages \ Junk : Writers!Accept(row)
      BY <2>1, <2>2, <2>5, <3>1 DEF Writers!Accept, AllHeld
    <3> QED
      BY <3>2 DEF Writers!Next
  <2> QED
    BY <2>4, <2>5
<1>2. ASSUME NEW r \in Replicas, NEW rows \in SUBSET held[r], Flush(r, rows)
      PROVE  Writers!Next
  <2>1. /\ held' = [held EXCEPT ![r] = @ \ (rows \cup {})]
        /\ stored' = stored \cup rows /\ lost' = lost \cup {}
    BY <1>2 DEF Flush
  <2> QED
    BY <2>1, SettleStep DEF Writers!Next
<1>3. ASSUME NEW r \in Replicas, NEW rows \in SUBSET held[r], FlushFails(r, rows)
      PROVE  Writers!Next
  <2>1. /\ held' = [held EXCEPT ![r] = @ \ ({} \cup rows)]
        /\ stored' = stored \cup {} /\ lost' = lost \cup rows
    BY <1>3 DEF FlushFails
  <2> QED
    BY <2>1, SettleStep DEF Writers!Next
<1>4. ASSUME NEW r \in Replicas, Restart(r) PROVE Writers!Next
  <2>1. /\ held' = [held EXCEPT ![r] = @ \ ({} \cup held[r])]
        /\ stored' = stored \cup {} /\ lost' = lost \cup held[r]
    BY <1>0, <1>4 DEF Restart, TypeOK
  <2> QED
    BY <2>1, SettleStep DEF Writers!Next
<1>5. CASE UNCHANGED <<held, stored, lost>>
  BY <1>5 DEF Writers!vars
<1>6. \/ \E r \in Replicas, p \in Partitions : Handle(r, p)
      \/ \E r \in Replicas : \E rows \in SUBSET held[r] : Flush(r, rows) \/ FlushFails(r, rows)
      \/ \E r \in Replicas : Restart(r)
      \/ UNCHANGED <<held, stored, lost>>
  BY DEF Next, Step, vars, Produce, Commit, Rebalances, Rebalance
<1> QED
  BY <1>1, <1>2, <1>3, <1>4, <1>5, <1>6

(* The pipeline relies on nothing of its bg writers but what RowBuffer     *)
(* promises and BgWriter keeps: whatever the group does and whichever      *)
(* replica restarts, rows come in one by one, and leave memory for the     *)
(* table or are counted lost.                                              *)
THEOREM PipelineUsesWriters == Spec => WritersAsPromised
<1>1. Init => BufferInv
  BY TypeInit DEF Init, BufferInv, RowsOnly
<1>2. Init => Writers!Init
  BY DEF Init, Writers!Init
<1> QED
  BY <1>1, <1>2, BufferStep, WritersStep, PTL DEF Spec, WritersAsPromised, Writers!Spec
=============================================================================
