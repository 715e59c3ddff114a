------------------------------ MODULE BgWriter ------------------------------
(***************************************************************************)
(* The bg writer of one replica (backend/src/service/bg/mod.rs): a thread  *)
(* that takes rows from an unbounded channel, collects them in two buffers *)
(* and hands a buffer to a thread of its own when more than five seconds   *)
(* have passed since the last hand-over.                                   *)
(*                                                                         *)
(* The channel is filled by the Kafka consumer (UserAction) and by the     *)
(* audit_usage middleware of the API (SelfAudit).                          *)
(***************************************************************************)
EXTENDS Integers, Sequences

CONSTANTS
  UserRows,    (* message_ids from Kafka, which may deliver one twice      *)
  SelfRows,    (* message_ids of the API's own audit rows                  *)
  Poison,      (* user rows with a timestamp chrono cannot represent       *)
  PERIOD,      (* the five seconds, in ticks                               *)
  MaxChan      (* bound on the channel, which has none                     *)

ASSUME RowsAssumption   == UserRows \cap SelfRows = {} /\ Poison \subseteq UserRows
ASSUME PeriodAssumption == PERIOD \in Nat /\ MaxChan \in Nat \ {0}

Rows == UserRows \cup SelfRows

VARIABLES
  chan,               (* the crossbeam channel                             *)
  insert_buffer,
  self_audit_buffer,
  age,                (* ticks since last_insert_time, up to PERIOD + 1    *)
  turned,             (* the loop has turned since the last tick           *)
  flights,            (* batches the flush threads work on                 *)
  stopping,           (* shutdown.exit was triggered                       *)
  running,            (* the writer's loop has not ended                   *)
  tables,             (* audit_records_selfservice and ssumgmt_audit      *)
  dropped,            (* ghost: rows lost with a batch or the process      *)
  waited              (* ghost: ticks since insert_buffer became non-empty *)

inMemory == <<chan, insert_buffer, self_audit_buffer, flights>>
writerVars == <<inMemory, age, turned, stopping, running, tables, dropped, waited>>

InChan == {chan[i] : i \in DOMAIN chan}
Held   == InChan \cup insert_buffer \cup self_audit_buffer \cup UNION flights

(* Types; a flush thread has something to do. *)
WriterTypeOK ==
  /\ chan \in Seq(Rows) /\ Len(chan) <= MaxChan
  /\ insert_buffer \subseteq UserRows
  /\ self_audit_buffer \subseteq SelfRows
  /\ age \in 0 .. PERIOD + 1
  /\ flights \subseteq (SUBSET Rows) \ {{}}
  /\ {turned, stopping, running} \subseteq BOOLEAN
  /\ tables \subseteq Rows /\ dropped \subseteq Rows
  /\ waited \in 0 .. PERIOD + 2

WriterInit ==
  /\ chan = <<>> /\ insert_buffer = {} /\ self_audit_buffer = {} /\ flights = {}
  /\ age = 0 /\ turned = TRUE
  /\ stopping = FALSE /\ running = TRUE
  /\ tables = {} /\ dropped = {} /\ waited = 0

-----------------------------------------------------------------------------
(* The environment: both senders, the clock, the shutdown signal.          *)

Sent(row) ==
  /\ Len(chan) < MaxChan
  /\ chan' = Append(chan, row)
  /\ UNCHANGED <<insert_buffer, self_audit_buffer, age, turned, flights,
                 stopping, running, tables, dropped, waited>>

(* user_action_handler *)
SendUserAction(row) == row \in UserRows /\ Sent(row)

(* audit_usage: a fresh uuid for each request *)
SendSelfAudit(row) ==
  /\ row \in SelfRows \ (Held \cup tables \cup dropped)
  /\ Sent(row)

(* recv_timeout gives up after a second, so the loop turns in every tick.  *)
Tick ==
  /\ turned \/ ~ running
  /\ age' = IF age <= PERIOD THEN age + 1 ELSE age
  /\ waited' = IF insert_buffer # {} /\ waited <= PERIOD + 1 THEN waited + 1 ELSE waited
  /\ turned' = FALSE
  /\ UNCHANGED <<inMemory, stopping, running, tables, dropped>>

Shutdown ==
  /\ stopping' = TRUE
  /\ UNCHANGED <<inMemory, age, turned, running, tables, dropped, waited>>

-----------------------------------------------------------------------------
(* One turn of the loop                                                    *)

Received == IF chan = <<>> THEN {} ELSE {Head(chan)}

(* Wrong: a batch is handed over although it is empty. *)
Due_Empty(a, buffer) == a > PERIOD

Due(a, buffer) == a > PERIOD /\ buffer # {}

(* Wrong: the self-audit buffer is looked at first. *)
FlushesUser_Second(user, self) == Due(IF Due(age, self) THEN 0 ELSE age, user)

FlushesUser(user, self) == Due(age, user)

(* last_insert_time may just have been set by the flush of the other. *)
FlushesSelf(user, self) == Due(IF FlushesUser(user, self) THEN 0 ELSE age, self)

(* Wrong: the buffer is replaced whether it was handed over or not. *)
Left_Cleared(flushed, buffer) == {}

Left(flushed, buffer) == IF flushed THEN {} ELSE buffer

Handed(flushed, buffer) == IF flushed THEN {buffer} ELSE {}

Turn ==
  /\ running
  /\ LET user  == insert_buffer \cup (Received \cap UserRows)
         self  == self_audit_buffer \cup (Received \cap SelfRows)
         fUser == FlushesUser(user, self)
         fSelf == FlushesSelf(user, self)
     IN /\ insert_buffer' = Left(fUser, user)
        /\ self_audit_buffer' = Left(fSelf, self)
        /\ flights' = flights \cup Handed(fUser, user) \cup Handed(fSelf, self)
        /\ age' = IF fUser \/ fSelf THEN 0 ELSE age
        /\ waited' = IF insert_buffer = {} \/ fUser THEN 0 ELSE waited
  /\ chan' = IF chan = <<>> THEN chan ELSE Tail(chan)
  /\ turned' = TRUE
  /\ running' = ~ stopping
  /\ UNCHANGED <<stopping, tables, dropped>>

-----------------------------------------------------------------------------
(* The flush threads.  Rows go to the table in chunks; no connection, a    *)
(* failed insert or a timestamp out of range ends the thread, and what it  *)
(* has not inserted is gone.  on_conflict_do_nothing absorbs a row that is *)
(* there already.                                                          *)

Insertable(batch) == IF batch \cap Poison = {} THEN SUBSET batch ELSE {{}}

Fly(batch) ==
  /\ batch \in flights
  /\ \E rows \in Insertable(batch) :
       /\ tables' = tables \cup rows
       /\ dropped' = dropped \cup (batch \ rows)
  /\ flights' = flights \ {batch}
  /\ UNCHANGED <<chan, insert_buffer, self_audit_buffer, age, turned,
                 stopping, running, waited>>

(* The process ends, after a shutdown or not, and is started again.        *)
WriterRestart ==
  /\ dropped' = dropped \cup Held
  /\ chan' = <<>> /\ insert_buffer' = {} /\ self_audit_buffer' = {} /\ flights' = {}
  /\ age' = 0 /\ turned' = TRUE /\ stopping' = FALSE /\ running' = TRUE
  /\ waited' = 0
  /\ UNCHANGED tables

WriterNext ==
  \/ \E row \in UserRows : SendUserAction(row)
  \/ \E row \in SelfRows : SendSelfAudit(row)
  \/ Tick
  \/ Shutdown
  \/ Turn
  \/ \E batch \in SUBSET Rows : Fly(batch)
  \/ WriterRestart

WriterSpec == WriterInit /\ [][WriterNext]_writerVars

(* The threads are scheduled and time passes. *)
WriterFairSpec ==
  /\ WriterSpec
  /\ WF_writerVars(Turn) /\ WF_writerVars(Tick)
  /\ \A batch \in SUBSET Rows : WF_writerVars(Fly(batch))

-----------------------------------------------------------------------------
(* The writer keeps the promise of RowBuffer.  No row disappears between   *)
(* the channel, the two buffers and the flush threads, in whatever order   *)
(* the rows come and the buffers are due.                                  *)
Promise == INSTANCE RowBuffer WITH held <- Held, stored <- tables, lost <- dropped
HeldUntilSettled == Promise!Spec

(* A user action waits for the next hand-over and not longer, although the *)
(* hand-over of the self-audit buffer resets the same last_insert_time.    *)
UserActionsPrompt == running => waited <= PERIOD + 1

(* "Flush the self-audit buffer on the same cadence": a row that is in the *)
(* self-audit buffer leaves it, unless the writer is shut down.            *)
SelfAuditPersisted ==
  \A row \in SelfRows :
    row \in self_audit_buffer ~> row \notin self_audit_buffer \/ ~ running
=============================================================================
