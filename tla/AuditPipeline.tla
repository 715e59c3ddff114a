---------------------------- MODULE AuditPipeline ---------------------------
(***************************************************************************)
(* The audit topic from Kafka to the table: consumer_loop_base on every    *)
(* replica (backend/src/messaging/), its offset tracker, the commits, and  *)
(* the rows each replica holds until its bg writer has flushed them        *)
(* (BgWriter; here only what RowBuffer promises).                          *)
(*                                                                         *)
(* External: Kafka.  The group assigns each partition to one member, a     *)
(* member that is assigned a partition starts at the committed offset, a   *)
(* commit of a member of the group is taken as it is, one of a consumer    *)
(* that is no longer a member is refused.                                  *)
(***************************************************************************)
EXTENDS Integers, FiniteSets

CONSTANTS
  Replicas,
  Partitions,
  End,           (* messages a partition receives                          *)
  Junk,          (* messages no handler takes: unknown type, bad JSON      *)
  MaxRestarts,   (* bound on restarts                                      *)
  MaxRebalances  (* bound on rebalances that no orphaned partition asks for *)

Offsets  == 0 .. End
Messages == [partition : Partitions, offset : 0 .. End - 1]
NoOffset == -1

ASSUME EndAssumption    == End \in Nat
ASSUME JunkAssumption   == Junk \subseteq Messages
ASSUME FaultsAssumption == MaxRestarts \in Nat /\ MaxRebalances \in Nat

VARIABLES
  produced,     (* messages of the partition so far                        *)
  committed,    (* the offset of the group                                 *)
  members,      (* replicas in the current generation of the group         *)
  assigned,     (* what each replica believes it is assigned               *)
  position,     (* next offset each replica fetches                        *)
  tracker,      (* offset_tracker.offsets of each replica                  *)
  held,         (* rows each replica's bg writer has and has not stored    *)
  stored,       (* audit_records_selfservice                               *)
  lost,         (* ghost: rows lost with a flush or a process              *)
  restarts,
  rebalances

faults == <<restarts, rebalances>>

vars == <<produced, committed, members, assigned, position, tracker,
          held, stored, lost, faults>>

TypeOK ==
  /\ produced \in [Partitions -> Offsets]
  /\ committed \in [Partitions -> Offsets]
  /\ members \subseteq Replicas
  /\ assigned \in [Replicas -> SUBSET Partitions]
  /\ position \in [Replicas -> [Partitions -> Offsets]]
  /\ tracker \in [Replicas -> [Partitions -> Offsets \cup {NoOffset}]]
  /\ held \in [Replicas -> SUBSET Messages]
  /\ stored \subseteq Messages /\ lost \subseteq Messages
  /\ restarts \in 0 .. MaxRestarts
  /\ rebalances \in 0 .. MaxRebalances

Untracked == [p \in Partitions |-> NoOffset]

Init ==
  /\ produced = [p \in Partitions |-> 0]
  /\ committed = [p \in Partitions |-> 0]
  /\ members = {}
  /\ assigned = [r \in Replicas |-> {}]
  /\ position = [r \in Replicas |-> [p \in Partitions |-> 0]]
  /\ tracker = [r \in Replicas |-> Untracked]
  /\ held = [r \in Replicas |-> {}]
  /\ stored = {}
  /\ lost = {}
  /\ restarts = 0 /\ rebalances = 0

Msg(p, o) == [partition |-> p, offset |-> o]

-----------------------------------------------------------------------------
Produce(p) ==
  /\ produced[p] < End
  /\ produced' = [produced EXCEPT ![p] = @ + 1]
  /\ UNCHANGED <<committed, members, assigned, position, tracker, held, stored, lost, faults>>

(* Every partition goes to a member; who is a member now is reset to the   *)
(* committed offsets, who is not any more learns it later.                 *)
Rebalance(group, owner) ==
  /\ group # {}
  /\ members' = group
  /\ assigned' = [r \in Replicas |->
                    IF r \in group THEN {p \in Partitions : owner[p] = r} ELSE assigned[r]]
  /\ position' = [r \in Replicas |-> IF r \in group THEN committed ELSE position[r]]
  /\ UNCHANGED <<produced, committed, tracker, held, stored, lost>>

(* Somebody's partitions are nobody's. *)
Orphaned == \E p \in Partitions : \A r \in members : p \notin assigned[r]

(* A rebalance is due when a partition has no member, and may happen       *)
(* besides: a replica joins, or is late and is put out of the group.       *)
Rebalances ==
  \E group \in SUBSET Replicas : \E owner \in [Partitions -> group] :
    /\ Rebalance(group, owner)
    /\ \/ Orphaned /\ UNCHANGED rebalances
       \/ ~ Orphaned /\ rebalances < MaxRebalances /\ rebalances' = rebalances + 1
    /\ UNCHANGED restarts

-----------------------------------------------------------------------------
(* poll returned a message                                                 *)

(* Wrong: the offset of the message after the next is kept. *)
Passed_Two(r, p) == [tracker EXCEPT ![r][p] = position[r][p] + 2]

(* offset_tracker.insert(partition, offset + 1), whatever the handler said *)
Passed(r, p) == [tracker EXCEPT ![r][p] = position[r][p] + 1]

(* Wrong: a message of an unknown type is handed over like any other. *)
Taken_All(msg) == {msg}

Taken(msg) == {msg} \ Junk

Handle(r, p) ==
  /\ p \in assigned[r]
  /\ position[r][p] < produced[p]
  /\ held' = [held EXCEPT ![r] = @ \cup Taken(Msg(p, position[r][p]))]
  /\ tracker' = Passed(r, p)
  /\ position' = [position EXCEPT ![r][p] = @ + 1]
  /\ UNCHANGED <<produced, committed, members, assigned, stored, lost, faults>>

(* poll returned nothing, and it is 30 seconds since the last commit: all  *)
(* of the tracker is committed, whatever the replica is assigned by now.   *)
Commit(r) ==
  /\ r \in members
  /\ committed' = [p \in Partitions |->
                     IF tracker[r][p] = NoOffset THEN committed[p] ELSE tracker[r][p]]
  /\ UNCHANGED <<produced, members, assigned, position, tracker, held, stored, lost, faults>>

-----------------------------------------------------------------------------
(* The bg writer: rows are stored, or lost by a flush that fails.          *)

Flush(r, rows) ==
  /\ rows # {} /\ rows \subseteq held[r]
  /\ held' = [held EXCEPT ![r] = @ \ rows]
  /\ stored' = stored \cup rows
  /\ UNCHANGED <<produced, committed, members, assigned, position, tracker, lost, faults>>

FlushFails(r, rows) ==
  /\ rows # {} /\ rows \subseteq held[r]
  /\ held' = [held EXCEPT ![r] = @ \ rows]
  /\ lost' = lost \cup rows
  /\ UNCHANGED <<produced, committed, members, assigned, position, tracker, stored, faults>>

(* The process ends and is started again: main waits for neither the       *)
(* consumer nor the writer, and nothing commits on the way out.            *)
Restart(r) ==
  /\ restarts < MaxRestarts
  /\ restarts' = restarts + 1
  /\ members' = members \ {r}
  /\ assigned' = [assigned EXCEPT ![r] = {}]
  /\ tracker' = [tracker EXCEPT ![r] = Untracked]
  /\ held' = [held EXCEPT ![r] = {}]
  /\ lost' = lost \cup held[r]
  /\ UNCHANGED <<produced, committed, position, stored, rebalances>>

Step(r) ==
  \/ \E p \in Partitions : Handle(r, p)
  \/ Commit(r)
  \/ \E rows \in SUBSET held[r] : Flush(r, rows) \/ FlushFails(r, rows)

Next ==
  \/ \E p \in Partitions : Produce(p)
  \/ Rebalances
  \/ \E r \in Replicas : Step(r) \/ Restart(r)

Spec == Init /\ [][Next]_vars

(* Messages come, the group gives every partition to somebody, the loops   *)
(* turn, and a poll returns nothing once in a while.                       *)
FairSpec ==
  /\ Spec
  /\ \A p \in Partitions : WF_vars(Produce(p))
  /\ WF_vars(Orphaned /\ Rebalances)
  /\ \A r \in Replicas :
       /\ \A p \in Partitions : WF_vars(Handle(r, p))
       /\ WF_vars(Commit(r))
       /\ WF_vars(\E rows \in SUBSET held[r] : Flush(r, rows) \/ FlushFails(r, rows))

-----------------------------------------------------------------------------
Good(p, o) == Msg(p, o) \notin Junk

(* What a bg writer was given. *)
Given == stored \cup lost \cup UNION {held[r] : r \in Replicas}

GivenBelow(p, x) == \A o \in 0 .. x - 1 : Good(p, o) => Msg(p, o) \in Given

(* No message is skipped: through rebalances, restarts, commits that go    *)
(* back and commits of partitions a replica has lost, the group's offset   *)
(* never passes a message that no bg writer was given.                     *)
NothingSkipped == \A p \in Partitions : GivenBelow(p, committed[p])

(* The pipeline takes no more from the bg writers than RowBuffer promises, *)
(* and BgWriter keeps: rows leave memory for the table or are lost.        *)
Writers == INSTANCE RowBuffer WITH Rows <- Messages \ Junk,
                                   held <- UNION {held[r] : r \in Replicas}
WritersAsPromised == Writers!Spec

(* Every user action that is produced gets to the table, or is lost in a   *)
(* way that was seen: a failed flush, or the end of a process.             *)
Delivered ==
  \A p \in Partitions : \A o \in 0 .. End - 1 :
    Good(p, o) => <>(Msg(p, o) \in stored \cup lost)
=============================================================================
