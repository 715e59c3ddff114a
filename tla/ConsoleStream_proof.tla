------------------------ MODULE ConsoleStream_proof ------------------------
(***************************************************************************)
(* Theorems about the console stream, for any replicas, workers and        *)
(* consoles, any placement of them, and any number of changes and faults.  *)
(*                                                                         *)
(* StaleIsKnown speaks of a socket that waits for signals.  It is carried  *)
(* through a push by ReadsKnown, which says the same of the parts that     *)
(* have been read and not been sent.                                       *)
(***************************************************************************)
EXTENDS ConsoleStream, TLAPS

LEMMA PartsLen == Len(Parts) = 3
  BY DEF Parts

-----------------------------------------------------------------------------
(* Types: what the sockets are, and the rest. *)

SocketsOK ==
  /\ pc \in [Consoles -> {"closed", "idle", "debounce", "reading", "sending"}]
  /\ signal \in [Consoles -> BOOLEAN]
  /\ read \in [Consoles -> Seq(0 .. MaxWrites)]
  /\ shown \in [Consoles -> Seq(0 .. MaxWrites)]
  /\ \A c \in Consoles :
       /\ pc[c] \in {"closed", "idle", "debounce"} => read[c] = <<>>
       /\ pc[c] = "reading" => Len(read[c]) < Len(Parts)
       /\ pc[c] = "sending" => Len(read[c]) = Len(Parts)

RestOK ==
  /\ db \in 0 .. MaxWrites
  /\ worker \in [Workers -> {"idle", "tx", "wrote", "notified"}]
  /\ up \in [Replicas -> BOOLEAN]
  /\ pending \in [Replicas -> Nat]
  /\ \A r \in Replicas : ~up[r] => pending[r] = 0
  /\ lost \in [Consoles -> 0 .. MaxWrites]
  /\ faults \in 0 .. MaxFaults

LEMMA TypeSplit == TypeOK <=> RestOK /\ SocketsOK
  BY DEF TypeOK, RestOK, SocketsOK

LEMMA TypeInit == Init => TypeOK
<1> SUFFICES ASSUME Init PROVE TypeOK
  OBVIOUS
<1>1. RestOK
  BY BoundsAssumption DEF Init, RestOK
<1>2. SocketsOK
  <2>1. <<>> \in Seq(0 .. MaxWrites)
    OBVIOUS
  <2> QED
    BY <2>1 DEF Init, SocketsOK
<1> QED
  BY <1>1, <1>2, TypeSplit

LEMMA PublishType == ASSUME SocketsOK, NEW r \in Replicas, Publish(r) PROVE SocketsOK'
<1>1. \A c \in Consoles : (signal[c] \/ (ServedBy[c] = r /\ Subscribed(c))) \in BOOLEAN
  BY DEF SocketsOK, Subscribed
<1>2. signal' \in [Consoles -> BOOLEAN]
  BY <1>1 DEF Publish
<1> QED
  BY <1>2 DEF Publish, SocketsOK

SocketStep(c) == Connect(c) \/ Push(c) \/ ReadFails(c) \/ Close(c)

WorkerStep(w) ==
  \/ Write(w) \/ Notify(w) \/ PublishLocal(w) \/ NotifyFails(w) \/ RunError(w)
  \/ Abandon(w) \/ Begin(w) \/ Commit(w) \/ Rollback(w)

RelayStep(r) == Listen(r) \/ Repeat(r) \/ RelayDrops(r)

LEMMA NextSplit ==
  Next <=> \/ \E w \in Workers : WorkerStep(w)
           \/ SilentChange
           \/ \E r \in Replicas : RelayStep(r)
           \/ \E c \in Consoles : SocketStep(c)
  BY DEF Next, Announce, WorkerStep, RelayStep, SocketStep

LEMMA SocketStepType ==
  ASSUME RestOK, SocketsOK, NEW c \in Consoles, SocketStep(c) PROVE SocketsOK'
<1>1. <<>> \in Seq(0 .. MaxWrites) /\ Len(<<>>) = 0 /\ Len(Parts) = 3
  BY PartsLen
<1>2. CASE Connect(c)
  BY <1>1, <1>2 DEF Connect, SocketsOK
<1>3. CASE Receive(c)
  BY <1>3 DEF Receive, SocketsOK
<1>4. CASE DebounceOver(c)
  BY <1>1, <1>4 DEF DebounceOver, SocketsOK
<1>5. CASE ReadPart(c)
  <2>1. /\ Append(read[c], db) \in Seq(0 .. MaxWrites)
        /\ Len(Append(read[c], db)) = Len(read[c]) + 1
        /\ Len(read[c]) \in Nat /\ Len(read[c]) < 3
    BY <1>1, <1>5 DEF ReadPart, SocketsOK, RestOK
  <2>2. read'[c] = Append(read[c], db) /\ read' \in [Consoles -> Seq(0 .. MaxWrites)]
    BY <1>5, <2>1 DEF ReadPart, SocketsOK
  <2> QED
    BY <1>1, <1>5, <2>1, <2>2 DEF ReadPart, SocketsOK
<1>6. CASE ReadFails(c)
  BY <1>1, <1>6 DEF ReadFails, SocketsOK
<1>7. CASE Send(c)
  BY <1>1, <1>7 DEF Send, SocketsOK
<1>8. CASE Close(c)
  BY <1>1, <1>8 DEF Close, SocketsOK
<1> QED
  BY <1>2, <1>3, <1>4, <1>5, <1>6, <1>7, <1>8 DEF SocketStep, Push

LEMMA TypeStep == TypeOK /\ [Next]_vars => TypeOK'
<1>a. TypeOK' <=> RestOK' /\ SocketsOK'
  BY TypeSplit, PTL
<1> SUFFICES ASSUME RestOK, SocketsOK, [Next]_vars PROVE RestOK' /\ SocketsOK'
  BY <1>a, TypeSplit
<1>0. /\ db \in Nat /\ MaxWrites \in Nat /\ MaxFaults \in Nat /\ faults \in Nat
      /\ Change => db' \in 0 .. MaxWrites
      /\ Fail => faults' \in 0 .. MaxFaults
  BY BoundsAssumption DEF RestOK, Change, Fail
<1>1. ASSUME NEW C, Lose(C), db' \in 0 .. MaxWrites
      PROVE  lost' \in [Consoles -> 0 .. MaxWrites]
  BY <1>1 DEF Lose, RestOK
<1>2. ASSUME Deliver, up' = up
      PROVE  pending' \in [Replicas -> Nat] /\ \A r \in Replicas : ~up'[r] => pending'[r] = 0
  BY <1>2 DEF Deliver, RestOK
<1>3. ASSUME UNCHANGED sockets PROVE SocketsOK'
  BY <1>3 DEF SocketsOK, sockets
<1>4. ASSUME NEW w \in Workers, WorkerStep(w) PROVE RestOK' /\ SocketsOK'
  <2>1. HostOf[w] \in Replicas
    BY PlacesAssumption
  <2>2. worker' \in [Workers -> {"idle", "tx", "wrote", "notified"}]
    BY <1>4 DEF WorkerStep, Write, Notify, PublishLocal, NotifyFails, RunError, Abandon,
                Begin, Commit, Rollback, RestOK
  <2>3. CASE Write(w)
    BY <1>0, <1>3, <2>2, <2>3 DEF Write, RestOK
  <2>4. CASE Notify(w)
    BY <1>0, <1>1, <1>2, <1>3, <2>2, <2>4 DEF Notify, RestOK
  <2>5. CASE PublishLocal(w)
    BY <2>1, <2>2, <2>5, PublishType DEF PublishLocal, RestOK
  <2>6. CASE NotifyFails(w)
    BY <1>0, <1>1, <1>3, <2>2, <2>6 DEF NotifyFails, RestOK
  <2>7. CASE RunError(w)
    BY <1>0, <1>1, <1>3, <2>2, <2>7 DEF RunError, RestOK
  <2>8. CASE Abandon(w)
    BY <1>0, <1>1, <1>3, <2>2, <2>8 DEF Abandon, RestOK
  <2>9. CASE Begin(w)
    BY <2>1, <2>2, <2>9, PublishType DEF Begin, RestOK
  <2>10. CASE Commit(w)
    BY <1>0, <1>1, <1>2, <1>3, <2>2, <2>10 DEF Commit, RestOK
  <2>11. CASE Rollback(w)
    BY <1>3, <2>2, <2>11 DEF Rollback, RestOK
  <2> QED
    BY <1>4, <2>3, <2>4, <2>5, <2>6, <2>7, <2>8, <2>9, <2>10, <2>11 DEF WorkerStep
<1>5. CASE SilentChange
  BY <1>0, <1>1, <1>3, <1>5 DEF SilentChange, RestOK
<1>6. ASSUME NEW r \in Replicas, RelayStep(r) PROVE RestOK' /\ SocketsOK'
  <2>1. CASE Listen(r)
    BY <1>3, <2>1 DEF Listen, RestOK
  <2>2. CASE Repeat(r)
    <3>1. pending' \in [Replicas -> Nat] /\ \A q \in Replicas : ~up'[q] => pending'[q] = 0
      BY <2>2 DEF Repeat, RestOK
    <3> QED
      BY <2>2, <3>1, PublishType DEF Repeat, RestOK
  <2>3. CASE RelayDrops(r)
    <3>1. /\ up' \in [Replicas -> BOOLEAN] /\ pending' \in [Replicas -> Nat]
          /\ \A q \in Replicas : ~up'[q] => pending'[q] = 0
      BY <2>3 DEF RelayDrops, RestOK
    <3> QED
      BY <1>0, <1>1, <1>3, <2>3, <3>1 DEF RelayDrops, RestOK
  <2> QED
    BY <1>6, <2>1, <2>2, <2>3 DEF RelayStep
<1>7. ASSUME NEW c \in Consoles, SocketStep(c) PROVE RestOK' /\ SocketsOK'
  <2>1. SocketsOK'
    BY <1>7, SocketStepType
  <2>2. CASE ReadFails(c)
    BY <1>0, <1>1, <2>1, <2>2 DEF ReadFails, RestOK
  <2>3. CASE ~ReadFails(c)
    <3>1. UNCHANGED <<db, worker, up, pending, lost, faults>>
      BY <1>7, <2>3 DEF SocketStep, Push, Connect, Receive, DebounceOver, ReadPart, Send,
                        Close, OnlySocket
    <3> QED
      BY <2>1, <3>1 DEF RestOK
  <2> QED
    BY <2>2, <2>3
<1>8. CASE UNCHANGED vars
  BY <1>3, <1>8 DEF vars, RestOK
<1> QED
  BY <1>4, <1>5, <1>6, <1>7, <1>8, NextSplit

(* Every state is of the declared types; a relay without a connection has  *)
(* nothing pending, and a push never has more parts than there are.        *)
(* (progress_relay.rs, progress.rs push_snapshots)                         *)
THEOREM TypeCorrect == Spec => []TypeOK
  BY TypeInit, TypeStep, PTL DEF Spec

-----------------------------------------------------------------------------
(* A console that is behind is told, or is not to be. *)

(* What a push in progress has read is current, or Known: the parts read   *)
(* before a change come with a signal for that change.                     *)
(* (progress.rs run, push_snapshots)                                       *)
ReadsKnown ==
  \A c \in Consoles :
    pc[c] \in {"reading", "sending"}
      => Known(c) \/ \A i \in 1 .. Len(read[c]) : read[c][i] = db

IInv == TypeOK /\ StaleIsKnown /\ ReadsKnown

(* A step of anybody but a socket's own task either lets every open        *)
(* console know, or leaves the version and what was known.                 *)
Tells(c) == pc[c] # "closed" => Known(c)' \/ (db' = db /\ (Known(c) => Known(c)'))

LEMMA WorkersTell ==
  ASSUME TypeOK, NEW w \in Workers, WorkerStep(w), NEW c \in Consoles PROVE Tells(c)
<1>1. /\ ServedBy[c] \in Replicas /\ HostOf[w] \in Replicas
  BY PlacesAssumption
<1> USE <1>1 DEF Tells, Known, Coming
<1>2. ASSUME NEW R, Lose(ConsolesOf(R)), ServedBy[c] \in R PROVE lost'[c] = db'
  BY <1>2 DEF Lose, ConsolesOf
<1>3. CASE Write(w)
  BY <1>3 DEF Write, TypeOK
<1>4. CASE Notify(w)
  <2>1. CASE ServedBy[c] = HostOf[w]
    BY <1>4, <2>1 DEF Notify, TypeOK
  <2>2. CASE up[ServedBy[c]]
    BY <1>4, <2>2 DEF Notify, Deliver, TypeOK
  <2>3. CASE ServedBy[c] # HostOf[w] /\ ~up[ServedBy[c]]
    <3>1. ServedBy[c] \in Deaf \ {HostOf[w]}
      BY <2>3 DEF Deaf
    <3> QED
      BY <1>2, <1>4, <3>1 DEF Notify
  <2> QED
    BY <2>1, <2>2, <2>3
<1>5. CASE PublishLocal(w)
  BY <1>5 DEF PublishLocal, Publish, Subscribed, TypeOK
<1>6. CASE NotifyFails(w)
  <2>1. CASE ServedBy[c] = HostOf[w]
    BY <1>6, <2>1 DEF NotifyFails, TypeOK
  <2>2. CASE ServedBy[c] \in Replicas \ {HostOf[w]}
    BY <1>2, <1>6, <2>2 DEF NotifyFails
  <2> QED
    BY <2>1, <2>2
<1>7. CASE RunError(w)
  <2>1. CASE ServedBy[c] = HostOf[w]
    BY <1>7, <2>1 DEF RunError, TypeOK
  <2>2. CASE ServedBy[c] \in Replicas \ {HostOf[w]}
    BY <1>2, <1>7, <2>2 DEF RunError
  <2> QED
    BY <2>1, <2>2
<1>8. CASE Abandon(w)
  BY <1>8 DEF Abandon, Lose
<1>9. CASE Begin(w)
  BY <1>9 DEF Begin, Publish, TypeOK
<1>10. CASE Commit(w)
  <2>1. CASE up[ServedBy[c]]
    BY <1>10, <2>1 DEF Commit, Deliver, TypeOK
  <2>2. CASE ~up[ServedBy[c]]
    <3>1. ServedBy[c] \in Deaf
      BY <2>2 DEF Deaf
    <3> QED
      BY <1>2, <1>10, <3>1 DEF Commit
  <2> QED
    BY <2>1, <2>2
<1>11. CASE Rollback(w)
  BY <1>11 DEF Rollback, TypeOK, sockets
<1> QED
  BY <1>3, <1>4, <1>5, <1>6, <1>7, <1>8, <1>9, <1>10, <1>11 DEF WorkerStep

LEMMA RelaysTell ==
  ASSUME TypeOK, NEW r \in Replicas, RelayStep(r), NEW c \in Consoles PROVE Tells(c)
<1>1. ServedBy[c] \in Replicas
  BY PlacesAssumption
<1> USE <1>1 DEF Tells, Known, Coming
<1>2. CASE Listen(r)
  BY <1>2 DEF Listen, sockets
<1>3. CASE Repeat(r)
  <2>1. CASE ServedBy[c] = r
    BY <1>3, <2>1 DEF Repeat, Publish, Subscribed, TypeOK
  <2>2. CASE ServedBy[c] # r
    BY <1>3, <2>2 DEF Repeat, Publish, TypeOK
  <2> QED
    BY <2>1, <2>2
<1>4. CASE RelayDrops(r)
  <2>1. CASE ServedBy[c] = r /\ pending[r] > 0
    BY <1>4, <2>1 DEF RelayDrops, Lose, ConsolesOf
  <2>2. CASE ServedBy[c] = r /\ ~(pending[r] > 0)
    BY <1>4, <2>2 DEF RelayDrops, Lose, sockets, TypeOK
  <2>3. CASE ServedBy[c] # r
    BY <1>4, <2>3 DEF RelayDrops, Lose, ConsolesOf, sockets, TypeOK
  <2> QED
    BY <2>1, <2>2, <2>3
<1> QED
  BY <1>2, <1>3, <1>4 DEF RelayStep

LEMMA StaleInit == Init => StaleIsKnown /\ ReadsKnown
  BY DEF Init, StaleIsKnown, ReadsKnown

(* Steps which tell, and leave the tasks of the sockets. *)
LEMMA TellingKeeps ==
  ASSUME StaleIsKnown, ReadsKnown, UNCHANGED <<pc, read, shown>>,
         \A c \in Consoles : Tells(c)
  PROVE  StaleIsKnown' /\ ReadsKnown'
<1>1. ASSUME NEW c \in Consoles, pc'[c] = "idle" PROVE Current(c)' \/ Known(c)'
  BY <1>1 DEF StaleIsKnown, Tells, Current
<1>2. ASSUME NEW c \in Consoles, pc'[c] \in {"reading", "sending"}
      PROVE  Known(c)' \/ \A i \in 1 .. Len(read'[c]) : read'[c][i] = db'
  BY <1>2 DEF ReadsKnown, Tells
<1> QED
  BY <1>1, <1>2 DEF StaleIsKnown, ReadsKnown

LEMMA SocketsKeep ==
  ASSUME TypeOK, StaleIsKnown, ReadsKnown, NEW d \in Consoles, SocketStep(d)
  PROVE  StaleIsKnown' /\ ReadsKnown'
<1>1. UNCHANGED <<db, worker, up, pending>>
  BY DEF SocketStep, Push, Connect, Receive, DebounceOver, ReadPart, ReadFails, Send, Close,
         OnlySocket
<1>2. ASSUME NEW c \in Consoles, c # d
      PROVE  /\ pc'[c] = pc[c] /\ signal'[c] = signal[c]
             /\ read'[c] = read[c] /\ shown'[c] = shown[c] /\ lost'[c] = lost[c]
  BY <1>2 DEF SocketStep, Push, Connect, Receive, DebounceOver, ReadPart, ReadFails, Send,
              Close, OnlySocket, Lose, TypeOK
<1>3. ASSUME NEW c \in Consoles, signal'[c] = signal[c], lost'[c] = lost[c]
      PROVE  Known(c)' <=> Known(c)
  BY <1>1, <1>3 DEF Known, Coming
<1>4. ASSUME NEW c \in Consoles, pc'[c] = "idle" PROVE Current(c)' \/ Known(c)'
  <2>1. CASE c # d
    BY <1>1, <1>2, <1>3, <1>4, <2>1 DEF StaleIsKnown, Current
  <2>2. CASE c = d /\ ReadFails(d)
    BY <2>2 DEF ReadFails, Lose, Known
  <2>3. CASE c = d /\ Send(d)
    <3>1. Known(c)' <=> Known(c)
      BY <1>3, <2>3 DEF Send, OnlySocket
    <3>2. /\ pc[c] = "sending" /\ Len(read[c]) = Len(Parts)
          /\ shown'[c] = read[c]
      BY <2>3 DEF Send, TypeOK
    <3> QED
      BY <1>1, <3>1, <3>2 DEF ReadsKnown, Current
  <2>4. SocketStep(d) /\ pc'[d] = "idle" => ReadFails(d) \/ Send(d)
    BY PartsLen DEF SocketStep, Push, Connect, Receive, DebounceOver, ReadPart, Close, TypeOK
  <2> QED
    BY <1>4, <2>1, <2>2, <2>3, <2>4
<1>5. ASSUME NEW c \in Consoles, pc'[c] \in {"reading", "sending"}
      PROVE  Known(c)' \/ \A i \in 1 .. Len(read'[c]) : read'[c][i] = db'
  <2>1. CASE c # d
    BY <1>1, <1>2, <1>3, <1>5, <2>1 DEF ReadsKnown
  <2>2. CASE c = d /\ (Connect(d) \/ DebounceOver(d))
    <3>1. read'[c] = <<>>
      BY <2>2 DEF Connect, DebounceOver, TypeOK
    <3> QED
      BY <3>1
  <2>3. CASE c = d /\ ReadPart(d)
    <3>1. Known(c)' <=> Known(c)
      BY <1>3, <2>3 DEF ReadPart, OnlySocket
    <3>2. /\ pc[c] = "reading" /\ read'[c] = Append(read[c], db)
          /\ read[c] \in Seq(0 .. MaxWrites)
      BY <2>3 DEF ReadPart, TypeOK
    <3>3. \A i \in 1 .. Len(read'[c]) :
            read'[c][i] = IF i <= Len(read[c]) THEN read[c][i] ELSE db
      BY <3>2
    <3>4. \A i \in 1 .. Len(read'[c]) : i <= Len(read[c]) => i \in 1 .. Len(read[c])
      BY <3>2
    <3> QED
      BY <1>1, <3>1, <3>2, <3>3, <3>4 DEF ReadsKnown
  <2>4. SocketStep(d) /\ pc'[d] \in {"reading", "sending"}
          => Connect(d) \/ DebounceOver(d) \/ ReadPart(d)
    BY DEF SocketStep, Push, Receive, ReadFails, Send, Close, TypeOK
  <2> QED
    BY <1>5, <2>1, <2>2, <2>3, <2>4
<1> QED
  BY <1>4, <1>5 DEF StaleIsKnown, ReadsKnown

LEMMA StaleStep == IInv /\ [Next]_vars => StaleIsKnown' /\ ReadsKnown'
<1> SUFFICES ASSUME IInv, [Next]_vars PROVE StaleIsKnown' /\ ReadsKnown'
  OBVIOUS
<1> USE DEF IInv
<1>1. ASSUME NEW w \in Workers, WorkerStep(w) PROVE StaleIsKnown' /\ ReadsKnown'
  <2>1. UNCHANGED <<pc, read, shown>>
    BY <1>1 DEF WorkerStep, Write, Notify, PublishLocal, NotifyFails, RunError, Abandon,
                Begin, Commit, Rollback, Publish, sockets
  <2> QED
    BY <1>1, <2>1, WorkersTell, TellingKeeps
<1>2. CASE SilentChange
  <2>1. \A c \in Consoles : Tells(c)
    BY <1>2 DEF SilentChange, Lose, Tells, Known
  <2> QED
    BY <1>2, <2>1, TellingKeeps DEF SilentChange, sockets
<1>3. ASSUME NEW r \in Replicas, RelayStep(r) PROVE StaleIsKnown' /\ ReadsKnown'
  <2>1. UNCHANGED <<pc, read, shown>>
    BY <1>3 DEF RelayStep, Listen, Repeat, RelayDrops, Publish, sockets
  <2> QED
    BY <1>3, <2>1, RelaysTell, TellingKeeps
<1>4. ASSUME NEW c \in Consoles, SocketStep(c) PROVE StaleIsKnown' /\ ReadsKnown'
  BY <1>4, SocketsKeep
<1>5. CASE UNCHANGED vars
  BY <1>5 DEF vars, sockets, StaleIsKnown, ReadsKnown, Current, Known, Coming
<1> QED
  BY <1>1, <1>2, <1>3, <1>4, <1>5, NextSplit

(* An open console that waits for signals shows the current version in all *)
(* its parts, or a signal is on its way, or it is not told of that         *)
(* version, with any number of workers writing in any way at any time.     *)
(* (progress.rs run and push_snapshots, ingest/mod.rs, progress_relay.rs)  *)
THEOREM ConsolesStaleIsKnown == Spec => []StaleIsKnown
<1>1. Init => IInv
  BY TypeInit, StaleInit DEF IInv
<1>2. IInv /\ [Next]_vars => IInv'
  BY TypeStep, StaleStep DEF IInv
<1>3. IInv => StaleIsKnown
  BY DEF IInv
<1> QED
  BY <1>1, <1>2, <1>3, PTL DEF Spec
=============================================================================
