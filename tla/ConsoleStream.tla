--------------------------- MODULE ConsoleStream ---------------------------
(***************************************************************************)
(* How a change in the database reaches the consoles: the notifications of *)
(* service/ingest/mod.rs, the relay of service/progress_relay.rs, and the  *)
(* sockets of api/controllers/progress.rs.                                 *)
(*                                                                         *)
(* What the consoles show is a version, the number of changes to it.  A    *)
(* worker changes it and then tells: the sockets of its own replica by the *)
(* hub, those of all replicas by NOTIFY, which every replica's relay hears *)
(* while it listens and repeats in its hub.  A socket that has a signal    *)
(* waits, drains its signals, reads three parts and sends them.            *)
(*                                                                         *)
(* Nothing repeats a signal.  lost[c] is the latest version which c was    *)
(* not, and will not be, told of.                                          *)
(***************************************************************************)
EXTENDS Naturals, Sequences

CONSTANTS
  Replicas,    (* processes with a hub and a relay                         *)
  Workers,     (* tasks that write                                         *)
  HostOf,      (* the replica of each worker                               *)
  Consoles,    (* browsers                                                 *)
  ServedBy,    (* the replica that serves each of them                     *)
  MaxWrites,   (* bound on the versions                                    *)
  MaxFaults    (* bound on failures                                        *)

ASSUME PlacesAssumption == /\ HostOf \in [Workers -> Replicas]
                           /\ ServedBy \in [Consoles -> Replicas]
ASSUME BoundsAssumption == MaxWrites \in Nat /\ MaxFaults \in Nat

VARIABLES
  db,         (* the version in the database                               *)
  worker,     (* what each worker is about to do                           *)
  up,         (* whether each relay has a connection that listens          *)
  pending,    (* notifications in that connection                          *)
  pc,         (* per console: where the task of its socket is,             *)
  signal,     (* whether its subscription to the hub holds a signal,       *)
  read,       (* the versions of the parts read in this push,              *)
  shown,      (* and those of the parts the console shows                  *)
  lost,       (* history: see above                                        *)
  faults      (* failures so far                                           *)

sockets == <<pc, signal, read, shown>>
vars    == <<db, worker, up, pending, sockets, lost, faults>>

(* The parts of a snapshot, in the order they are read and sent.           *)
Parts == <<"ingest_health", "kpis", "alerts">>

TypeOK ==
  /\ db \in 0 .. MaxWrites
  /\ worker \in [Workers -> {"idle", "tx", "wrote", "notified"}]
  /\ up \in [Replicas -> BOOLEAN]
  /\ pending \in [Replicas -> Nat]
  /\ \A r \in Replicas : ~up[r] => pending[r] = 0
  /\ pc \in [Consoles -> {"closed", "idle", "debounce", "reading", "sending"}]
  /\ signal \in [Consoles -> BOOLEAN]
  /\ read \in [Consoles -> Seq(0 .. MaxWrites)]
  /\ shown \in [Consoles -> Seq(0 .. MaxWrites)]
  /\ \A c \in Consoles :
       /\ pc[c] \in {"closed", "idle", "debounce"} => read[c] = <<>>
       /\ pc[c] = "reading" => Len(read[c]) < Len(Parts)
       /\ pc[c] = "sending" => Len(read[c]) = Len(Parts)
  /\ lost \in [Consoles -> 0 .. MaxWrites]
  /\ faults \in 0 .. MaxFaults

Init ==
  /\ db = 0
  /\ worker = [w \in Workers |-> "idle"]
  /\ up = [r \in Replicas |-> FALSE]
  /\ pending = [r \in Replicas |-> 0]
  /\ pc = [c \in Consoles |-> "closed"]
  /\ signal = [c \in Consoles |-> FALSE]
  /\ read = [c \in Consoles |-> <<>>]
  /\ shown = [c \in Consoles |-> <<>>]
  /\ lost = [c \in Consoles |-> 0]
  /\ faults = 0

Fail   == faults < MaxFaults /\ faults' = faults + 1
Change == db < MaxWrites /\ db' = db + 1

(* The sockets that are subscribed to the hub of their replica: those whose*)
(* first snapshot is still to come as well.                                *)
Subscribed_AfterSnapshot(c) == pc[c] # "closed" /\ shown[c] # <<>>

Subscribed(c) == pc[c] # "closed"

(* A signal in the hub of r.  Signals are alike, and missing some          *)
(* (Lagged) is a signal, too.                                              *)
Publish(r) ==
  /\ signal' = [c \in Consoles |-> signal[c] \/ (ServedBy[c] = r /\ Subscribed(c))]
  /\ UNCHANGED <<pc, read, shown>>

(* A notification goes to every relay that listens at that moment.         *)
Deliver == pending' = [r \in Replicas |-> IF up[r] THEN pending[r] + 1 ELSE 0]

ConsolesOf(R) == {c \in Consoles : ServedBy[c] \in R}
Deaf          == {r \in Replicas : ~up[r]}

(* The consoles in C miss the version of this step. *)
Lose(C) == lost' = [c \in Consoles |-> IF c \in C THEN db' ELSE lost[c]]

(***************************************************************************)
(* Workers.  Outside a transaction the change, the notification and the    *)
(* signal in the worker's own hub come one after the other; earlier        *)
(* changes, such as the stages of a SIEM pass and the watermarks of its    *)
(* folds, wait for the notification of the watermark that follows them.    *)
(***************************************************************************)
Write(w) ==
  /\ worker[w] \in {"idle", "wrote"}
  /\ Change
  /\ worker' = [worker EXCEPT ![w] = "wrote"]
  /\ UNCHANGED <<up, pending, sockets, lost, faults>>

Notify(w) ==
  /\ worker[w] = "wrote"
  /\ worker' = [worker EXCEPT ![w] = "notified"]
  /\ Deliver
  /\ UNCHANGED <<db, up, sockets, faults>>
  /\ Lose(ConsolesOf(Deaf \ {HostOf[w]}))

(* notify_progress logs its error only. *)
NotifyFails(w) ==
  /\ worker[w] = "wrote"
  /\ Fail
  /\ worker' = [worker EXCEPT ![w] = "notified"]
  /\ UNCHANGED <<db, up, pending, sockets>>
  /\ Lose(ConsolesOf(Replicas \ {HostOf[w]}))

PublishLocal(w) ==
  /\ worker[w] = "notified"
  /\ worker' = [worker EXCEPT ![w] = "idle"]
  /\ Publish(HostOf[w])
  /\ UNCHANGED <<db, up, pending, lost, faults>>

(* record_run_error changes the row and signals in its own hub only. *)
RunError(w) ==
  /\ worker[w] \in {"idle", "wrote"}
  /\ Change
  /\ worker' = [worker EXCEPT ![w] = "notified"]
  /\ UNCHANGED <<up, pending, sockets, faults>>
  /\ Lose(ConsolesOf(Replicas \ {HostOf[w]}))

(* A pass that is cancelled between its stages returns without a word, and *)
(* so does a worker whose error cannot be recorded.                        *)
Abandon(w) ==
  /\ worker[w] = "wrote"
  /\ Fail
  /\ worker' = [worker EXCEPT ![w] = "idle"]
  /\ UNCHANGED <<db, up, pending, sockets>>
  /\ Lose(Consoles)

(* In a transaction the signal in the own hub comes before the change,     *)
(* the notification with it.                                               *)
Begin(w) ==
  /\ worker[w] = "idle"
  /\ worker' = [worker EXCEPT ![w] = "tx"]
  /\ Publish(HostOf[w])
  /\ UNCHANGED <<db, up, pending, lost, faults>>

Commit(w) ==
  /\ worker[w] = "tx"
  /\ Change
  /\ worker' = [worker EXCEPT ![w] = "idle"]
  /\ Deliver
  /\ UNCHANGED <<up, sockets, faults>>
  /\ Lose(ConsolesOf(Deaf))

Rollback(w) ==
  /\ worker[w] = "tx"
  /\ worker' = [worker EXCEPT ![w] = "idle"]
  /\ UNCHANGED <<db, up, pending, sockets, lost, faults>>

(* Changes to what is shown that nobody is told of: the triage of an       *)
(* alert, what retention deletes, the rows of the bg writer, which the     *)
(* figures count, and rows of ingest_watermarks written without            *)
(* advance_watermark (the timeline, the resolver of web identities, the    *)
(* markers of the backfill).                                               *)
SilentChange ==
  /\ Change
  /\ UNCHANGED <<worker, up, pending, sockets, faults>>
  /\ Lose(Consoles)

(***************************************************************************)
(* The relay of a replica.                                                 *)
(***************************************************************************)
Listen(r) ==
  /\ ~up[r]
  /\ up' = [up EXCEPT ![r] = TRUE]
  /\ UNCHANGED <<db, worker, pending, sockets, lost, faults>>

Repeat(r) ==
  /\ pending[r] > 0
  /\ pending' = [pending EXCEPT ![r] = @ - 1]
  /\ Publish(r)
  /\ UNCHANGED <<db, worker, up, lost, faults>>

(* What was still in the connection goes with it. *)
RelayDrops_Kept(r) ==
  /\ up[r]
  /\ Fail
  /\ up' = [up EXCEPT ![r] = FALSE]
  /\ UNCHANGED <<db, worker, pending, sockets>>
  /\ Lose(IF pending[r] > 0 THEN ConsolesOf({r}) ELSE {})

RelayDrops(r) ==
  /\ up[r]
  /\ Fail
  /\ up' = [up EXCEPT ![r] = FALSE]
  /\ pending' = [pending EXCEPT ![r] = 0]
  /\ UNCHANGED <<db, worker, sockets>>
  /\ Lose(IF pending[r] > 0 THEN ConsolesOf({r}) ELSE {})

(***************************************************************************)
(* The task of a socket.                                                   *)
(***************************************************************************)
OnlySocket == UNCHANGED <<db, worker, up, pending, lost, faults>>

(* Subscribes, then takes the first snapshot. *)
Connect(c) ==
  /\ pc[c] = "closed"
  /\ pc' = [pc EXCEPT ![c] = "reading"]
  /\ UNCHANGED <<signal, read, shown>>
  /\ OnlySocket

Receive(c) ==
  /\ pc[c] = "idle" /\ signal[c]
  /\ pc' = [pc EXCEPT ![c] = "debounce"]
  /\ signal' = [signal EXCEPT ![c] = FALSE]
  /\ UNCHANGED <<read, shown>>
  /\ OnlySocket

(* The signals that came meanwhile are drained, then the parts are read.   *)
DebounceOver(c) ==
  /\ pc[c] = "debounce"
  /\ pc' = [pc EXCEPT ![c] = "reading"]
  /\ signal' = [signal EXCEPT ![c] = FALSE]
  /\ UNCHANGED <<read, shown>>
  /\ OnlySocket

ReadPart(c) ==
  /\ pc[c] = "reading"
  /\ read' = [read EXCEPT ![c] = Append(@, db)]
  /\ pc' = [pc EXCEPT ![c] = IF Len(read'[c]) = Len(Parts) THEN "sending" ELSE "reading"]
  /\ UNCHANGED <<signal, shown>>
  /\ OnlySocket

(* The push is skipped, the socket lives on, the signals are gone. *)
ReadFails(c) ==
  /\ pc[c] = "reading"
  /\ Fail
  /\ pc' = [pc EXCEPT ![c] = "idle"]
  /\ read' = [read EXCEPT ![c] = <<>>]
  /\ UNCHANGED <<db, worker, up, pending, signal, shown>>
  /\ Lose({c})

Send_Drains(c) ==
  /\ pc[c] = "sending"
  /\ pc' = [pc EXCEPT ![c] = "idle"]
  /\ read' = [read EXCEPT ![c] = <<>>]
  /\ shown' = [shown EXCEPT ![c] = read[c]]
  /\ signal' = [signal EXCEPT ![c] = FALSE]
  /\ OnlySocket

Send(c) ==
  /\ pc[c] = "sending"
  /\ pc' = [pc EXCEPT ![c] = "idle"]
  /\ read' = [read EXCEPT ![c] = <<>>]
  /\ shown' = [shown EXCEPT ![c] = read[c]]
  /\ UNCHANGED signal
  /\ OnlySocket

(* By the browser, a failed send or ping, or the end of the process. *)
Close(c) ==
  /\ pc[c] # "closed"
  /\ pc' = [pc EXCEPT ![c] = "closed"]
  /\ signal' = [signal EXCEPT ![c] = FALSE]
  /\ read' = [read EXCEPT ![c] = <<>>]
  /\ shown' = [shown EXCEPT ![c] = <<>>]
  /\ OnlySocket

Announce(w) == Notify(w) \/ PublishLocal(w)
Push(c)     == Receive(c) \/ DebounceOver(c) \/ ReadPart(c) \/ Send(c)

Next ==
  \/ \E w \in Workers : \/ Write(w) \/ Announce(w) \/ NotifyFails(w) \/ RunError(w)
                        \/ Abandon(w) \/ Begin(w) \/ Commit(w) \/ Rollback(w)
  \/ SilentChange
  \/ \E r \in Replicas : Listen(r) \/ Repeat(r) \/ RelayDrops(r)
  \/ \E c \in Consoles : Connect(c) \/ Push(c) \/ ReadFails(c) \/ Close(c)

Spec == Init /\ [][Next]_vars

(* A worker that has written goes on, the relay polls its connection every *)
(* second, and the task of a socket runs; nothing need be written, and     *)
(* nobody need connect.                                                    *)
FairSpec == /\ Spec
            /\ \A w \in Workers : WF_vars(Announce(w))
            /\ \A r \in Replicas : WF_vars(Repeat(r))
            /\ \A c \in Consoles : WF_vars(Push(c))

(***************************************************************************)
(* Properties.                                                             *)
(***************************************************************************)

(* A signal for c is there, in its relay's connection, or still to be      *)
(* given by a worker.                                                      *)
Coming(c) ==
  \/ signal[c]
  \/ pending[ServedBy[c]] > 0
  \/ \E w \in Workers : \/ worker[w] = "wrote"
                        \/ worker[w] = "notified" /\ HostOf[w] = ServedBy[c]

(* All three parts are there, and of the version in the database. *)
Current(c) == /\ Len(shown[c]) = Len(Parts)
              /\ \A i \in 1 .. Len(Parts) : shown[c][i] = db

Known(c) == Coming(c) \/ lost[c] = db

(* An open console whose task waits for signals shows the current version  *)
(* in all three parts, or a signal is on its way to it, or that version is *)
(* one of those which the console is not told of: no change falls between  *)
(* subscribing and the first snapshot, between draining and reading, or    *)
(* between two parts of a snapshot.                                        *)
(* (progress.rs run and push_snapshots, publish and notify of ingest)      *)
StaleIsKnown ==
  \A c \in Consoles :
    pc[c] = "idle" => Current(c) \/ Known(c)

(* When the changes stop, an open console comes to show the last of them   *)
(* in all its parts, unless that is one it is not told of.                 *)
CatchesUp ==
  \A c \in Consoles : []<>(pc[c] = "closed" \/ Current(c) \/ lost[c] = db)
=============================================================================
