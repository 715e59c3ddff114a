---------------------------- MODULE SourceSweeps ----------------------------
(***************************************************************************)
(* The three pollers beside CloudTrail.  A leader worker sweeps a source   *)
(* again and again, from the position its watermark names, and stores what *)
(* it reads.  A behaviour is about one of them:                            *)
(*                                                                         *)
(*   "github"     service/ingest/github.rs     audit-log REST pages        *)
(*   "github_s3"  service/ingest/github_s3.rs  objects of a bucket         *)
(*   "guardduty"  service/siem/guardduty.rs    findings of some regions    *)
(*                                                                         *)
(* An item of the feed is an event (github), an object (github_s3) or a    *)
(* finding (guardduty).  feed[i] is its time: created_at of an event, the  *)
(* leading part of an object's key, updatedAt of a finding; 0 while there  *)
(* is no such item.  The item's number breaks ties, as ids and the rest of *)
(* a key do.  Findings change: an update gives feed[i] a later value.      *)
(*                                                                         *)
(* What can go wrong is that the watermark passes an item nobody stored.   *)
(* The code does lose items, in a few ways; `excused` names every one of   *)
(* them, and the properties say that there is no other.                    *)
(***************************************************************************)
EXTENDS Integers, FiniteSets, FiniteSetsExt

CONSTANTS
  Sources,     (* the pollers of an instance                               *)
  N,           (* number of items                                          *)
  Findings,    (* items that exist as findings                             *)
  Regions,     (* number of GuardDuty regions                              *)
  Blank,       (* items with nothing to store: events without an id or a   *)
               (* time, "_check" objects                                   *)
  PAGE,        (* items of a page                                          *)
  FLUSH,       (* FLUSH_PAGES                                              *)
  MAXWAITS,    (* RATE_LIMIT_MAX_WAITS                                     *)
  MAXOBJ,      (* max_objects_per_run                                      *)
  DAY,         (* length of a day                                          *)
  WINDOW,      (* backfill_window_days                                     *)
  LATE,        (* how far behind the clock an event or object may appear   *)
  MaxTime,     (* bound on the clock                                       *)
  MaxFaults    (* bound on failed calls, crashes and changes of leader     *)

Pollers == {"github", "github_s3", "guardduty"}
Items   == 1 .. N

ASSUME SourcesAssumption == Sources \subseteq Pollers
ASSUME BlankAssumption   == Blank \subseteq Items /\ Findings \subseteq Items
ASSUME SizesAssumption   == /\ N \in Nat
                            /\ Regions \in Nat \ {0}
                            /\ PAGE \in Nat \ {0}
                            /\ FLUSH \in Nat \ {0}
                            /\ MAXOBJ \in Nat \ {0}
                            /\ DAY \in Nat \ {0}
                            /\ WINDOW \in Nat
                            /\ LATE \in Nat
                            /\ MAXWAITS \in Nat
                            /\ MaxTime \in Nat \ {0}
                            /\ MaxFaults \in Nat

VARIABLES
  source,     (* the poller of this behaviour                              *)
  now,        (* the time                                                  *)
  feed,       (* what the source's API shows                               *)
  stored,     (* feed[i] as of the last time item i was stored, or 0       *)
  wm,         (* the row of ingest_watermarks: last_event_at and object    *)
              (* key; its counters and last_run_error are only displayed   *)
  sweep,      (* the locals of run_once                                    *)
  cancelled,  (* the task's cancellation token                             *)
  excused,    (* history: items the code is known to lose                  *)
  faults      (* failed calls, crashes and changes of leader so far        *)

vars == <<source, now, feed, stored, wm, sweep, cancelled, excused, faults>>

(* The order in which all three sources are read. *)
Pos(i)       == <<feed[i], i>>
Before(p, q) == p[1] < q[1] \/ (p[1] = q[1] /\ p[2] < q[2])
Start(t)     == <<t, 0>>
Latest(a, b) == IF a < b THEN b ELSE a
Later(p, q)  == IF Before(p, q) THEN q ELSE p

Present   == {i \in Items : feed[i] # 0}
Region(i) == (i % Regions) + 1
Day(t)    == t - (t % DAY)

(* The first k items of a set, in order. *)
FirstOf(S, k) == {i \in S : Cardinality({j \in S : Before(Pos(j), Pos(i))}) < k}
LastPos(S)    == Pos(CHOOSE i \in S : \A j \in S \ {i} : Before(Pos(j), Pos(i)))

Idle == [pc |-> "idle", since |-> 0, pos |-> Start(0), region |-> 1,
         batch |-> {}, max |-> 0, pages |-> 0, waits |-> 0, last |-> FALSE]

Busy == sweep.pc \notin {"idle", "stopped"}

TypeOK ==
  /\ source \in Sources
  /\ now \in 1 .. MaxTime
  /\ feed \in [Items -> 0 .. MaxTime]
  /\ stored \in [Items -> 0 .. MaxTime]
  /\ \A i \in Items : stored[i] <= feed[i] /\ feed[i] <= now
  /\ wm \in [at : 0 .. MaxTime, key : (0 .. MaxTime) \X (0 .. N)]
  /\ wm.at <= now
  /\ sweep \in [pc : {"idle", "page", "wait", "retry", "get", "flush",
                      "advance", "stopped"},
                since : 0 .. MaxTime, pos : (0 .. MaxTime) \X (0 .. N),
                region : 1 .. Regions, batch : SUBSET Items, max : 0 .. MaxTime,
                pages : 0 .. FLUSH, waits : 0 .. MAXWAITS, last : BOOLEAN]
  /\ sweep.since <= now /\ sweep.max <= now
  /\ cancelled \in BOOLEAN
  /\ excused \subseteq Items
  /\ faults \in 0 .. MaxFaults

Init ==
  /\ source \in Sources
  /\ now = 1
  /\ feed = [i \in Items |-> 0]
  /\ stored = [i \in Items |-> 0]
  /\ wm = [at |-> 0, key |-> Start(0)]
  /\ sweep = Idle
  /\ cancelled = FALSE
  /\ excused = {}
  /\ faults = 0

(***************************************************************************)
(* The source.                                                             *)
(***************************************************************************)

(* Where an item must appear to be seen: not behind the watermark, and not *)
(* behind what the running sweep has listed.  The watermark of github      *)
(* counts from the beginning of its day.                                   *)
Floor == IF source = "github_s3" THEN wm.key
         ELSE IF source = "github" THEN Start(Day(wm.at))
         ELSE Start(wm.at)

AppearsBehind(p) ==
  \/ Before(p, Floor)
  \/ Busy /\ ~Before(sweep.pos, p)

(* An event is published, or an object written, up to LATE after its time. *)
Publish(i) ==
  /\ source \in {"github", "github_s3"}
  /\ feed[i] = 0
  /\ \E t \in Latest(1, now - LATE) .. now :
       /\ feed' = [feed EXCEPT ![i] = t]
       /\ excused' = IF AppearsBehind(<<t, i>>) THEN excused \cup {i} ELSE excused
  /\ UNCHANGED <<source, now, stored, wm, sweep, cancelled, faults>>

(* A finding that a sweep under way has no more occasion to list: its      *)
(* region is done, or the last page of it is.                              *)
TooLateFor(i) ==
  /\ Busy
  /\ \/ sweep.pc = "advance"
     \/ Region(i) < sweep.region
     \/ /\ Region(i) = sweep.region
        /\ ~(sweep.pc = "get" /\ i \in sweep.batch)
        /\ sweep.last \/ ~Before(sweep.pos, <<now, i>>)

(* A finding is created or updated; updatedAt is the time. *)
Update(i) ==
  /\ source = "guardduty" /\ i \in Findings
  /\ feed[i] < now
  /\ feed' = [feed EXCEPT ![i] = now]
  /\ excused' = IF TooLateFor(i) THEN excused \cup {i} ELSE excused \ {i}
  /\ UNCHANGED <<source, now, stored, wm, sweep, cancelled, faults>>

Tick ==
  /\ now < MaxTime
  /\ now' = now + 1
  /\ UNCHANGED <<source, feed, stored, wm, sweep, cancelled, excused, faults>>

(***************************************************************************)
(* run, run_once                                                           *)
(***************************************************************************)

(* A sweep is over, or has moved its watermark: what was read after all,   *)
(* or lies where the next sweep looks again, is not lost.                  *)
StillLost == {i \in excused : /\ stored'[i] # feed[i]
                              /\ ~Busy' => Before(Pos(i), Floor')}

WindowFloor == Latest(0, now - WINDOW)

(* github asks from the later of the window and the watermark, rounded     *)
(* down to the day; guardduty uses the window only while it has no         *)
(* watermark; github_s3 has a cursor and no window.                        *)
Since_Exact ==
  CASE source = "github"    -> Latest(wm.at, WindowFloor)
    [] source = "guardduty" -> IF wm.at = 0 THEN WindowFloor ELSE wm.at
    [] source = "github_s3" -> 0

Since ==
  CASE source = "github"    -> Day(Latest(wm.at, WindowFloor))
    [] source = "guardduty" -> IF wm.at = 0 THEN WindowFloor ELSE wm.at
    [] source = "github_s3" -> 0

(* Items a window leaves behind: older than its first instant, and newer   *)
(* than the watermark.                                                     *)
OutsideWindow ==
  {i \in Present : /\ source = "github" /\ feed[i] < Day(WindowFloor)
                   /\ ~Before(Pos(i), Floor)}
  \cup
  {i \in Present : source = "guardduty" /\ wm.at = 0 /\ feed[i] < WindowFloor}

Begin ==
  /\ sweep.pc = "idle" /\ ~cancelled
  /\ sweep' = [Idle EXCEPT !.pc    = "page",
                           !.since = Since,
                           !.pos   = IF source = "github_s3" THEN wm.key ELSE Start(Since),
                           !.max   = IF source = "guardduty" THEN wm.at ELSE 0]
  /\ excused' = excused \cup {i \in OutsideWindow : stored[i] # feed[i]}
  /\ UNCHANGED <<source, now, feed, stored, wm, cancelled, faults>>

(* The rest of the list, and the page that comes next.  github asks for    *)
(* order=asc, guardduty sorts by updatedAt, S3 lists in the order of keys. *)
Rest_After == {i \in Present :
                /\ IF source = "guardduty" THEN feed[i] > sweep.since
                                           ELSE feed[i] >= sweep.since
                /\ Before(sweep.pos, Pos(i))
                /\ source = "guardduty" => Region(i) = sweep.region}

Rest == {i \in Present : /\ feed[i] >= sweep.since
                         /\ Before(sweep.pos, Pos(i))
                         /\ source = "guardduty" => Region(i) = sweep.region}

NextPage == FirstOf(Rest, PAGE)

EndOf(S) == IF S = {} THEN sweep.pos ELSE LastPos(S)

(* github does not look at the token between a rate-limit wait and the     *)
(* next try, github_s3 does not look at it at all.                         *)
MayFetch == \/ sweep.pc = "page" /\ (cancelled => source = "github_s3")
            \/ sweep.pc = "retry"

(* Events without a time or a document id, and the keys of connectivity    *)
(* probes, hold nothing to store.                                          *)
MapEntries(page)  == page \ Blank
DropMarkers(keys) == keys \ Blank

(* github: a page of events.  Every FLUSH pages the batch is stored. *)
GithubPage ==
  /\ source = "github" /\ MayFetch
  /\ LET page  == NextPage
         rows  == MapEntries(page)
         last  == page = Rest
         full  == sweep.pages + 1 = FLUSH
     IN sweep' = [sweep EXCEPT
          !.pc    = IF full \/ last THEN "flush" ELSE "page",
          !.pos   = EndOf(page),
          !.batch = @ \cup rows,
          !.max   = Max({@} \cup {feed[i] : i \in rows}),
          !.pages = IF full THEN 0 ELSE @ + 1,
          !.waits = 0,
          !.last  = last]
  /\ UNCHANGED <<source, now, feed, stored, wm, cancelled, excused, faults>>

(* A 403 or 429: wait for the reset, MAXWAITS times, then give up. *)
RateLimited_Unbounded ==
  /\ source = "github" /\ MayFetch
  /\ faults < MaxFaults /\ faults' = faults + 1
  /\ sweep.waits <= MAXWAITS
  /\ sweep' = [sweep EXCEPT !.pc = "wait", !.waits = @ + 1]
  /\ UNCHANGED <<source, now, feed, stored, wm, cancelled, excused>>

RateLimited ==
  /\ source = "github" /\ MayFetch
  /\ faults < MaxFaults /\ faults' = faults + 1
  /\ sweep.waits < MAXWAITS
  /\ sweep' = [sweep EXCEPT !.pc = "wait", !.waits = @ + 1]
  /\ UNCHANGED <<source, now, feed, stored, wm, cancelled, excused>>

WaitOver ==
  /\ sweep.pc = "wait"
  /\ sweep' = [sweep EXCEPT !.pc = "retry"]
  /\ UNCHANGED <<source, now, feed, stored, wm, cancelled, excused, faults>>

(* github: rows and watermark in one transaction.  After the last page, or *)
(* when cancelled, this is the flush at the end of run_once; without rows  *)
(* it does nothing.                                                        *)
GithubFlush ==
  /\ source = "github" /\ sweep.pc = "flush"
  /\ stored' = [i \in Items |-> IF i \in sweep.batch THEN feed[i] ELSE stored[i]]
  /\ wm' = IF sweep.batch = {} THEN wm
           ELSE [wm EXCEPT !.at = Latest(@, sweep.max)]
  /\ sweep' = IF sweep.last THEN Idle
              ELSE [sweep EXCEPT !.pc = "page", !.batch = {}, !.max = 0]
  /\ UNCHANGED <<source, now, feed, cancelled, faults>>
  /\ excused' = StillLost

(* github: the loop over the pages ends, what was read is flushed. *)
GithubCancelled ==
  /\ source = "github" /\ sweep.pc = "page" /\ cancelled
  /\ sweep' = [sweep EXCEPT !.pc = "flush", !.last = TRUE]
  /\ UNCHANGED <<source, now, feed, stored, wm, cancelled, excused, faults>>

(* github_s3: a page of keys.  After the last one the markers are dropped  *)
(* and the list is cut to the first MAXOBJ keys; with nothing left the     *)
(* sweep is over.                                                          *)
S3Page_TruncateFirst ==
  /\ source = "github_s3" /\ MayFetch
  /\ LET page == NextPage
         last == page = Rest
         keys == DropMarkers(FirstOf(sweep.batch \cup page, MAXOBJ))
     IN sweep' = IF ~last
                 THEN [sweep EXCEPT !.pos = EndOf(page), !.batch = @ \cup page]
                 ELSE IF keys = {} THEN Idle
                 ELSE [sweep EXCEPT !.pc = "get", !.pos = EndOf(page), !.batch = keys]
  /\ UNCHANGED <<source, now, feed, stored, wm, cancelled, excused, faults>>

S3Page ==
  /\ source = "github_s3" /\ MayFetch
  /\ LET page == NextPage
         last == page = Rest
         keys == FirstOf(DropMarkers(sweep.batch \cup page), MAXOBJ)
     IN sweep' = IF ~last
                 THEN [sweep EXCEPT !.pos = EndOf(page), !.batch = @ \cup page]
                 ELSE IF keys = {} THEN Idle
                 ELSE [sweep EXCEPT !.pc = "get", !.pos = EndOf(page), !.batch = keys]
  /\ UNCHANGED <<source, now, feed, stored, wm, cancelled, faults>>
  /\ excused' = IF sweep' = Idle THEN StillLost ELSE excused

(* github_s3: the objects are fetched concurrently, any of them may fail;  *)
(* those before the first failure are kept.  With none the sweep ends as   *)
(* if there had been nothing to read: no error is recorded.                *)
S3Fetch ==
  /\ source = "github_s3" /\ sweep.pc = "get"
  /\ \E k \in 0 .. Cardinality(sweep.batch) :
       LET good == FirstOf(sweep.batch, k) IN
       /\ IF good = sweep.batch THEN UNCHANGED faults
          ELSE faults < MaxFaults /\ faults' = faults + 1
       /\ sweep' = IF good = {} THEN Idle
                   ELSE [sweep EXCEPT !.pc = "flush", !.batch = good]
  /\ UNCHANGED <<source, now, feed, stored, wm, cancelled>>
  /\ excused' = IF sweep' = Idle THEN StillLost ELSE excused

(* github_s3: rows and cursor in one transaction. *)
S3Commit ==
  /\ source = "github_s3" /\ sweep.pc = "flush"
  /\ stored' = [i \in Items |-> IF i \in sweep.batch THEN feed[i] ELSE stored[i]]
  /\ wm' = [at  |-> Max({wm.at} \cup {feed[i] : i \in sweep.batch}),
            key |-> Later(wm.key, LastPos(sweep.batch))]
  /\ sweep' = Idle
  /\ UNCHANGED <<source, now, feed, cancelled, faults>>
  /\ excused' = StillLost

(* guardduty: the next region, or the end of the loop over them. *)
RegionDone(max) ==
  IF sweep.region = Regions
  THEN [sweep EXCEPT !.pc = "advance", !.batch = {}, !.max = max]
  ELSE [sweep EXCEPT !.pc = "page", !.region = @ + 1, !.pos = Start(sweep.since),
                     !.batch = {}, !.max = max, !.last = FALSE]

(* guardduty: ListFindings, a page of ids updated at or after `since`. *)
GuarddutyList ==
  /\ source = "guardduty" /\ MayFetch
  /\ LET page == NextPage
     IN sweep' = IF page = {} THEN RegionDone(sweep.max)
                 ELSE [sweep EXCEPT !.pc = "get", !.pos = EndOf(page),
                                    !.batch = page, !.last = page = Rest]
  /\ UNCHANGED <<source, now, feed, stored, wm, cancelled, excused, faults>>

(* guardduty: GetFindings of these ids, as they are now, and the upsert of *)
(* the page in a transaction of its own.                                   *)
GuarddutyStore ==
  /\ source = "guardduty" /\ sweep.pc = "get"
  /\ stored' = [i \in Items |-> IF i \in sweep.batch THEN feed[i] ELSE stored[i]]
  /\ LET max == Max({sweep.max} \cup {feed[i] : i \in sweep.batch})
     IN sweep' = IF sweep.last THEN RegionDone(max)
                 ELSE [sweep EXCEPT !.pc = "page", !.batch = {}, !.max = max]
  /\ excused' = excused \ sweep.batch
  /\ UNCHANGED <<source, now, feed, wm, cancelled, faults>>

(* guardduty: cancelled before a page; the rest of this region and the     *)
(* later regions are not read, the watermark is moved all the same.        *)
GuarddutyCancelled ==
  /\ source = "guardduty" /\ sweep.pc = "page" /\ cancelled
  /\ sweep' = [sweep EXCEPT !.pc = "advance", !.last = TRUE]
  /\ excused' = excused \cup {i \in Present : /\ Region(i) >= sweep.region
                                             /\ stored[i] # feed[i]}
  /\ UNCHANGED <<source, now, feed, stored, wm, cancelled, faults>>

(* guardduty: one watermark for all regions, if a newer finding was seen. *)
GuarddutyAdvance ==
  /\ source = "guardduty" /\ sweep.pc = "advance"
  /\ wm' = IF sweep.max = wm.at THEN wm
           ELSE [wm EXCEPT !.at = Latest(@, sweep.max)]
  /\ sweep' = Idle
  /\ UNCHANGED <<source, now, feed, stored, cancelled, faults>>
  /\ excused' = StillLost

(***************************************************************************)
(* Failures and changes of leader.                                         *)
(***************************************************************************)

(* An error ends the sweep: what was not flushed is dropped.  The fetch of *)
(* an S3 object reports none, a rate-limit wait only when cancelled.       *)
Fail ==
  /\ \/ /\ sweep.pc \in {"idle", "page", "retry", "get", "flush", "advance"}
        /\ ~(source = "github_s3" /\ sweep.pc = "get")
        /\ faults < MaxFaults /\ faults' = faults + 1
     \/ sweep.pc = "wait" /\ cancelled /\ UNCHANGED faults
  /\ sweep' = Idle
  /\ UNCHANGED <<source, now, feed, stored, wm, cancelled>>
  /\ excused' = StillLost

(* Seen in the pause between two sweeps. *)
StopTask ==
  /\ sweep.pc = "idle" /\ cancelled
  /\ sweep' = [Idle EXCEPT !.pc = "stopped"]
  /\ UNCHANGED <<source, now, feed, stored, wm, cancelled, excused, faults>>

(* The lease is lost, or the process is told to stop. *)
Cancel ==
  /\ ~cancelled
  /\ faults < MaxFaults /\ faults' = faults + 1
  /\ cancelled' = TRUE
  /\ UNCHANGED <<source, now, feed, stored, wm, sweep, excused>>

(* The next leader starts the worker. *)
Restart ==
  /\ sweep.pc = "stopped"
  /\ sweep' = Idle
  /\ cancelled' = FALSE
  /\ UNCHANGED <<source, now, feed, stored, wm, excused, faults>>

(* The process dies; a leader elsewhere starts over. *)
Crash ==
  /\ faults < MaxFaults /\ faults' = faults + 1
  /\ sweep' = Idle
  /\ cancelled' = FALSE
  /\ UNCHANGED <<source, now, feed, stored, wm>>
  /\ excused' = StillLost

(* The worker's own steps. *)
Step == \/ Begin \/ WaitOver
        \/ GithubPage \/ GithubFlush \/ GithubCancelled
        \/ S3Page \/ S3Fetch \/ S3Commit
        \/ GuarddutyList \/ GuarddutyStore \/ GuarddutyCancelled \/ GuarddutyAdvance
        \/ StopTask \/ Restart

Next == \/ Step
        \/ \E i \in Items : Publish(i) \/ Update(i)
        \/ Tick \/ RateLimited \/ Fail \/ Cancel \/ Crash

Spec == Init /\ [][Next]_vars

(* The worker runs whenever it can; what others do is not assumed. *)
FairSpec == Spec /\ WF_vars(Step)

(***************************************************************************)
(* Properties.                                                             *)
(***************************************************************************)

(* An event or object from before the point where the next sweep resumes   *)
(* is stored, or was lost in one of the named ways: it appeared behind     *)
(* that point or behind the pages of a sweep under way, or outlived the    *)
(* window unread.  Pages out of order, a flush per FLUSH pages, failed     *)
(* pages, objects and transactions, and changes of leader lose nothing.    *)
(* (github.rs run_once, github_s3.rs run_once and fetch_keys)              *)
NoGapBelowFloor ==
  source # "guardduty" =>
    \A i \in Present \ Blank :
      Before(Pos(i), Floor) => stored[i] = feed[i] \/ i \in excused

(* A finding older than the watermark is stored as it last was, unless it  *)
(* was updated in the course of a sweep that had already listed it or its  *)
(* region, or a cancelled sweep left it out, or it is older than the first *)
(* sweep's window.  In particular a failed region moves no watermark.      *)
(* (guardduty.rs run_once, sweep_detector)                                 *)
QuietFindingsKept ==
  source = "guardduty" =>
    \A i \in Present : feed[i] < wm.at => stored[i] = feed[i] \/ i \in excused

(* Whenever the feed comes to rest everything in it is stored, however the *)
(* sweeps are cut into pages, flushes and throttled runs, if failures      *)
(* cease: no list of markers, page boundary or cap makes a sweep repeat    *)
(* itself for good.  (A behaviour of the model ends its publications with  *)
(* MaxTime and N.)                                                         *)
EventuallyStored ==
  []<>(\A i \in Present \ Blank : stored[i] = feed[i] \/ i \in excused)
=============================================================================
