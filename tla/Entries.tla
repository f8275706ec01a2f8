------------------------------ MODULE Entries ------------------------------
(***************************************************************************)
(* How the agent comes to want a position: live/scanner.py (GEXScanner)    *)
(* fills live/cache.py (GEXCache) hourly, live/watcher.py (FlowWatcher)    *)
(* polls the whale prints, records them (live/flow_capture.py) and runs    *)
(* the pipeline of each ticker a new print concerns.                       *)
(*                                                                         *)
(* Both loops are coroutines that hand over at network calls.  A poll      *)
(* lasts seconds, so no clock tick falls inside one; a broker event, a     *)
(* decision of the trader or the other loop may.  A scan may last up to    *)
(* ScanTakes ticks, discovery included; the fetches for one ticker count   *)
(* as of their end, as refreshed_at does.  What the pure nodes of the      *)
(* pipeline decide about a ticker (Pipeline) is an open choice here, and   *)
(* so is what becomes of an order once it was sent (OrderLifecycle).       *)
(* propose_only treats proposals as rh_approval does.                      *)
(***************************************************************************)
EXTENDS Integers, SequencesExt, FiniteSets

CONSTANTS
  Tickers,
  Seeds,         \* seed_tickers
  MaxDiscovered, \* max_discovered_tickers
  ScanEvery,     \* _SCAN_INTERVAL, in clock ticks, counted from a scan's end
  RetryEvery,    \* _RETRY_INTERVAL, from the end of a scan that failed
  ScanTakes,     \* bound: ticks one scan takes
  StaleAfter,    \* is_stale: age of a snapshot above which it is not used
  Cooldown,      \* _ATTEMPT_COOLDOWN_SECONDS, and TTL_SECONDS of a proposal
  Window,        \* alerts in one answer of get_flow_alerts
  MaxSeen, Keep, \* _filter_new: size of _seen that is too large, and what is kept
  MaxAlerts,     \* bound: prints of one behaviour
  MaxTime,       \* bound: clock ticks
  MaxDay,        \* bound: trading days
  MaxFaults      \* bound: failed calls and crashes

(* The code leaves 300 s between the interval of the scans and the age at  *)
(* which a snapshot is stale: room for two scans of 150 s.  An alert can   *)
(* be answered again after 2 * Window - 2 others were seen.                *)
ASSUME EntriesAssumption ==
  /\ Seeds \subseteq Tickers /\ MaxDiscovered \in Nat
  /\ ScanEvery \in Nat \ {0} /\ RetryEvery \in 1..ScanEvery
  /\ StaleAfter \in Nat /\ ScanTakes \in Nat /\ ScanEvery + 2 * ScanTakes <= StaleAfter
  /\ Cooldown \in Nat
  /\ Window \in Nat \ {0} /\ Keep \in Nat /\ MaxSeen \in Nat
  /\ 2 * Window - 1 <= Keep /\ Keep <= MaxSeen
  /\ MaxAlerts \in Nat /\ MaxTime \in Nat /\ MaxDay \in Nat \ {0} /\ MaxFaults \in Nat

VARIABLES
  mode,      \* ExecutionMode
  prints,    \* the market: the ticker of each print so far
  cache,     \* GEXCache.tickers: a snapshot per ticker, or NoSnapshot
  scanIn,    \* ticks until a scan is due, less those the due one has taken
  scanning,  \* a scan has its universe of tickers
  todo,      \* tickers the scan in progress has still to fetch
  got,       \* snapshots it has made
  heldRead,  \* the held tickers it has read
  seen,      \* FlowWatcher._seen, oldest first
  attempted, \* ticks since the attempt in _recent_attempts, or NoTime
  running,   \* tickers whose pipeline _poll has yet to run
  sending,   \* tickers whose execution awaits the executor
  proposal,  \* ticks since the pending proposal of a ticker was made, or NoTime
  orders,    \* working buy orders of each ticker
  positions, \* PositionStore: positions of each ticker
  logged,    \* flow_alerts_intraday.jsonl: (day, print) pairs
  logSeen, logDay,  \* FlowAlertCapture._seen and ._seen_date
  time, day, faults,
  hist       \* what the properties remember, see HistType

scanner == <<cache, scanIn, scanning, todo, got, heldRead>>
watcher == <<seen, attempted, running, sending, proposal>>
broker == <<orders, positions>>
capture == <<logged, logSeen, logDay>>
clock == <<time, day>>
vars == <<mode, prints, scanner, watcher, broker, capture, clock, faults, hist>>

NoTime == -1
NoSnapshot == [setup |-> FALSE, age |-> NoTime]
Older(n, bound) == IF n = NoTime \/ n > bound THEN n ELSE n + 1

Cached == {t \in Tickers : cache[t] # NoSnapshot}
Held == {t \in Tickers : positions[t] > 0}
IsStale(t) == cache[t].age > StaleAfter
Alerts == 1..MaxAlerts

Snapshots == [setup : BOOLEAN, age : 0..(StaleAfter + 1)] \union {NoSnapshot}
Ages(bound) == {NoTime} \union 0..(bound + 1)

HistType ==
  [structure : [Tickers -> Ages(StaleAfter)], \* since an answer showed a structure
   failed : BOOLEAN,           \* a scan has failed since the last finished one
   kept : SUBSET Tickers,      \* held and fetched by the last finished scan, and held since
   outlived : SUBSET Tickers,  \* an order outlived its cooldown, or a restart
   acted : SUBSET Alerts,      \* prints that have started a pipeline
   again : BOOLEAN,            \* one of them did so twice in one process
   blind : BOOLEAN]            \* an attempt without a structure in that time

TypeOK ==
  /\ mode \in {"rh_approval", "autonomous"}
  /\ prints \in Seq(Tickers) /\ Len(prints) <= MaxAlerts
  /\ cache \in [Tickers -> Snapshots] /\ got \in [Tickers -> Snapshots]
  /\ scanIn \in (-ScanTakes)..ScanEvery /\ scanning \in BOOLEAN
  /\ todo \subseteq Tickers /\ heldRead \subseteq Tickers
  /\ seen \in Seq(Alerts) /\ Len(seen) <= MaxSeen
  /\ attempted \in [Tickers -> Ages(Cooldown)]
  /\ running \subseteq Tickers /\ sending \subseteq Tickers
  /\ proposal \in [Tickers -> Ages(Cooldown)]
  /\ orders \in [Tickers -> Nat] /\ positions \in [Tickers -> Nat]
  /\ logged \subseteq (1..MaxDay) \X Alerts
  /\ logSeen \subseteq Alerts /\ logDay \in 0..MaxDay
  /\ time \in 0..MaxTime /\ day \in 1..MaxDay /\ faults \in 0..MaxFaults
  /\ hist \in HistType

Never == [t \in Tickers |-> NoTime]
Empty == [t \in Tickers |-> NoSnapshot]

Init ==
  /\ mode \in {"rh_approval", "autonomous"}
  /\ prints = <<>>
  /\ cache = Empty /\ got = Empty
  /\ scanIn = 0 /\ scanning = FALSE /\ todo = {} /\ heldRead = {}
  /\ seen = <<>> /\ attempted = Never /\ running = {} /\ sending = {}
  /\ proposal = Never
  /\ orders = [t \in Tickers |-> 0] /\ positions = [t \in Tickers |-> 0]
  /\ logged = {} /\ logSeen = {} /\ logDay = 0
  /\ time = 0 /\ day = 1 /\ faults = 0
  /\ hist = [structure |-> Never, failed |-> FALSE, kept |-> {}, outlived |-> {},
             acted |-> {}, again |-> FALSE, blind |-> FALSE]

Fault == faults < MaxFaults /\ faults' = faults + 1

-----------------------------------------------------------------------------
(* GEXScanner.                                                             *)

(* Mutation: the cap is applied to the whole list.                         *)
UniverseCapped(discovered) ==
  Seeds \union discovered \union
    (IF Cardinality(discovered) < MaxDiscovered THEN Held ELSE {})

(* _dedup(seeds, held, discovered): the cap bounds the discovered tickers  *)
(* alone.                                                                  *)
Universe(discovered) == Seeds \union Held \union discovered

(* _discover_tickers, from the answers of the two slices: the tickers with *)
(* enough premium, none if both calls failed; then the positions are read. *)
Discover ==
  /\ scanIn <= 0 /\ ~scanning
  /\ scanning' = TRUE
  /\ \E discovered \in SUBSET Tickers :
       /\ Cardinality(discovered) <= MaxDiscovered
       /\ todo' = Universe(discovered)
  /\ heldRead' = Held
  /\ UNCHANGED <<mode, prints, cache, scanIn, got, watcher, broker, capture, clock,
                 faults, hist>>

(* An answer that does not parse ends the scan with nothing merged; run()  *)
(* sleeps _RETRY_INTERVAL before the next.                                 *)
DiscoverRaises ==
  /\ scanIn <= 0 /\ ~scanning
  /\ Fault
  /\ scanIn' = RetryEvery
  /\ hist' = [hist EXCEPT !.failed = TRUE]
  /\ UNCHANGED <<mode, prints, cache, scanning, todo, got, heldRead, watcher, broker,
                 capture, clock>>

(* Mutation: a failed fetch leaves the setup of the snapshot before.       *)
FetchedOver(t, found) == [setup |-> found \/ cache[t].setup, age |-> 0]

(* _scan_ticker: each fetch that fails counts as an empty answer, so the   *)
(* snapshot is new in any case, and without a setup unless the GEX and a   *)
(* spot price came and have a structure.                                   *)
Fetched(t, found) == [setup |-> found, age |-> 0]

ScanTicker(t) ==
  /\ t \in todo
  /\ todo' = todo \ {t}
  /\ \E found \in BOOLEAN :
       /\ got' = [got EXCEPT ![t] = Fetched(t, found)]
       /\ hist' = IF found THEN [hist EXCEPT !.structure[t] = 0] ELSE hist
  /\ UNCHANGED <<mode, prints, cache, scanIn, scanning, heldRead, watcher, broker,
                 capture, clock, faults>>

(* An exception in it: gather returns it, the ticker has no new snapshot.  *)
ScanTickerRaises(t) ==
  /\ t \in todo
  /\ Fault
  /\ todo' = todo \ {t}
  /\ heldRead' = heldRead \ {t}
  /\ UNCHANGED <<mode, prints, cache, scanIn, scanning, got, watcher, broker, capture,
                 clock, hist>>

(* GEXCache.update merges: a ticker no longer scanned keeps its snapshot.  *)
ScanEnds ==
  /\ scanning /\ todo = {}
  /\ scanning' = FALSE
  /\ cache' = [t \in Tickers |-> IF got[t] # NoSnapshot THEN got[t] ELSE cache[t]]
  /\ got' = Empty
  /\ scanIn' = ScanEvery
  /\ heldRead' = {}
  /\ hist' = [hist EXCEPT !.kept = heldRead \intersect Held, !.failed = FALSE]
  /\ UNCHANGED <<mode, prints, todo, watcher, broker, capture, clock, faults>>

-----------------------------------------------------------------------------
(* FlowWatcher.                                                            *)

Latest == {i \in DOMAIN prints : i > Len(prints) - Window}

(* FlowAlertCapture.record, for the answered alerts: what is new today is  *)
(* appended, and is marked seen only if every line could be written.       *)
SeenToday == IF logDay = day THEN logSeen ELSE {}
Unlogged == Latest \ SeenToday

(* Mutation: the seen alerts are not forgotten at the change of the day.   *)
RecordAcrossDays ==
  /\ logDay' = day
  /\ logged' = logged \union {<<day, i>> : i \in Latest \ logSeen}
  /\ logSeen' = logSeen \union Latest

Record ==
  /\ logDay' = day
  /\ logged' = logged \union {<<day, i>> : i \in Unlogged}
  /\ logSeen' = SeenToday \union Unlogged

(* The write fails after some lines.                                       *)
RecordFails ==
  /\ logDay' = day
  /\ \E written \in SUBSET Unlogged :
       logged' = logged \union {<<day, i>> : i \in written}
  /\ logSeen' = SeenToday

(* _filter_new: unseen alerts of cached tickers, in the answer's order     *)
(* (newest first); above MaxSeen the latest Keep keys stay.                *)
NewAlerts == {i \in Latest : prints[i] \in Cached /\ ~Contains(seen, i)}

(* Mutation: what is kept are the first keys, not the last.                *)
TrimmedHead(keys) == IF Len(keys) > MaxSeen THEN SubSeq(keys, 1, Keep) ELSE keys

(* Mutation: the keys are never trimmed.                                   *)
TrimmedNever(keys) == keys

Trimmed(keys) ==
  IF Len(keys) > MaxSeen THEN SubSeq(keys, Len(keys) - Keep + 1, Len(keys)) ELSE keys

NewestFirst(new) ==
  CHOOSE keys \in [1..Cardinality(new) -> new] :
    \A j, k \in 1..Cardinality(new) : j < k => keys[j] > keys[k]

SeenAfter(new) == Trimmed(seen \o NewestFirst(new))

(* _poll, from the answer of get_flow_alerts to the pipelines' start; an   *)
(* answer that fails changes nothing.                                      *)
Poll ==
  /\ Cached # {} /\ prints # <<>>
  /\ running = {} /\ sending = {}
  /\ \/ Record /\ UNCHANGED faults
     \/ RecordFails /\ Unlogged # {} /\ Fault
  /\ seen' = SeenAfter(NewAlerts)
  /\ running' = {prints[i] : i \in NewAlerts}
  /\ hist' = [hist EXCEPT !.acted = @ \union NewAlerts,
                          !.again = @ \/ NewAlerts \intersect hist.acted # {}]
  /\ UNCHANGED <<mode, prints, scanner, attempted, sending, proposal, broker, clock>>

Usable(t) == cache[t].setup /\ ~IsStale(t)

(* Mutation: a cooldown exists for proposals alone (has_recent).           *)
RecentlyProposed(t) == proposal[t] # NoTime /\ proposal[t] <= Cooldown

RecentlyAttempted(t) == attempted[t] # NoTime /\ attempted[t] <= Cooldown

(* _run_pipeline with a candidate at its end: one attempt per ticker and   *)
(* cooldown, none while a position is open.                                *)
PipelineEnters(t) ==
  /\ t \in running
  /\ Usable(t)
  /\ ~RecentlyAttempted(t) /\ t \notin Held
  /\ running' = running \ {t}
  /\ attempted' = [attempted EXCEPT ![t] = 0]
  /\ IF mode = "autonomous"
       THEN sending' = sending \union {t} /\ UNCHANGED proposal
       ELSE proposal' = [proposal EXCEPT ![t] = 0] /\ UNCHANGED sending
  /\ hist' = [hist EXCEPT !.blind = @ \/ hist.structure[t] \notin 0..StaleAfter]
  /\ UNCHANGED <<mode, prints, scanner, seen, broker, capture, clock, faults>>

(* _run_pipeline with no candidate (no match of flow, selector or risk),   *)
(* with one of the conditions above unmet, or with an exception.           *)
PipelineEnds(t) ==
  /\ t \in running
  /\ running' = running \ {t}
  /\ UNCHANGED <<mode, prints, scanner, seen, attempted, sending, proposal, broker,
                 capture, clock, faults, hist>>

(* The executor's answer: the order is placed and tracked, or it is not    *)
(* (rejected, or an exception that is caught here).                        *)
Executed(t) ==
  /\ t \in sending
  /\ sending' = sending \ {t}
  /\ \/ orders' = [orders EXCEPT ![t] = @ + 1]
     \/ UNCHANGED orders
  /\ UNCHANGED <<mode, prints, scanner, seen, attempted, running, proposal, positions,
                 capture, clock, faults, hist>>

(* A human approves a proposal within its TTL (Approvals).                 *)
Approve(t) ==
  /\ proposal[t] \in 0..Cooldown
  /\ proposal' = [proposal EXCEPT ![t] = NoTime]
  /\ sending' = sending \union {t}
  /\ UNCHANGED <<mode, prints, scanner, seen, attempted, running, broker, capture,
                 clock, faults, hist>>

-----------------------------------------------------------------------------
(* The rest of the process, the market and the broker.                     *)

(* A print of enough premium.                                              *)
WhalePrint(t) ==
  /\ Len(prints) < MaxAlerts
  /\ prints' = Append(prints, t)
  /\ UNCHANGED <<mode, scanner, watcher, broker, capture, clock, faults, hist>>

(* OrderLifecycleManager: an order ends, with a position or without.       *)
OrderEnds(t) ==
  /\ orders[t] > 0
  /\ orders' = [orders EXCEPT ![t] = @ - 1]
  /\ \E bought \in {0, 1} : positions' = [positions EXCEPT ![t] = @ + bought]
  /\ UNCHANGED <<mode, prints, scanner, watcher, capture, clock, faults, hist>>

(* ExitLoop: a position is sold.                                           *)
Sold(t) ==
  /\ positions[t] > 0
  /\ positions' = [positions EXCEPT ![t] = @ - 1]
  /\ hist' = [hist EXCEPT !.kept = IF positions[t] = 1 THEN @ \ {t} ELSE @]
  /\ UNCHANGED <<mode, prints, scanner, watcher, orders, capture, clock, faults>>

Engaged(t) == orders[t] > 0 \/ positions[t] > 0 \/ t \in sending

Aged(snapshots) ==
  [t \in Tickers |-> [snapshots[t] EXCEPT !.age = Older(@, StaleAfter)]]

Tick ==
  /\ time < MaxTime /\ time' = time + 1 /\ UNCHANGED day
  /\ scanIn > -ScanTakes /\ scanIn' = scanIn - 1
  /\ running = {} /\ sending = {}
  /\ cache' = Aged(cache) /\ got' = Aged(got)
  /\ attempted' = [t \in Tickers |-> Older(attempted[t], Cooldown)]
  /\ proposal' = [t \in Tickers |-> Older(proposal[t], Cooldown)]
  /\ hist' = [hist EXCEPT
       !.structure = [t \in Tickers |-> Older(@[t], StaleAfter)],
       !.outlived = @ \union {t \in Tickers : attempted'[t] > Cooldown /\ Engaged(t)}]
  /\ UNCHANGED <<mode, prints, scanning, todo, heldRead, seen, running, sending,
                 broker, capture, faults>>

(* The market closes and opens again: both loops wait until then, the      *)
(* scanner is due at the open.                                             *)
NextDay ==
  /\ day < MaxDay /\ day' = day + 1
  /\ time < MaxTime /\ time' = time + 1
  /\ ~scanning /\ scanIn' = 0
  /\ running = {} /\ sending = {}
  /\ cache' = [t \in Tickers |->
                 IF t \in Cached THEN [cache[t] EXCEPT !.age = StaleAfter + 1]
                 ELSE NoSnapshot]
  /\ LET old(ages, bound) ==
           [t \in Tickers |-> IF ages[t] = NoTime THEN NoTime ELSE bound + 1]
     IN  /\ attempted' = old(attempted, Cooldown)
         /\ proposal' = old(proposal, Cooldown)
         /\ hist' = [hist EXCEPT !.structure = old(@, StaleAfter),
                                 !.kept = {},
                                 !.outlived = @ \union {t \in Tickers : Engaged(t)}]
  /\ UNCHANGED <<mode, prints, scanning, todo, got, heldRead, seen, running, sending,
                 broker, capture, faults>>

(* The process ends and starts again: broker and files remain, and the     *)
(* startup follows every order and position again (Startup).  What was     *)
(* being sent has reached the broker or has not.                           *)
Crash ==
  /\ Fault
  /\ cache' = Empty /\ got' = Empty
  /\ scanIn' = 0 /\ scanning' = FALSE /\ todo' = {} /\ heldRead' = {}
  /\ seen' = <<>> /\ attempted' = Never /\ running' = {} /\ sending' = {}
  /\ proposal' = Never
  /\ \E reached \in SUBSET sending :
       orders' = [t \in Tickers |-> orders[t] + IF t \in reached THEN 1 ELSE 0]
  /\ logSeen' = {} /\ logDay' = 0
  /\ hist' = [hist EXCEPT !.kept = {}, !.acted = {},
                          !.outlived = @ \union {t \in Tickers : Engaged(t)}]
  /\ UNCHANGED <<mode, prints, positions, logged, clock>>

Next ==
  \/ Discover \/ DiscoverRaises \/ ScanEnds
  \/ Poll \/ Tick \/ NextDay \/ Crash
  \/ \E t \in Tickers :
       \/ ScanTicker(t) \/ ScanTickerRaises(t)
       \/ PipelineEnters(t) \/ PipelineEnds(t) \/ Executed(t) \/ Approve(t)
       \/ WhalePrint(t) \/ OrderEnds(t) \/ Sold(t)

Spec == Init /\ [][Next]_vars

-----------------------------------------------------------------------------
(* A ticker is never entered a second time while an order works or a       *)
(* position is open, but when the first order outlived the cooldown of its *)
(* attempt or the process was restarted since: the test for an open        *)
(* position does not see orders, and only the cooldown, which is kept in   *)
(* memory, covers the time until an order fills (watcher.py:280-292).      *)
SingleEntry ==
  \A t \in Tickers \ hist.outlived :
    orders[t] + positions[t] + (IF t \in sending THEN 1 ELSE 0) <= 1

(* Whatever fetches fail, every attempt acts on a structure an answer      *)
(* showed within StaleAfter: a failed fetch, which is cached like an empty *)
(* answer with a fresh time (scanner.py:303), can prevent an entry but     *)
(* never stretch the life of an old structure.                             *)
ActsOnSeenStructure == ~hist.blind

(* A print starts at most one pipeline in the life of a process, although  *)
(* it is answered by many polls and the keys are trimmed (watcher.py:213). *)
ActedOnce == ~hist.again

(* A ticker held when the last finished scan read the positions, and       *)
(* since, and fetched by it without an exception, has a snapshot, however  *)
(* little its flow, and not a stale one but after a scan that failed: two  *)
(* scans may take their time, one at either end of the interval, and the   *)
(* snapshot still lasts (scanner.py:125, cache.py:41).                     *)
HeldIsFresh == \A t \in hist.kept : t \in Cached /\ (IsStale(t) => hist.failed)

(* A position's ticker is kept fresh for as long as it stays open          *)
(* (scanner.py:133-134), a failed scan included.                           *)
HeldKeptFresh == \A t \in hist.kept : t \in Cached /\ ~IsStale(t)

(* What the capture will not write again is in the file of its day: no     *)
(* failed write and no change of the day loses a print that is still being *)
(* answered (flow_capture.py:50).                                          *)
SeenIsOnDisk == \A i \in logSeen : <<logDay, i>> \in logged
=============================================================================
