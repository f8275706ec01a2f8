------------------------------ MODULE Capture ------------------------------
(***************************************************************************)
(* The history of the market on disk, one directory of fixture files per   *)
(* day.  Two loops write today's at 16:30: CaptureLoop                     *)
(* (live/capture_loop.py) asks Unusual Whales again, StateCaptureLoop      *)
(* (live/state_capture.py) writes what the scanner's cache holds, from a   *)
(* thread.  Both take the day as captured when its market_tide.json is     *)
(* there, write the same files, and may overlap, take longer than half an  *)
(* hour, fail between two files or end with the process.  The log of flow  *)
(* alerts (live/flow_capture.py) puts its file there during the session,   *)
(* and the scripts add days that have passed (scripts/fetch_history.py,    *)
(* scripts/fetch_polygon_history.py) whenever somebody runs them.          *)
(*                                                                         *)
(* Of a ticker's files two are kept apart: the GEX report, by which the    *)
(* DataStore finds the ticker, and the others, of which the replay uses    *)
(* the prices.                                                             *)
(***************************************************************************)
EXTENDS Integers, FiniteSets

CONSTANTS
  Names,        \* ticker symbols
  MaxTickers,   \* max_tickers of CaptureLoop
  Prices,       \* option mids
  Start,        \* the day on which the process runs for the first time
  MaxDay,       \* bound: trading days
  Filled,       \* bound: the days somebody runs a script for
  MaxFaults     \* bound: failing writes and crashes in one behaviour

ASSUME CaptureAssumption ==
  /\ IsFiniteSet(Names) /\ MaxTickers \in Nat /\ Prices \subseteq Nat \ {0}
  /\ MaxDay \in Nat \ {0} /\ Filled \subseteq 1..MaxDay /\ Start \in 1..MaxDay /\ MaxFaults \in Nat

VARIABLES
  day, clock,   \* the time: before 16:30, from 16:30, from 17:00
  missed,       \* loops not to fire any more today, run or missed
  added,        \* the day on which each day got its directory: 0 when it has none
  tide,         \* market_tide.json of each day: absent, empty or full
  gex,          \* <<day, ticker>>s with a GEX report
  quote,        \* the price in the other files of each: 0 when there is none
  coverage,     \* ticker_coverage.json: <<day, ticker>>s
  loop, loopTodo,    \* CaptureLoop: what it writes next, tickers left
  saver, saverTodo, saverSet,  \* StateCaptureLoop: and all it was to write
  faults

disk == <<added, tide, gex, quote, coverage>>
captureVars == <<day, clock, missed, disk, loop, loopTodo, saver, saverTodo, saverSet, faults>>

Days == 1..MaxDay
Cells == Days \X Names
NoPrice == 0
Cell(t) == <<day, t>>

(* The days with a directory.                                              *)
dirs == {d \in Days : added[d] # 0}

(* mkdir(parents=True, exist_ok=True)                                      *)
Made(d) == [added EXCEPT ![d] = IF @ = 0 THEN day ELSE @]

CaptureTypeOK ==
  /\ day \in Days /\ clock \in {"session", "capture", "replay"}
  /\ missed \subseteq {"loop", "saver", "backtest"} /\ faults \in 0..MaxFaults
  /\ added \in [Days -> 0..MaxDay] /\ tide \in [Days -> {"absent", "empty", "full"}]
  /\ gex \subseteq Cells /\ quote \in [Cells -> Prices \union {NoPrice}]
  /\ coverage \subseteq Cells
  /\ loop \in {"idle", "tide", "alerts", "tickers"}
  /\ saver \in {"idle", "tide", "tickers"}
  /\ loopTodo \subseteq Cells /\ saverTodo \subseteq saverSet /\ saverSet \subseteq Names

CaptureInit ==
  /\ day = Start /\ clock = "session" /\ missed = {} /\ added = [d \in Days |-> 0]
  /\ tide = [d \in Days |-> "absent"] /\ gex = {} /\ coverage = {}
  /\ quote = [c \in Cells |-> NoPrice] /\ loop = "idle" /\ loopTodo = {}
  /\ saver = "idle" /\ saverTodo = {} /\ saverSet = {} /\ faults = 0

-----------------------------------------------------------------------------
(* CaptureLoop.run and capture_day.                                        *)

LoopFires ==
  /\ clock = "capture" /\ "loop" \notin missed
  /\ missed' = missed \union {"loop"}
  /\ IF tide[day] # "absent" THEN UNCHANGED <<loop, added>>
     ELSE loop' = "tide" /\ added' = Made(day)
  /\ UNCHANGED <<day, clock, tide, gex, quote, coverage, loopTodo, saver, saverTodo, saverSet, faults>>

(* A call that fails is answered with empty data (_uw_call).               *)
LoopWritesTide ==
  /\ loop = "tide" /\ loop' = "alerts"
  /\ \E answer \in {"empty", "full"} : tide' = [tide EXCEPT ![day] = answer]
  /\ UNCHANGED <<day, clock, missed, added, gex, quote, coverage, loopTodo, saver,
                 saverTodo, saverSet, faults>>

(* flow_alerts.json, and from it, after the held tickers and the seeds,    *)
(* the tickers to capture, up to the cap.                                  *)
LoopWritesAlerts ==
  /\ loop = "alerts"
  /\ \E chosen \in {S \in SUBSET Names : Cardinality(S) <= MaxTickers} :
       /\ loopTodo' = {Cell(t) : t \in chosen}
       /\ loop' = IF chosen = {} THEN "idle" ELSE "tickers"
  /\ UNCHANGED <<day, clock, missed, disk, saver, saverTodo, saverSet, faults>>

(* _capture_ticker, first the report, then the files with prices; the      *)
(* tickers run side by side.                                               *)
LoopWritesGex(c) ==
  /\ loop = "tickers" /\ c \in loopTodo /\ c \notin gex /\ gex' = gex \union {c}
  /\ UNCHANGED <<day, clock, missed, added, tide, quote, coverage, loop, loopTodo,
                 saver, saverTodo, saverSet, faults>>

LoopWritesRest(c) ==
  /\ loop = "tickers" /\ c \in loopTodo /\ c \in gex
  /\ \E p \in Prices \union {NoPrice} : quote' = [quote EXCEPT ![c] = p]
  /\ loopTodo' = loopTodo \ {c} /\ loop' = IF loopTodo' = {} THEN "idle" ELSE loop
  /\ UNCHANGED <<day, clock, missed, added, tide, gex, coverage, saver, saverTodo, saverSet, faults>>

(* A write that raises: in a ticker it ends that ticker (gather collects   *)
(* the exceptions), before it ends the day's capture.                      *)
LoopRaises ==
  /\ loop # "idle" /\ faults < MaxFaults /\ faults' = faults + 1
  /\ \/ loop # "tickers" /\ loop' = "idle" /\ UNCHANGED loopTodo
     \/ \E c \in loopTodo : /\ loopTodo' = loopTodo \ {c}
                            /\ loop' = IF loopTodo' = {} THEN "idle" ELSE loop
  /\ UNCHANGED <<day, clock, missed, disk, saver, saverTodo, saverSet>>

-----------------------------------------------------------------------------
(* StateCaptureLoop.run and save_from_cache.                               *)

(* It also goes on when the tide file is there but has no data.            *)
SaverFires ==
  /\ clock = "capture" /\ "saver" \notin missed
  /\ missed' = missed \union {"saver"}
  /\ \E cached \in SUBSET Names :
       IF cached = {} \/ tide[day] = "full" THEN UNCHANGED <<saver, saverTodo, saverSet, added>>
       ELSE /\ saver' = "tide" /\ added' = Made(day)
            /\ saverTodo' = cached /\ saverSet' = cached
  /\ UNCHANGED <<day, clock, tide, gex, quote, coverage, loop, loopTodo, faults>>

(* Mutation: the manifest is written before the files.               *)
SaverWritesTideCounting ==
  /\ saver = "tide" /\ saver' = "tickers"
  /\ \E kept \in {"empty", "full"} : tide' = [tide EXCEPT ![day] = kept]
  /\ coverage' = coverage \union {Cell(t) : t \in saverSet}
  /\ UNCHANGED <<day, clock, missed, added, gex, quote, loop, loopTodo, saverTodo,
                 saverSet, faults>>

(* The tide, and flow alerts which are always empty.                       *)
SaverWritesTide ==
  /\ saver = "tide" /\ saver' = "tickers"
  /\ \E kept \in {"empty", "full"} : tide' = [tide EXCEPT ![day] = kept]
  /\ UNCHANGED <<day, clock, missed, added, gex, quote, coverage, loop, loopTodo,
                 saverTodo, saverSet, faults>>

SaverWritesTicker(t) ==
  /\ saver = "tickers" /\ t \in saverTodo /\ saverTodo' = saverTodo \ {t}
  /\ gex' = gex \union {Cell(t)}
  /\ \E p \in Prices \union {NoPrice} : quote' = [quote EXCEPT ![Cell(t)] = p]
  /\ UNCHANGED <<day, clock, missed, added, tide, coverage, loop, loopTodo, saver,
                 saverSet, faults>>

(* _update_coverage, after the last ticker.                                *)
SaverWritesCoverage ==
  /\ saver = "tickers" /\ saverTodo = {}
  /\ coverage' = coverage \union {Cell(t) : t \in saverSet}
  /\ saver' = "idle" /\ saverSet' = {}
  /\ UNCHANGED <<day, clock, missed, added, tide, gex, quote, loop, loopTodo, saverTodo,
                 faults>>

(* A write that raises ends the day's save: no coverage either.            *)
SaverRaises ==
  /\ saver # "idle" /\ faults < MaxFaults /\ faults' = faults + 1
  /\ saver' = "idle" /\ saverTodo' = {} /\ saverSet' = {}
  /\ UNCHANGED <<day, clock, missed, disk, loop, loopTodo>>

-----------------------------------------------------------------------------
(* The other writers of the history.                                       *)

(* FlowAlertCapture.record, at the first new print of the session: its     *)
(* file is not read by the replay, but it makes the directory.             *)
FlowLogged ==
  /\ clock = "session" /\ day \notin dirs /\ added' = Made(day)
  /\ UNCHANGED <<day, clock, missed, tide, gex, quote, coverage, loop, loopTodo, saver,
                 saverTodo, saverSet, faults>>

(* One day of a backfill, _fetch_day of the scripts: a day whose tide file *)
(* is there is skipped, a call that fails is answered with empty data, and *)
(* the manifest is left alone.  The script is a process of its own; its    *)
(* files are written in one step here, which any of them may miss.         *)
Backfill(d) ==
  /\ d <= day /\ tide[d] = "absent" /\ added' = Made(d)
  /\ \E answer \in {"empty", "full"} : tide' = [tide EXCEPT ![d] = answer]
  /\ \E fetched \in SUBSET Names : \E price \in [fetched -> Prices \union {NoPrice}] :
       /\ gex' = gex \union ({d} \X fetched)
       /\ quote' = [c \in Cells |-> IF c \in {d} \X fetched THEN price[c[2]] ELSE quote[c]]
  /\ UNCHANGED <<day, clock, missed, coverage, loop, loopTodo, saver, saverTodo, saverSet,
                 faults>>

CaptureNext ==
  \/ FlowLogged \/ \E d \in Filled : Backfill(d)
  \/ LoopFires \/ LoopWritesTide \/ LoopWritesAlerts \/ LoopRaises
  \/ \E c \in loopTodo : LoopWritesGex(c) \/ LoopWritesRest(c)
  \/ SaverFires \/ SaverWritesTide \/ SaverWritesCoverage \/ SaverRaises
  \/ \E t \in saverTodo : SaverWritesTicker(t)

(* The loops die with the process, which knows no more of the day.         *)
CaptureLost ==
  loop' = "idle" /\ loopTodo' = {} /\ saver' = "idle" /\ saverTodo' = {} /\ saverSet' = {}

-----------------------------------------------------------------------------
(* A ticker the manifest counts for a day (_update_coverage) has its       *)
(* report in that day's directory: the backtest picks its universe by the  *)
(* manifest and finds the tickers of a day by the reports, so a manifest   *)
(* that runs ahead of the files, in a save that fails or dies halfway,     *)
(* would count days nobody can replay.                                     *)
CoverageBacked == coverage \subseteq gex
=============================================================================
