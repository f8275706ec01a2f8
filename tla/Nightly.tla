------------------------------ MODULE Nightly ------------------------------
(***************************************************************************)
(* The nightly replay: at 17:00 BacktestLoop (live/backtest_loop.py) steps *)
(* BacktestHarness (backtest/harness.py) over the captured days it has not *)
(* replayed yet and saves the ReplayState (backtest/state.py) it goes on   *)
(* from the next night.  It runs in a thread while the captures of Capture *)
(* may still write the very day it reads.                                  *)
(*                                                                         *)
(* What the policy scores, and when it leaves a position, are choices: the *)
(* rules are those of Trade.  A ticker has one contract here.  A write is  *)
(* atomic but for that of the replay's state, which is cut off by a crash. *)
(***************************************************************************)
EXTENDS Capture, SequencesExt

CONSTANTS
  Initial,      \* initial_capital, in hundreds of dollars like the prices
  Cap,          \* max_concurrent_positions
  MinCoverage,  \* min_coverage_days
  MaxLots,      \* _MAX_CONTRACTS
  Share         \* 1 / max_trade_pct

ASSUME NightlyAssumption ==
  /\ Initial \in Nat /\ Cap \in Nat /\ MinCoverage \in Nat
  /\ MaxLots \in Nat \ {0} /\ Share \in Nat \ {0}

VARIABLES
  run,    \* BacktestLoop: idle, stepping or saving
  todo,   \* days the run has still to step
  state,  \* the ReplayState of the run
  file,   \* backtest_state.json: absent, corrupt or good
  saved   \* the ReplayState in it

replayVars == <<run, todo, state, file, saved>>
vars == <<captureVars, replayVars>>

(* A record is also the position: the open ones are named by their index.  *)
Fresh == [cash |-> Initial, records |-> <<>>, open |-> {}, processed |-> {}]

(* DataStore.load: the tickers of a day are those with a report; without   *)
(* one, the other files of a ticker are not read.                          *)
Captured(d) == {t \in Names : <<d, t>> \in gex}

(* get_option_premium finds the contract.                                  *)
Priced(d, t) == t \in Captured(d) /\ quote[<<d, t>>] # NoPrice

Init ==
  /\ CaptureInit /\ run = "idle" /\ todo = {} /\ state = Fresh
  /\ file = "absent" /\ saved = Fresh

-----------------------------------------------------------------------------
(* BacktestHarness._step_one_day                                           *)

(* The positions the day has a premium for.  Of them should_exit may leave *)
(* some, those it knows the spot price of too: which ones is left open.    *)
Quoted(s, d) == {i \in s.open : Priced(d, s.records[i].name)}

(* A new high is kept before the exits, whether or not one fires, and      *)
(* whether or not the spot price is known.                                 *)
Watched(s, d) ==
  LET price(i) == quote[<<d, s.records[i].name>>]
  IN  [s EXCEPT !.records =
        [i \in DOMAIN @ |-> IF i \in Quoted(s, d) /\ price(i) > @[i].peak
                              THEN [@[i] EXCEPT !.peak = price(i)] ELSE @[i]]]

(* _contracts_for_budget                                                   *)
Lots(cash, price) == Max({1, Min({MaxLots, (cash \div Share) \div price})})

(* The sum of a sequence of amounts.                                       *)
Total(amounts) ==
  LET upTo[n \in 0..Len(amounts)] == IF n = 0 THEN 0 ELSE upTo[n - 1] + amounts[n]
  IN  upTo[Len(amounts)]

(* Mutation: each contract brings in its price once.                       *)
SellOne(s, sold, d) ==
  LET worth(i) == quote[<<d, s.records[i].name>>]
      closed(i) == [s.records[i] EXCEPT !.status = "closed", !.exited = d,
                                        !.got = quote[<<d, s.records[i].name>>]]
  IN  [s EXCEPT
        !.cash = @ + Total([i \in DOMAIN s.records |-> IF i \in sold THEN worth(i) ELSE 0]),
        !.records = [i \in DOMAIN @ |-> IF i \in sold THEN closed(i) ELSE @[i]],
        !.open = @ \ sold]

(* The exits the policy decided on.                                        *)
Sell(s, sold, d) ==
  LET worth(i) == quote[<<d, s.records[i].name>>] * s.records[i].lots
      closed(i) == [s.records[i] EXCEPT !.status = "closed", !.exited = d,
                                        !.got = quote[<<d, s.records[i].name>>]]
  IN  [s EXCEPT
        !.cash = @ + Total([i \in DOMAIN s.records |-> IF i \in sold THEN worth(i) ELSE 0]),
        !.records = [i \in DOMAIN @ |-> IF i \in sold THEN closed(i) ELSE @[i]],
        !.open = @ \ sold]

(* BacktestPosition.from_candidate, and its record.                        *)
Entry(t, d, lots) ==
  [name |-> t, entered |-> d, lots |-> lots, paid |-> quote[<<d, t>>], peak |-> 0,
   status |-> "open", exited |-> 0, got |-> 0]

Buy(s, t, d) ==
  LET lots == Lots(s.cash, quote[<<d, t>>])
      cost == lots * quote[<<d, t>>]
  IN  IF Cardinality(s.open) >= Cap \/ cost > s.cash THEN s
      ELSE [s EXCEPT !.cash = @ - cost,
                     !.records = Append(@, Entry(t, d, lots)),
                     !.open = @ \union {Len(s.records) + 1}]

(* The entries, in the order of the ranking.                               *)
Entered(s, ranked, d) ==
  LET after[n \in 0..Len(ranked)] == IF n = 0 THEN s ELSE Buy(after[n - 1], ranked[n], d)
  IN  after[Len(ranked)]

(* Mutation: the entries come first, and may leave the same day.           *)
SteppedEntriesFirst(s, d, sold, ranked) ==
  LET after == Entered(s, ranked, d)
  IN  [Sell(Watched(after, d), Quoted(after, d), d) EXCEPT !.processed = @ \union {d}]

(* First the exits, then the entries.                                      *)
Stepped(s, d, sold, ranked) ==
  [Entered(Sell(Watched(s, d), sold, d), ranked, d) EXCEPT !.processed = @ \union {d}]

-----------------------------------------------------------------------------
(* BacktestLoop.run_once                                                   *)

(* The candidates of generate_and_score that pass should_enter are among   *)
(* the tickers of the universe the day can price.                          *)
Tradable(d, universe) == {t \in universe : Priced(d, t)}

(* covered_tickers                                                         *)
Universe ==
  {t \in Names : Cardinality({d \in Days : <<d, t>> \in coverage}) >= MinCoverage}

(* _load_state                                                             *)
Loaded == IF file = "good" THEN saved ELSE Fresh

(* No captured day, no universe, or a history that begins today, which the *)
(* harness refuses: nothing is done.  Every directory is a day to replay   *)
(* (available_dates), an older one too that was not there the last time.   *)
BacktestFires ==
  /\ clock = "replay" /\ "backtest" \notin missed
  /\ missed' = missed \union {"backtest"}
  /\ IF dirs = {} \/ Universe = {} \/ Min(dirs) = day
     THEN UNCHANGED <<run, todo, state>>
     ELSE /\ run' = "stepping" /\ state' = Loaded
          /\ todo' = dirs \ Loaded.processed
  /\ UNCHANGED <<day, clock, disk, loop, loopTodo, saver, saverTodo, saverSet, faults, file, saved>>

(* Mutation: the directories are not sorted, and come newest first.        *)
NewestDate(dates) == Max(dates)

(* The directories are sorted by their names.                              *)
NextDate(dates) == Min(dates)

(* step_forward, a day at a time, the oldest of this run first.            *)
StepOneDay ==
  /\ run = "stepping" /\ todo # {}
  /\ LET d == NextDate(todo)
     IN  /\ \E sold \in SUBSET Quoted(state, d),
               ranked \in UNION {SetToSeqs(S) : S \in SUBSET Tradable(d, Universe)} :
              state' = Stepped(state, d, sold, ranked)
         /\ todo' = todo \ {d}
  /\ UNCHANGED <<captureVars, run, file, saved>>

(* A file that cannot be read, or any other exception: the run is lost.    *)
RunRaises ==
  /\ run # "idle" /\ faults < MaxFaults /\ faults' = faults + 1
  /\ run' = "idle" /\ todo' = {} /\ state' = Fresh
  /\ UNCHANGED <<day, clock, missed, disk, loop, loopTodo, saver, saverTodo, saverSet, file, saved>>

(* to_dict, and from_dict the next night: the peaks are not among the keys.*)
Stored(s) ==
  [s EXCEPT !.records = [i \in DOMAIN @ |-> [@[i] EXCEPT !.peak = 0]]]

(* _persist_state writes the file in place.                                *)
Persist ==
  /\ run = "stepping" /\ todo = {}
  /\ file' = "good" /\ saved' = Stored(state) /\ run' = "idle" /\ state' = Fresh
  /\ UNCHANGED <<captureVars, todo>>

-----------------------------------------------------------------------------
(* The clock, and the process.  A bound: nothing runs into the next day.   *)

CaptureTime ==
  /\ clock = "session" /\ clock' = "capture"
  /\ UNCHANGED <<day, missed, disk, loop, loopTodo, saver, saverTodo, saverSet, faults, replayVars>>

ReplayTime ==
  /\ clock = "capture" /\ {"loop", "saver"} \subseteq missed /\ clock' = "replay"
  /\ UNCHANGED <<day, missed, disk, loop, loopTodo, saver, saverTodo, saverSet, faults, replayVars>>

NextDay ==
  /\ clock = "replay" /\ "backtest" \in missed /\ day < MaxDay
  /\ loop = "idle" /\ saver = "idle" /\ run = "idle"
  /\ day' = day + 1 /\ clock' = "session" /\ missed' = {}
  /\ UNCHANGED <<disk, loop, loopTodo, saver, saverTodo, saverSet, faults, replayVars>>

(* A crash, cutting off a write of the state if there is one, and a        *)
(* restart, which waits for the next 16:30 and the next 17:00.  It may be  *)
(* long in coming.                                                         *)
Crash ==
  /\ faults < MaxFaults /\ faults' = faults + 1 /\ CaptureLost
  /\ run' = "idle" /\ todo' = {} /\ state' = Fresh
  /\ \/ UNCHANGED <<file, saved>>
     \/ run = "stepping" /\ todo = {} /\ file' = "corrupt" /\ saved' = Fresh
  /\ \/ clock = "session" /\ missed' = missed
     \/ clock # "replay" /\ missed' = {"loop", "saver"}
     \/ missed' = {"loop", "saver", "backtest"}
  /\ UNCHANGED <<day, clock, disk>>

Next ==
  \/ CaptureNext /\ UNCHANGED replayVars
  \/ BacktestFires \/ StepOneDay \/ RunRaises \/ Persist
  \/ CaptureTime \/ ReplayTime \/ NextDay \/ Crash

Spec == Init /\ [][Next]_vars

-----------------------------------------------------------------------------
(* The states there are: of the run, and of the file.                      *)
States == {state, saved}

(* _step_one_day, to_dict and from_dict: no money is made or lost by the   *)
(* replay itself.  Through nights that catch up, lose runs and go on from  *)
(* the file, the cash is the initial capital, less what the open positions *)
(* cost, plus what each closed trade brought in over its cost; it never    *)
(* goes below zero.                                                        *)
CashAccounted ==
  \A s \in States :
    LET cost(r) == r.paid * r.lots
        gain(r) == (r.got - r.paid) * r.lots
    IN  /\ s.cash >= 0
        /\ s.cash = Initial + Total([i \in DOMAIN s.records |->
                       IF i \in s.open THEN -cost(s.records[i]) ELSE gain(s.records[i])])

(* The record of trades is one a trader could have made: the open          *)
(* positions are those whose record is open (to_dict keeps the two apart), *)
(* no more than the cap, every trade was entered on a day the state counts *)
(* as replayed, left on another one, and never above the peak the exit     *)
(* rules were shown.  It was left on an earlier day only if a script added *)
(* that day after its own time, and no sooner than the day of the entry    *)
(* was added: without a backfill time runs forward.                        *)
TradesPossible ==
  \A s \in States :
    /\ Cardinality(s.open) <= Cap
    /\ \A i \in DOMAIN s.records :
         LET r == s.records[i]
         IN  /\ (i \in s.open) = (r.status = "open") /\ r.entered \in s.processed
             /\ r.status = "closed" =>
                  /\ r.exited \in s.processed /\ r.entered # r.exited
                  /\ r.exited < r.entered => /\ added[r.entered] <= added[r.exited]
                                             /\ r.exited < added[r.exited]
             /\ r.peak # 0 => r.got <= r.peak

(* step_forward "must produce the same trade outcomes as run()", which     *)
(* walks the days in order (tests/integration/test_backtest_harness.py:    *)
(* 306): no trade is left before it was entered.                           *)
TradesInOrder ==
  \A s \in States : \A i \in DOMAIN s.records :
    s.records[i].status = "closed" => s.records[i].entered < s.records[i].exited

=============================================================================
