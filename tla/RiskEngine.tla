----------------------------- MODULE RiskEngine -----------------------------
(***************************************************************************)
(* risk/engine.py: the daily loss kill-switch, its reset at the change of  *)
(* day and its survival of restarts through the state file.                *)
(*                                                                         *)
(* The engine is synchronous: check() and record_pnl() run without an      *)
(* await.  What can come between their steps is the clock, which they read *)
(* more than once, and the end of the process.  Those windows, and writes  *)
(* that fail, are the budgeted faults of this model; the engine swallows   *)
(* every one of them.                                                      *)
(*                                                                         *)
(* The gates on open positions, premium and sector carry no state from day *)
(* to day and are left to Approvals.                                       *)
(***************************************************************************)
EXTENDS Integers

CONSTANTS
  Limit,      \* daily_loss_kill_pct of account_nav
  Amounts,    \* bound: realized P&L of one exit
  MaxPnl,     \* bound: absolute P&L of one day
  MaxDay,     \* bound: days
  MaxFaults   \* bound: faults in one behaviour

ASSUME RiskAssumption ==
  /\ Limit \in Nat \ {0}
  /\ Amounts \subseteq Int
  /\ MaxPnl \in Nat /\ MaxDay \in Nat /\ MaxFaults \in Nat

VARIABLES
  today,       \* the clock
  up,          \* the process runs
  pnl,         \* _daily_pnl
  killed,      \* _kill_switch_active
  state_date,  \* _state_date
  file_date,   \* the state file: its "date", or NoFile or Garbage
  file_pnl,    \* its "daily_pnl"
  file_killed, \* its "kill_switch_active"
  verdict,     \* answer of the check just made, "none" after any other step
  real,        \* history: P&L realized today
  tripped,     \* history: the limit was reached today
  faulty,      \* history: a fault concerns today
  faults

memory == <<pnl, killed, state_date>>
file == <<file_date, file_pnl, file_killed>>
truth == <<real, tripped>>
vars == <<today, up, memory, file, verdict, truth, faulty, faults>>

NoFile == -1
Garbage == -2
Days == 0..MaxDay

TypeOK ==
  /\ today \in Days
  /\ up \in BOOLEAN
  /\ pnl \in Int
  /\ killed \in BOOLEAN
  /\ state_date \in Days
  /\ file_date \in Days \union {NoFile, Garbage}
  /\ file_pnl \in Int
  /\ file_killed \in BOOLEAN
  /\ verdict \in {"none", "approved", "blocked"}
  /\ real \in Int
  /\ tripped \in BOOLEAN
  /\ faulty \in BOOLEAN
  /\ faults \in 0..MaxFaults

Init ==
  /\ today = 0 /\ up = FALSE
  /\ pnl = 0 /\ killed = FALSE /\ state_date = 0
  /\ file_date = NoFile /\ file_pnl = 0 /\ file_killed = FALSE
  /\ verdict = "none"
  /\ real = 0 /\ tripped = FALSE
  /\ faulty = FALSE /\ faults = 0

NoFault == UNCHANGED <<faulty, faults>>
Fault == faults < MaxFaults /\ faults' = faults + 1 /\ faulty' = TRUE

-----------------------------------------------------------------------------
(* _persist_state, dated d: written whole.                                 *)
Persist(d, p, k) == file_date' = d /\ file_pnl' = p /\ file_killed' = k

(* A write that fails is logged and forgotten: the file stays as it was,   *)
(* or is left truncated.                                                   *)
PersistFails ==
  /\ file_date' \in {file_date, Garbage}
  /\ UNCHANGED <<file_pnl, file_killed>>

PersistOrFail(p, k) == (Persist(today, p, k) /\ NoFault) \/ (PersistFails /\ Fault)

(* _evaluate_kill_threshold: never un-trips.                               *)
Kills(p, k) == k \/ p <= -Limit

(* Mutation: the roll clears the switch and keeps the P&L.                  *)
RolledKeepingPnl == [pnl |-> pnl, killed |-> IF state_date = today THEN killed ELSE FALSE]

(* _maybe_roll_day: P&L and switch as they are after it.                   *)
Rolled ==
  IF state_date = today THEN [pnl |-> pnl, killed |-> killed]
                        ELSE [pnl |-> 0, killed |-> FALSE]

Answer(k) == verdict' = IF k THEN "blocked" ELSE "approved"

(* Mutation: check() does not roll the day (the two-week incident).         *)
CheckUnrolled ==
  /\ up
  /\ Answer(killed)
  /\ UNCHANGED <<memory, file, today, up, truth, faulty, faults>>

(* check(): rolls the day, persisting the reset, then asks the switch.     *)
Check ==
  /\ up
  /\ pnl' = Rolled.pnl /\ killed' = Rolled.killed /\ state_date' = today
  /\ IF state_date = today THEN UNCHANGED file /\ NoFault ELSE PersistOrFail(0, FALSE)
  /\ Answer(Rolled.killed)
  /\ UNCHANGED <<today, up, truth>>

(* record_pnl() up to its persistence: roll, add, evaluate.                *)
Account(a) ==
  /\ up /\ a \in Amounts
  /\ real + a \in -MaxPnl..MaxPnl
  /\ pnl' = Rolled.pnl + a
  /\ killed' = Kills(pnl', Rolled.killed)
  /\ state_date' = today
  /\ verdict' = "none"

Realize(a) ==
  /\ real' = real + a
  /\ tripped' = (tripped \/ real' <= -Limit)

RecordPnl(a) ==
  /\ Account(a) /\ Realize(a)
  /\ PersistOrFail(pnl', killed')
  /\ UNCHANGED <<today, up>>

(* Midnight falls between the roll and the write, which is dated with a    *)
(* clock of its own.                                                       *)
RecordPnlAtMidnight(a) ==
  /\ today < MaxDay
  /\ Account(a) /\ Fault
  /\ Persist(today + 1, pnl', killed')
  /\ today' = today + 1 /\ real' = 0 /\ tripped' = FALSE
  /\ UNCHANGED up

(* A new day begins: the engine does nothing until it is called.           *)
Midnight ==
  /\ today < MaxDay
  /\ today' = today + 1 /\ real' = 0 /\ tripped' = FALSE
  /\ faulty' = FALSE
  /\ verdict' = "none"
  /\ UNCHANGED <<up, memory, file, faults>>

-----------------------------------------------------------------------------
Forgotten == pnl' = 0 /\ killed' = FALSE /\ state_date' = 0

(* The process ends between two calls.                                     *)
Crash ==
  /\ up /\ up' = FALSE
  /\ Forgotten /\ verdict' = "none"
  /\ UNCHANGED <<today, file, truth, faulty, faults>>

(* The process ends while record_pnl writes: the exit has happened.        *)
CrashInWrite(a) ==
  /\ up /\ up' = FALSE
  /\ a \in Amounts /\ real + a \in -MaxPnl..MaxPnl
  /\ Realize(a) /\ PersistFails /\ Fault
  /\ Forgotten /\ verdict' = "none"
  /\ UNCHANGED today

(* Mutation: only the P&L is restored.                                      *)
LoadedPnlOnly ==
  IF file_date = today THEN [pnl |-> file_pnl, killed |-> FALSE]
                       ELSE [pnl |-> 0, killed |-> FALSE]

(* _load_state: a file of another day, or one that cannot be read, counts  *)
(* for nothing.                                                            *)
Loaded ==
  IF file_date = today THEN [pnl |-> file_pnl, killed |-> file_killed]
                       ELSE [pnl |-> 0, killed |-> FALSE]

(* _load_state removes a file of another day; __init__ then evaluates the  *)
(* threshold, which persists only if that trips the switch.                *)
Restore ==
  /\ ~up /\ up' = TRUE
  /\ pnl' = Loaded.pnl
  /\ killed' = Kills(Loaded.pnl, Loaded.killed)
  /\ verdict' = "none"

Cleared ==
  /\ file_date' = IF file_date \in {today, Garbage} THEN file_date ELSE NoFile
  /\ UNCHANGED <<file_pnl, file_killed>>

(* Mutation: _state_date is taken from the file.                            *)
StartWithFileDate ==
  /\ Restore /\ state_date' = file_date
  /\ IF killed' # Loaded.killed THEN PersistOrFail(pnl', TRUE) ELSE Cleared /\ NoFault
  /\ UNCHANGED <<today, truth>>

Start ==
  /\ Restore /\ state_date' = today
  /\ IF killed' # Loaded.killed THEN PersistOrFail(pnl', TRUE) ELSE Cleared /\ NoFault
  /\ UNCHANGED <<today, truth>>

(* Midnight falls between _load_state and the assignment of _state_date.   *)
StartAtMidnight ==
  /\ today < MaxDay
  /\ Restore /\ Fault
  /\ state_date' = today + 1
  /\ IF killed' # Loaded.killed THEN Persist(today + 1, pnl', TRUE) ELSE Cleared
  /\ today' = today + 1 /\ real' = 0 /\ tripped' = FALSE

-----------------------------------------------------------------------------
Next ==
  \/ Check
  \/ \E a \in Amounts : RecordPnl(a) \/ RecordPnlAtMidnight(a) \/ CrashInWrite(a)
  \/ Midnight
  \/ Crash
  \/ Start
  \/ StartAtMidnight

Spec == Init /\ [][Next]_vars

-----------------------------------------------------------------------------
(* Once the day's realized losses have reached the limit, no check of that *)
(* day is answered "approved": not after gains that follow, and not after  *)
(* any number of restarts.                                                 *)
NoEntryWhileTripped == verdict = "approved" => ~tripped \/ faulty

(* A check is blocked only by the losses of its own day: neither a process *)
(* that runs for days, nor a file left by another day, nor a fault of an   *)
(* earlier day blocks a new one.                                           *)
BlockedByTodayOnly == verdict = "blocked" => tripped \/ faulty

(* The engine's daily P&L is what the day has realized, whatever was       *)
(* crashed, reloaded or rolled on the way.                                 *)
PnlExact == up /\ state_date = today /\ ~faulty => pnl = real
=============================================================================
