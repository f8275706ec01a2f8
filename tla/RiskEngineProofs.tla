-------------------------- MODULE RiskEngineProofs --------------------------
(***************************************************************************)
(* Theorems about RiskEngine: for any limit, any amounts and any number of *)
(* days, restarts and faults, the kill-switch holds for its day and for no *)
(* other, and the daily P&L is exact.                                      *)
(*                                                                         *)
(* The argument: on a day no fault concerns, the engine in memory (once it *)
(* has rolled to the day) and the state file (once it is of the day) each  *)
(* hold the true P&L and the true switch, and as long as one of them is    *)
(* not of the day, nothing has been realized on it that it could miss.     *)
(***************************************************************************)
EXTENDS RiskEngine, TLAPS

(* Neither the engine nor the file is ahead of the clock.                  *)
DatesPast == state_date <= today /\ (file_date \in Days => file_date <= today)

(* The switch of the history is at least the threshold.                    *)
Threshold == real <= -Limit => tripped

Quietly == real = 0 /\ ~tripped

InMemory ==
  up => IF state_date = today THEN pnl = real /\ killed = tripped ELSE Quietly

OnDisk ==
  IF file_date = today THEN file_pnl = real /\ file_killed = tripped ELSE Quietly

Answered ==
  /\ verdict = "approved" => ~tripped
  /\ verdict = "blocked" => tripped

Sound == ~faulty => InMemory /\ OnDisk /\ Answered

IInv == TypeOK /\ DatesPast /\ Threshold /\ Sound

LEMMA InitInv == Init => IInv
<1> SUFFICES ASSUME Init PROVE IInv
  OBVIOUS
<1>1. 0 \in Days /\ 0 \in 0..MaxFaults
  BY RiskAssumption DEF Days
<1>2. TypeOK
  <2>1. today \in Days /\ state_date \in Days /\ faults \in 0..MaxFaults
    BY <1>1 DEF Init
  <2>2. pnl \in Int /\ file_pnl \in Int /\ real \in Int
    BY DEF Init
  <2>3. up \in BOOLEAN /\ killed \in BOOLEAN /\ file_killed \in BOOLEAN
    BY DEF Init
  <2>4. tripped \in BOOLEAN /\ faulty \in BOOLEAN
    BY DEF Init
  <2>5. file_date \in Days \union {NoFile, Garbage} /\ verdict \in {"none", "approved", "blocked"}
    BY DEF Init
  <2> QED
    BY <2>1, <2>2, <2>3, <2>4, <2>5 DEF TypeOK
<1>3. Threshold
  BY RiskAssumption DEF Init, Threshold
<1>4. DatesPast
  BY DEF Init, DatesPast, Days, NoFile
<1>5. Sound
  <2>1. file_date # today
    BY DEF Init, NoFile
  <2> QED
    BY <2>1 DEF Init, Sound, InMemory, OnDisk, Answered, Quietly
<1> QED
  BY <1>2, <1>3, <1>4, <1>5 DEF IInv

-----------------------------------------------------------------------------
(* The type invariant is inductive by itself.                              *)
LEMMA FaultType ==
  ASSUME TypeOK, NoFault \/ Fault
  PROVE  faulty' \in BOOLEAN /\ faults' \in 0..MaxFaults
<1>1. faulty' \in BOOLEAN
  BY DEF TypeOK, NoFault, Fault
<1>2. faults' \in 0..MaxFaults
  BY RiskAssumption DEF TypeOK, NoFault, Fault
<1> QED
  BY <1>1, <1>2

LEMMA PersistType ==
  ASSUME TypeOK, NEW p \in Int, NEW k \in BOOLEAN, PersistOrFail(p, k)
  PROVE  /\ file_date' \in Days \union {NoFile, Garbage}
         /\ file_pnl' \in Int /\ file_killed' \in BOOLEAN
         /\ faulty' \in BOOLEAN /\ faults' \in 0..MaxFaults
<1>1. CASE Persist(today, p, k) /\ NoFault
  BY <1>1, FaultType DEF TypeOK, Persist
<1>2. CASE PersistFails /\ Fault
  BY <1>2, FaultType DEF TypeOK, PersistFails
<1> QED
  BY <1>1, <1>2 DEF PersistOrFail

LEMMA RolledType == TypeOK => Rolled.pnl \in Int /\ Rolled.killed \in BOOLEAN
<1>1. TypeOK => Rolled.pnl \in Int
  BY DEF TypeOK, Rolled
<1>2. TypeOK => Rolled.killed \in BOOLEAN
  BY DEF TypeOK, Rolled
<1> QED
  BY <1>1, <1>2

LEMMA LoadedType == TypeOK => Loaded.pnl \in Int /\ Loaded.killed \in BOOLEAN
<1>1. TypeOK => Loaded.pnl \in Int
  BY DEF TypeOK, Loaded
<1>2. TypeOK => Loaded.killed \in BOOLEAN
  BY DEF TypeOK, Loaded
<1> QED
  BY <1>1, <1>2

LEMMA RealizeType ==
  ASSUME TypeOK, NEW a \in Amounts, Realize(a)
  PROVE  real' \in Int /\ tripped' \in BOOLEAN
<1>1. real' \in Int
  BY RiskAssumption DEF TypeOK, Realize
<1>2. tripped' \in BOOLEAN
  BY DEF TypeOK, Realize
<1> QED
  BY <1>1, <1>2

LEMMA TypeStep == TypeOK /\ [Next]_vars => TypeOK'
<1> SUFFICES ASSUME TypeOK, [Next]_vars PROVE TypeOK'
  OBVIOUS
<1>0. 0 \in Days /\ (today < MaxDay => today + 1 \in Days)
  BY RiskAssumption DEF TypeOK, Days
<1>1. ASSUME Check PROVE TypeOK'
  <2>1. pnl' \in Int /\ killed' \in BOOLEAN /\ state_date' \in Days
    BY <1>1, RolledType DEF Check, TypeOK
  <2>2. verdict' \in {"none", "approved", "blocked"}
    BY <1>1 DEF Check, Answer
  <2>3. /\ file_date' \in Days \union {NoFile, Garbage}
        /\ file_pnl' \in Int /\ file_killed' \in BOOLEAN
        /\ faulty' \in BOOLEAN /\ faults' \in 0..MaxFaults
    <3>1. CASE state_date = today
      BY <1>1, <3>1, FaultType DEF Check, file, TypeOK
    <3>2. CASE state_date # today
      <4>1. PersistOrFail(0, FALSE)
        BY <1>1, <3>2 DEF Check
      <4>2. 0 \in Int /\ FALSE \in BOOLEAN
        OBVIOUS
      <4> QED
        BY <4>1, <4>2, PersistType
    <3> QED
      BY <3>1, <3>2
  <2> QED
    BY <1>1, <2>1, <2>2, <2>3 DEF Check, truth, TypeOK
<1>2. ASSUME NEW a \in Amounts, Account(a)
      PROVE  /\ pnl' \in Int /\ killed' \in BOOLEAN /\ state_date' \in Days
             /\ verdict' \in {"none", "approved", "blocked"}
  <2>1. pnl' \in Int
    BY <1>2, RolledType, RiskAssumption DEF Account
  <2>2. killed' \in BOOLEAN
    BY <1>2, RolledType DEF Account, Kills
  <2> QED
    BY <1>2, <2>1, <2>2 DEF Account, TypeOK
<1>3. ASSUME NEW a \in Amounts, RecordPnl(a) PROVE TypeOK'
  <2>1. real' \in Int /\ tripped' \in BOOLEAN
    BY <1>3, RealizeType DEF RecordPnl
  <2> QED
    BY <1>2, <1>3, <2>1, PersistType DEF RecordPnl, TypeOK
<1>4. ASSUME NEW a \in Amounts, RecordPnlAtMidnight(a) PROVE TypeOK'
  <2>1. /\ file_date' \in Days \union {NoFile, Garbage}
        /\ file_pnl' \in Int /\ file_killed' \in BOOLEAN
    BY <1>0, <1>2, <1>4 DEF RecordPnlAtMidnight, Persist
  <2>2. today' \in Days /\ real' \in Int
    BY <1>0, <1>4 DEF RecordPnlAtMidnight
  <2>4. tripped' \in BOOLEAN /\ up' \in BOOLEAN
    BY <1>4 DEF RecordPnlAtMidnight, TypeOK
  <2>3. faulty' \in BOOLEAN /\ faults' \in 0..MaxFaults
    BY <1>4, FaultType DEF RecordPnlAtMidnight
  <2> QED
    BY <1>2, <1>4, <2>1, <2>2, <2>3, <2>4 DEF RecordPnlAtMidnight, TypeOK
<1>5. ASSUME NEW a \in Amounts, CrashInWrite(a) PROVE TypeOK'
  <2>1. real' \in Int /\ tripped' \in BOOLEAN
    BY <1>5, RealizeType DEF CrashInWrite
  <2>2. pnl' \in Int /\ state_date' \in Days
    BY <1>0, <1>5 DEF CrashInWrite, Forgotten
  <2>4. killed' \in BOOLEAN
    BY <1>5 DEF CrashInWrite, Forgotten
  <2>3. /\ file_date' \in Days \union {NoFile, Garbage}
        /\ file_pnl' \in Int /\ file_killed' \in BOOLEAN
    BY <1>5 DEF CrashInWrite, PersistFails, TypeOK
  <2> QED
    BY <1>5, <2>1, <2>2, <2>3, <2>4, FaultType DEF CrashInWrite, TypeOK
<1>6. ASSUME Midnight PROVE TypeOK'
  <2>1. today' \in Days /\ real' \in Int
    BY <1>0, <1>6 DEF Midnight
  <2>3. tripped' \in BOOLEAN /\ faulty' \in BOOLEAN
    BY <1>6 DEF Midnight
  <2>2. verdict' \in {"none", "approved", "blocked"}
    BY <1>6 DEF Midnight
  <2> QED
    BY <1>6, <2>1, <2>2, <2>3 DEF Midnight, memory, file, TypeOK
<1>7. ASSUME Crash PROVE TypeOK'
  <2>1. pnl' \in Int /\ state_date' \in Days
    BY <1>0, <1>7 DEF Crash, Forgotten
  <2>3. killed' \in BOOLEAN /\ up' \in BOOLEAN
    BY <1>7 DEF Crash, Forgotten
  <2>2. verdict' \in {"none", "approved", "blocked"}
    BY <1>7 DEF Crash
  <2> QED
    BY <1>7, <2>1, <2>2, <2>3 DEF Crash, file, truth, TypeOK
<1>8. ASSUME Restore
      PROVE  /\ up' \in BOOLEAN /\ pnl' \in Int /\ killed' \in BOOLEAN
             /\ verdict' \in {"none", "approved", "blocked"}
  BY <1>8, LoadedType, RiskAssumption DEF Restore, Kills
<1>9. ASSUME Cleared
      PROVE  /\ file_date' \in Days \union {NoFile, Garbage}
             /\ file_pnl' \in Int /\ file_killed' \in BOOLEAN
  BY <1>9 DEF Cleared, TypeOK
<1>10. ASSUME Start PROVE TypeOK'
  <2>1. /\ file_date' \in Days \union {NoFile, Garbage}
        /\ file_pnl' \in Int /\ file_killed' \in BOOLEAN
        /\ faulty' \in BOOLEAN /\ faults' \in 0..MaxFaults
    BY <1>8, <1>9, <1>10, PersistType, FaultType DEF Start
  <2> QED
    BY <1>8, <1>10, <2>1 DEF Start, truth, TypeOK
<1>11. ASSUME StartAtMidnight PROVE TypeOK'
  <2>1. /\ file_date' \in Days \union {NoFile, Garbage}
        /\ file_pnl' \in Int /\ file_killed' \in BOOLEAN
    BY <1>0, <1>8, <1>9, <1>11 DEF StartAtMidnight, Persist
  <2>2. today' \in Days /\ state_date' \in Days /\ real' \in Int
    BY <1>0, <1>11 DEF StartAtMidnight
  <2>4. tripped' \in BOOLEAN
    BY <1>11 DEF StartAtMidnight
  <2>3. faulty' \in BOOLEAN /\ faults' \in 0..MaxFaults
    BY <1>11, FaultType DEF StartAtMidnight
  <2> QED
    BY <1>8, <1>11, <2>1, <2>2, <2>3, <2>4 DEF StartAtMidnight, TypeOK
<1>12. ASSUME UNCHANGED vars PROVE TypeOK'
  BY <1>12 DEF vars, memory, file, truth, TypeOK
<1> QED
  BY <1>1, <1>3, <1>4, <1>5, <1>6, <1>7, <1>10, <1>11, <1>12 DEF Next

-----------------------------------------------------------------------------
(* On a day without faults, rolling yields the true P&L and switch.        *)
LEMMA RolledTrue ==
  ASSUME IInv, up, ~faulty
  PROVE  Rolled.pnl = real /\ Rolled.killed = tripped
BY DEF IInv, TypeOK, Sound, InMemory, Quietly, Rolled

(* And so does loading the state file.                                     *)
LEMMA LoadedTrue ==
  ASSUME IInv, ~faulty
  PROVE  Loaded.pnl = real /\ Loaded.killed = tripped
BY DEF IInv, TypeOK, Sound, OnDisk, Quietly, Loaded

(* A faulty day promises nothing.                                          *)
LEMMA FaultySound == faulty' = TRUE => Sound'
BY DEF Sound

LEMMA NextInv == IInv /\ [Next]_vars => IInv'
<1> SUFFICES ASSUME IInv, [Next]_vars PROVE DatesPast' /\ Threshold' /\ Sound'
  BY TypeStep DEF IInv
<1>0. TypeOK /\ TypeOK' /\ DatesPast /\ Threshold /\ Sound
  BY TypeStep DEF IInv
<1> USE RiskAssumption DEF Days, NoFile, Garbage
<1>1. ASSUME Check PROVE DatesPast' /\ Threshold' /\ Sound'
  <2>1. DatesPast' /\ Threshold'
    BY <1>0, <1>1 DEF Check, PersistOrFail, Persist, PersistFails, DatesPast, Threshold,
                      TypeOK, file, truth
  <2>2. ASSUME ~faulty' PROVE Sound'
    <3>1. ~faulty /\ NoFault
      BY <1>0, <1>1, <2>2 DEF Check, PersistOrFail, NoFault, Fault, TypeOK
    <3>2. pnl' = real /\ killed' = tripped /\ state_date' = today' /\ UNCHANGED <<real, tripped, up, today>>
      BY <1>1, <3>1, RolledTrue DEF Check, truth
    <3>3. Answered'
      BY <1>0, <1>1, <3>1, <3>2, RolledTrue DEF Check, Answer, Answered, TypeOK
    <3>4. OnDisk'
      <4>1. CASE state_date = today
        BY <1>0, <1>1, <3>1, <3>2, <4>1 DEF Check, file, Sound, OnDisk, Quietly
      <4>2. CASE state_date # today
        <5>1. Persist(today, 0, FALSE)
          BY <1>0, <1>1, <2>2, <4>2 DEF Check, PersistOrFail, Fault
        <5>2. real = 0 /\ tripped = FALSE
          BY <1>0, <1>1, <3>1, <4>2 DEF Check, Sound, InMemory, Quietly, TypeOK
        <5> QED
          BY <3>2, <5>1, <5>2 DEF Persist, OnDisk
      <4> QED
        BY <4>1, <4>2
    <3> QED
      BY <3>2, <3>3, <3>4 DEF Sound, InMemory
  <2> QED
    BY <2>1, <2>2 DEF Sound
<1>2. ASSUME NEW a \in Amounts, RecordPnl(a) PROVE DatesPast' /\ Threshold' /\ Sound'
  <2>1. DatesPast'
    BY <1>0, <1>2 DEF RecordPnl, Account, PersistOrFail, Persist, PersistFails, DatesPast, TypeOK
  <2>2. Threshold'
    BY <1>2 DEF RecordPnl, Realize, Threshold
  <2>3. ASSUME ~faulty' PROVE Sound'
    <3>1. ~faulty /\ Persist(today, pnl', killed')
      BY <1>0, <1>2, <2>3 DEF RecordPnl, PersistOrFail, NoFault, Fault, TypeOK
    <3>2. pnl' = real' /\ state_date' = today' /\ verdict' = "none" /\ today' = today
      BY <1>2, <3>1, RolledTrue DEF RecordPnl, Account, Realize
    <3>3. killed' = tripped'
      BY <1>0, <1>2, <3>1, <3>2, RolledTrue DEF RecordPnl, Account, Realize, Kills, TypeOK
    <3> QED
      BY <3>1, <3>2, <3>3 DEF Sound, InMemory, OnDisk, Answered, Persist
  <2> QED
    BY <2>1, <2>2, <2>3 DEF Sound
<1>3. ASSUME NEW a \in Amounts, RecordPnlAtMidnight(a) PROVE DatesPast' /\ Threshold' /\ Sound'
  BY <1>0, <1>3, FaultySound
     DEF RecordPnlAtMidnight, Account, Persist, Fault, DatesPast, Threshold, TypeOK
<1>4. ASSUME NEW a \in Amounts, CrashInWrite(a) PROVE DatesPast' /\ Threshold' /\ Sound'
  <2>1. Threshold' /\ Sound'
    BY <1>4, FaultySound DEF CrashInWrite, Realize, Fault, Threshold
  <2>2. DatesPast'
    BY <1>0, <1>4 DEF CrashInWrite, PersistFails, Forgotten, DatesPast, TypeOK
  <2> QED
    BY <2>1, <2>2
<1>5. ASSUME Midnight PROVE DatesPast' /\ Threshold' /\ Sound'
  <2>1. DatesPast' /\ Threshold'
    BY <1>0, <1>5 DEF Midnight, memory, file, DatesPast, Threshold, TypeOK
  <2>2. state_date' # today' /\ file_date' # today' /\ Quietly' /\ verdict' = "none"
    BY <1>0, <1>5 DEF Midnight, memory, file, DatesPast, Quietly, TypeOK
  <2> QED
    BY <2>1, <2>2 DEF Sound, InMemory, OnDisk, Answered
<1>6. ASSUME Crash PROVE DatesPast' /\ Threshold' /\ Sound'
  <2>1. DatesPast' /\ Threshold'
    BY <1>0, <1>6 DEF Crash, Forgotten, file, truth, DatesPast, Threshold, TypeOK
  <2>2. Sound'
    BY <1>0, <1>6 DEF Crash, file, truth, Sound, InMemory, OnDisk, Answered, Quietly
  <2> QED
    BY <2>1, <2>2
<1>7. ASSUME Start PROVE DatesPast' /\ Threshold' /\ Sound'
  <2>1. Threshold'
    BY <1>0, <1>7 DEF Start, truth, Threshold
  <2>2. DatesPast'
    BY <1>0, <1>7 DEF Start, PersistOrFail, Persist, PersistFails, Cleared, DatesPast, TypeOK
  <2>3. ASSUME ~faulty' PROVE Sound'
    <3>1. ~faulty
      BY <1>0, <1>7, <2>3 DEF Start, PersistOrFail, NoFault, Fault, TypeOK
    <3>2. Loaded.pnl = real /\ Loaded.killed = tripped
      BY <3>1, LoadedTrue
    <3>3. pnl' = real' /\ killed' = tripped' /\ UNCHANGED <<real, tripped, today>>
      BY <1>0, <1>7, <3>2 DEF Start, Restore, Kills, truth, Threshold, TypeOK
    <3>4. Cleared
      BY <1>7, <3>2, <3>3 DEF Start
    <3>5. OnDisk'
      BY <1>0, <3>1, <3>3, <3>4 DEF Cleared, Sound, OnDisk, Quietly, TypeOK
    <3> QED
      BY <1>7, <3>3, <3>5 DEF Start, Restore, Sound, InMemory, Answered
  <2> QED
    BY <2>1, <2>2, <2>3 DEF Sound
<1>8. ASSUME StartAtMidnight PROVE DatesPast' /\ Threshold' /\ Sound'
  <2>1. Threshold' /\ Sound'
    BY <1>8, FaultySound DEF StartAtMidnight, Fault, Threshold
  <2>2. DatesPast'
    BY <1>0, <1>8 DEF StartAtMidnight, Persist, Cleared, DatesPast, TypeOK
  <2> QED
    BY <2>1, <2>2
<1>9. ASSUME UNCHANGED vars PROVE DatesPast' /\ Threshold' /\ Sound'
  BY <1>0, <1>9 DEF vars, memory, file, truth, DatesPast, Threshold, Sound, InMemory, OnDisk,
                    Answered, Quietly
<1> QED
  BY <1>1, <1>2, <1>3, <1>4, <1>5, <1>6, <1>7, <1>8, <1>9 DEF Next

-----------------------------------------------------------------------------
(* The invariant holds in every reachable state.                           *)
THEOREM Invariance == Spec => []IInv
BY InitInv, NextInv, PTL DEF Spec

(* Type correctness.                                                       *)
THEOREM TypeCorrect == Spec => []TypeOK
<1>1. IInv => TypeOK
  BY DEF IInv
<1> QED
  BY <1>1, Invariance, PTL

(* No check is approved on a day whose losses reached the limit, whatever  *)
(* gains and restarts follow, unless a fault concerns that day.            *)
THEOREM TripHolds == Spec => []NoEntryWhileTripped
<1>1. IInv => NoEntryWhileTripped
  BY DEF IInv, TypeOK, Sound, Answered, NoEntryWhileTripped
<1> QED
  BY <1>1, Invariance, PTL

(* No check is blocked by the losses of another day.                       *)
THEOREM TripEnds == Spec => []BlockedByTodayOnly
<1>1. IInv => BlockedByTodayOnly
  BY DEF IInv, TypeOK, Sound, Answered, BlockedByTodayOnly
<1> QED
  BY <1>1, Invariance, PTL

(* The engine's daily P&L is what the day has realized.                    *)
THEOREM PnlIsExact == Spec => []PnlExact
<1>1. IInv => PnlExact
  BY DEF IInv, Sound, InMemory, PnlExact
<1> QED
  BY <1>1, Invariance, PTL
=============================================================================
