--------------------------- MODULE ApprovalsProofs ---------------------------
(***************************************************************************)
(* Theorems about Approvals: for any candidates, any number of handlers,   *)
(* any cap, TTL and retention, one order per proposal, none for a refused  *)
(* one, none sent after the kill-switch trips, and no decision taken back. *)
(***************************************************************************)
EXTENDS Approvals, TLAPS

Busy(h) == at[h] # "idle"

(* A candidate that has not been started, or was refused, has no order;    *)
(* one that is executed was approved or direct, and has no order yet; and  *)
(* no two handlers execute the same one.                                   *)
Untouched ==
  \A p \in Proposals :
    status[p] \in {"none", "pending", "rejected", "expired"} => placed[p] = 0

Fresh ==
  \A h \in Handlers :
    Busy(h) => /\ status[on[h]] \in {"approved", "pruned", "direct"}
               /\ placed[on[h]] = 0

Alone ==
  \A h, g \in Handlers : Busy(h) /\ Busy(g) /\ on[h] = on[g] => h = g

AtMostOne == \A p \in Proposals : placed[p] <= 1

IInv == TypeOK /\ Untouched /\ Fresh /\ Alone /\ AtMostOne

(* What pruning can do to a status.                                        *)
LEMMA PrunedStatus ==
  ASSUME TypeOK
  PROVE  /\ Pruned \in [Proposals -> Status]
         /\ \A p \in Proposals :
              \/ Pruned[p] = status[p]
              \/ /\ Pruned[p] = "pruned"
                 /\ status[p] \in {"approved", "rejected", "executed", "expired"}
BY DEF TypeOK, Pruned, Stale, Status

(* Ageing stays within Ages.                                               *)
LEMMA OlderAge ==
  ASSUME NEW t \in Ages \union {NoTime}
  PROVE  /\ Older(t) \in Ages \union {NoTime}
         /\ t \in Ages => Older(t) \in Ages
BY ApprovalsAssumption DEF Older, Ages, NoTime

LEMMA InitInv == Init => IInv
<1> SUFFICES ASSUME Init PROVE IInv
  OBVIOUS
<1>0. 0 \in Ages /\ 0 \in 0..MaxTrips
  BY ApprovalsAssumption DEF Ages
<1>1. TypeOK
  <2>1. store \in [Proposals -> Status] \X [Proposals -> Ages]
                   \X [Proposals -> Ages \union {NoTime}]
    BY <1>0 DEF Init, Status, store
  <2>2. at \in [Handlers -> {"idle", "preparing", "placing"}] /\ on \in [Handlers -> Proposals]
    BY DEF Init
  <2>3. placed \in [Proposals -> Nat] /\ trips \in 0..MaxTrips
    BY <1>0 DEF Init
  <2> QED
    BY <2>1, <2>2, <2>3 DEF Init, TypeOK, store
<1>2. Untouched /\ Fresh /\ Alone /\ AtMostOne
  BY DEF Init, Untouched, Fresh, Alone, AtMostOne, Busy
<1> QED
  BY <1>1, <1>2 DEF IInv

-----------------------------------------------------------------------------
(* The actions fall into four groups by what they do to a handler.         *)
Quiet == UNCHANGED <<at, on, placed>>

(* Steps of the stores and of the rest of the process.                     *)
LEMMA QuietStep ==
  ASSUME IInv, Quiet, TypeOK',
         \A p \in Proposals :
           \/ status'[p] = status[p]
           \/ status'[p] = "pruned"
           \/ status[p] \in {"none", "pending"} /\ status'[p] \in {"pending", "rejected", "expired"}
  PROVE  IInv'
<1>1. Untouched'
  BY DEF IInv, TypeOK, Quiet, Untouched, Status
<1>2. Fresh'
  BY DEF IInv, TypeOK, Quiet, Fresh, Busy
<1>3. Alone' /\ AtMostOne'
  BY DEF IInv, Quiet, Alone, AtMostOne, Busy
<1> QED
  BY <1>1, <1>2, <1>3 DEF IInv

(* A handler starts on a candidate nobody executes: its status was "none"  *)
(* or "pending".                                                           *)
LEMMA StartStep ==
  ASSUME IInv, TypeOK', NEW h \in Handlers, NEW p \in Proposals, ~Busy(h),
         Start(h, p), placed' = placed, status[p] \in {"none", "pending"},
         NEW s \in {"approved", "direct"}, status' = [status EXCEPT ![p] = s]
  PROVE  IInv'
<1>1. placed[p] = 0 /\ status'[p] = s
  BY DEF IInv, Untouched, TypeOK
<1>2. \A g \in Handlers : g # h => at'[g] = at[g] /\ on'[g] = on[g]
  BY DEF IInv, TypeOK, Start
<1>3. \A g \in Handlers : Busy(g) => on[g] \in Proposals /\ on[g] # p
  BY DEF IInv, TypeOK, Fresh
<1>4. on'[h] = p
  BY DEF IInv, TypeOK, Start
<1>5. Untouched'
  BY <1>1 DEF IInv, TypeOK, Untouched
<1>6. Fresh'
  BY <1>1, <1>2, <1>3, <1>4 DEF IInv, TypeOK, Fresh, Busy
<1>7. Alone'
  BY <1>2, <1>3, <1>4 DEF IInv, Alone, Busy
<1> QED
  BY <1>5, <1>6, <1>7 DEF IInv, AtMostOne

(* A handler sends its placement.                                          *)
LEMMA SendStep ==
  ASSUME IInv, TypeOK', NEW h \in Handlers, Busy(h),
         at' = [at EXCEPT ![h] = "placing"], UNCHANGED <<status, on, placed>>
  PROVE  IInv'
<1>1. \A g \in Handlers : Busy(g)' => Busy(g)
  BY DEF IInv, TypeOK, Busy
<1> QED
  BY <1>1 DEF IInv, Untouched, Fresh, Alone, AtMostOne

(* One order more for a candidate without one is one order.                *)
LEMMA Counted ==
  ASSUME NEW f \in [Proposals -> Nat], NEW p \in Proposals, f[p] = 0,
         NEW g, g = f \/ g = [f EXCEPT ![p] = @ + 1]
  PROVE  g[p] <= 1
<1>1. CASE g = f
  BY <1>1
<1>2. CASE g = [f EXCEPT ![p] = @ + 1]
  BY <1>2
<1> QED
  BY <1>1, <1>2

(* A handler finishes: at most one order more, for its candidate only.     *)
LEMMA FinishStep ==
  ASSUME IInv, TypeOK', NEW h \in Handlers, Busy(h), Finish(h),
         \/ placed' = placed
         \/ placed' = [placed EXCEPT ![on[h]] = @ + 1],
         \/ status' = status
         \/ \E r \in {"placed", "not placed"} : MarkExecuted(on[h], r)
  PROVE  IInv'
<1>1. on[h] \in Proposals /\ placed[on[h]] = 0 /\ placed \in [Proposals -> Nat]
  BY DEF IInv, TypeOK, Fresh
<1>2. \A p \in Proposals : p # on[h] => placed'[p] = placed[p] /\ status'[p] = status[p]
  BY <1>1 DEF IInv, TypeOK, MarkExecuted
<1>3. placed'[on[h]] <= 1
  BY <1>1, Counted
<1>4. status'[on[h]] \in {"approved", "pruned", "direct", "executed"}
  BY <1>1 DEF IInv, TypeOK, Fresh, MarkExecuted
<1>5. \A g \in Handlers : Busy(g)' => Busy(g) /\ on'[g] = on[g] /\ on[g] # on[h]
  BY DEF IInv, TypeOK, Alone, Finish, Busy
<1>6. Untouched'
  <2> SUFFICES ASSUME NEW p \in Proposals,
                      status'[p] \in {"none", "pending", "rejected", "expired"}
               PROVE  placed'[p] = 0
    BY DEF Untouched
  <2>1. p # on[h]
    BY <1>4
  <2> QED
    BY <2>1, <1>2 DEF IInv, Untouched
<1>7. Fresh'
  <2> SUFFICES ASSUME NEW g \in Handlers, Busy(g)'
               PROVE  /\ status'[on'[g]] \in {"approved", "pruned", "direct"}
                      /\ placed'[on'[g]] = 0
    BY DEF Fresh
  <2>1. Busy(g) /\ on'[g] = on[g] /\ on[g] # on[h] /\ on[g] \in Proposals
    BY <1>5 DEF IInv, TypeOK
  <2> QED
    BY <2>1, <1>2 DEF IInv, Fresh
<1>8. Alone'
  BY <1>5 DEF IInv, Alone
<1>9. AtMostOne'
  <2> SUFFICES ASSUME NEW p \in Proposals PROVE placed'[p] <= 1
    BY DEF AtMostOne
  <2>1. CASE p = on[h]
    BY <1>3, <2>1
  <2>2. CASE p # on[h]
    BY <1>2, <2>2 DEF IInv, AtMostOne
  <2> QED
    BY <2>1, <2>2
<1> QED
  BY <1>6, <1>7, <1>8, <1>9 DEF IInv

-----------------------------------------------------------------------------
(* The type invariant is inductive by itself.                              *)
LEMMA TypeStep == TypeOK /\ [Next]_vars => TypeOK'
<1> SUFFICES ASSUME TypeOK, [Next]_vars PROVE TypeOK'
  OBVIOUS
<1> USE DEF TypeOK, store, handlers, risk
<1>1. ASSUME NEW p \in Proposals, Add(p) PROVE TypeOK'
  <2>1. status' \in [Proposals -> Status]
    BY <1>1, PrunedStatus DEF Add, Status
  <2>2. made' \in [Proposals -> Ages]
    BY <1>1, ApprovalsAssumption DEF Add, Ages
  <2> QED
    BY <1>1, <2>1, <2>2 DEF Add
<1>2. ASSUME NEW p \in Proposals, Fill(p) \/ EndUnfilled(p) PROVE TypeOK'
  BY <1>2 DEF Fill, EndUnfilled
<1>3. ASSUME NEW p \in Proposals, Exit(p) PROVE TypeOK'
  <2>1. trips' \in 0..MaxTrips
    BY <1>3, ApprovalsAssumption DEF Exit
  <2> QED
    BY <1>3, <2>1 DEF Exit
<1>4. ASSUME ListPending PROVE TypeOK'
  <2>1. status' \in [Proposals -> Status]
    BY <1>4, PrunedStatus DEF ListPending, Status
  <2> QED
    BY <1>4, <2>1 DEF ListPending
<1>5. ASSUME NEW h \in Handlers, NEW p \in Proposals, Decide(h, p) PROVE TypeOK'
  <2>1. 0 \in Ages
    BY ApprovalsAssumption DEF Ages
  <2>2. CASE Approve(h, p)
    BY <2>1, <2>2 DEF Approve, Start, Status
  <2>3. CASE ApproveTooLate(h, p)
    BY <2>3 DEF ApproveTooLate, Status
  <2>4. CASE Reject(h, p)
    BY <2>1, <2>4 DEF Reject, Status
  <2>5. CASE ExecuteDirectly(h, p)
    BY <2>5 DEF ExecuteDirectly, Start, Status
  <2> QED
    BY <1>5, <2>2, <2>3, <2>4, <2>5 DEF Decide
<1>6. ASSUME NEW h \in Handlers, Execute(h) PROVE TypeOK'
  <2>1. CASE PrepareRaises(h)
    BY <2>1 DEF PrepareRaises, Finish
  <2>2. CASE NotPlaced(h)
    BY <2>2 DEF NotPlaced, MarkExecuted, Finish, Status
  <2>3. CASE Send(h)
    BY <2>3 DEF Send
  <2>4. CASE PlaceAnswered(h)
    BY <2>4 DEF PlaceAnswered, MarkExecuted, Finish, Answered, Status
  <2>5. CASE PlaceRefused(h)
    BY <2>5 DEF PlaceRefused, MarkExecuted, Finish, Answered, Status
  <2>6. CASE PlaceRaises(h)
    BY <2>6 DEF PlaceRaises, Finish, Answered
  <2> QED
    BY <1>6, <2>1, <2>2, <2>3, <2>4, <2>5, <2>6 DEF Execute
<1>7. ASSUME NewDay PROVE TypeOK'
  BY <1>7 DEF NewDay
<1>8. ASSUME ClockTick PROVE TypeOK'
  <2>1. made' \in [Proposals -> Ages] /\ decided' \in [Proposals -> Ages \union {NoTime}]
    BY <1>8, OlderAge DEF ClockTick
  <2> QED
    BY <1>8, <2>1 DEF ClockTick
<1>9. ASSUME UNCHANGED vars PROVE TypeOK'
  BY <1>9 DEF vars
<1> QED
  BY <1>1, <1>2, <1>3, <1>4, <1>5, <1>6, <1>7, <1>8, <1>9 DEF Next

(* Every step preserves the invariant: one step per action.                *)
LEMMA NextInv == IInv /\ [Next]_vars => IInv'
<1> SUFFICES ASSUME IInv, [Next]_vars PROVE IInv'
  OBVIOUS
<1>0. TypeOK /\ TypeOK'
  BY TypeStep DEF IInv
<1>1. ASSUME NEW p \in Proposals, Add(p) PROVE IInv'
  <2>1. Quiet
    BY <1>1 DEF Add, Quiet, handlers
  <2>2. \A q \in Proposals :
           \/ status'[q] = status[q]
           \/ status'[q] = "pruned"
           \/ status[q] \in {"none", "pending"} /\ status'[q] \in {"pending", "rejected", "expired"}
    BY <1>0, <1>1, PrunedStatus DEF Add
  <2> QED
    BY <1>0, <2>1, <2>2, QuietStep
<1>2. ASSUME NEW p \in Proposals, Fill(p) \/ EndUnfilled(p) \/ Exit(p) PROVE IInv'
  <2>1. Quiet /\ status' = status
    BY <1>2 DEF Fill, EndUnfilled, Exit, Quiet, handlers, store
  <2> QED
    BY <1>0, <2>1, QuietStep
<1>3. ASSUME ListPending PROVE IInv'
  <2>1. Quiet
    BY <1>3 DEF ListPending, Quiet, handlers
  <2>2. \A q \in Proposals :
           \/ status'[q] = status[q]
           \/ status'[q] = "pruned"
           \/ status[q] \in {"none", "pending"} /\ status'[q] \in {"pending", "rejected", "expired"}
    BY <1>0, <1>3, PrunedStatus DEF ListPending
  <2> QED
    BY <1>0, <2>1, <2>2, QuietStep
<1>4. ASSUME NEW h \in Handlers, NEW p \in Proposals, Decide(h, p) PROVE IInv'
  <2>1. CASE Approve(h, p)
    BY <1>0, <2>1, StartStep DEF Approve, Busy
  <2>2. CASE ExecuteDirectly(h, p)
    BY <1>0, <2>2, StartStep DEF ExecuteDirectly, Busy
  <2>3. CASE ApproveTooLate(h, p) \/ Reject(h, p)
    <3>1. Quiet
      BY <2>3 DEF ApproveTooLate, Reject, Quiet, handlers
    <3>2. \A q \in Proposals :
             \/ status'[q] = status[q]
             \/ status[q] = "pending" /\ status'[q] \in {"rejected", "expired"}
      BY <1>0, <2>3 DEF ApproveTooLate, Reject, TypeOK
    <3> QED
      BY <1>0, <3>1, <3>2, QuietStep
  <2> QED
    BY <1>4, <2>1, <2>2, <2>3 DEF Decide
<1>5. ASSUME NEW h \in Handlers, Execute(h) PROVE IInv'
  <2>1. Busy(h)
    BY <1>5 DEF Execute, PrepareRaises, NotPlaced, Send, PlaceAnswered, PlaceRefused,
                PlaceRaises, Busy
  <2>2. CASE Send(h)
    BY <1>0, <2>1, <2>2, SendStep DEF Send, store
  <2>3. CASE PrepareRaises(h)
    BY <1>0, <2>1, <2>3, FinishStep DEF PrepareRaises, store
  <2>4. CASE NotPlaced(h)
    BY <1>0, <2>1, <2>4, FinishStep DEF NotPlaced
  <2>5. CASE PlaceAnswered(h)
    BY <1>0, <2>1, <2>5, FinishStep DEF PlaceAnswered
  <2>6. CASE PlaceRefused(h)
    BY <1>0, <2>1, <2>6, FinishStep DEF PlaceRefused
  <2>7. CASE PlaceRaises(h)
    BY <1>0, <2>1, <2>7, FinishStep DEF PlaceRaises, store
  <2> QED
    BY <1>5, <2>2, <2>3, <2>4, <2>5, <2>6, <2>7 DEF Execute
<1>6. ASSUME NewDay \/ ClockTick \/ UNCHANGED vars PROVE IInv'
  <2>1. Quiet /\ status' = status
    BY <1>6 DEF NewDay, ClockTick, Quiet, handlers, store, vars
  <2> QED
    BY <1>0, <2>1, QuietStep
<1> QED
  BY <1>1, <1>2, <1>3, <1>4, <1>5, <1>6 DEF Next

-----------------------------------------------------------------------------
(* The invariant holds in every reachable state.                           *)
THEOREM Invariance == Spec => []IInv
BY InitInv, NextInv, PTL DEF Spec

(* Type correctness.                                                       *)
THEOREM TypeCorrect == Spec => []TypeOK
<1>1. IInv => TypeOK
  BY DEF IInv
<1> QED
  BY <1>1, Invariance, PTL

(* At most one order and one handler per proposal, whatever the approvals  *)
(* that arrive.                                                            *)
THEOREM OrderedOnce == Spec => []OneOrderPerProposal
<1>1. IInv => OneOrderPerProposal
  <2> SUFFICES ASSUME IInv, NEW p \in Proposals
               PROVE  /\ placed[p] <= 1
                      /\ \A h \in Executing(p) : placed[p] = 0 /\ Executing(p) = {h}
    BY DEF OneOrderPerProposal
  <2>1. placed[p] <= 1
    BY DEF IInv, AtMostOne
  <2>2. ASSUME NEW h \in Executing(p) PROVE placed[p] = 0
    BY <2>2 DEF Executing, IInv, Fresh, Busy
  <2>3. ASSUME NEW h \in Executing(p), NEW g \in Executing(p) PROVE g = h
    BY <2>3 DEF Executing, IInv, Alone, Busy
  <2> QED
    BY <2>1, <2>2, <2>3
<1> QED
  BY <1>1, Invariance, PTL

(* A rejected or expired proposal has no order and nobody executes it.     *)
THEOREM RefusalsHold == Spec => []RefusalHolds
<1>1. IInv => RefusalHolds
  <2> SUFFICES ASSUME IInv, NEW p \in Proposals, status[p] \in {"rejected", "expired"}
               PROVE  placed[p] = 0 /\ Executing(p) = {}
    BY DEF RefusalHolds
  <2>1. placed[p] = 0
    BY DEF IInv, Untouched
  <2>2. Executing(p) = {}
    BY DEF Executing, IInv, Fresh, Busy
  <2> QED
    BY <2>1, <2>2
<1> QED
  BY <1>1, Invariance, PTL

(* After a trip, only placements sent before it are in flight.             *)
THEOREM TripStops == Spec => []TripStopsPlacement
<1> DEFINE Inv == TypeOK /\ TripStopsPlacement
<1>1. Init => Inv
  BY InitInv DEF Init, IInv, TripStopsPlacement
<1>2. Inv /\ [Next]_vars => Inv'
  <2> SUFFICES ASSUME TypeOK, TripStopsPlacement, [Next]_vars PROVE TripStopsPlacement'
    BY TypeStep
  <2> USE DEF TripStopsPlacement, handlers, risk
  <2>1. ASSUME NEW p \in Proposals, Add(p) \/ Fill(p) \/ EndUnfilled(p)
        PROVE  TripStopsPlacement'
    BY <2>1 DEF Add, Fill, EndUnfilled
  <2>2. ASSUME NEW p \in Proposals, Exit(p) PROVE TripStopsPlacement'
    BY <2>2 DEF Exit
  <2>3. ASSUME NEW h \in Handlers, NEW p \in Proposals, Decide(h, p)
        PROVE  TripStopsPlacement'
    BY <2>3 DEF Decide, Approve, ApproveTooLate, Reject, ExecuteDirectly, Start, TypeOK
  <2>4. ASSUME NEW h \in Handlers, Send(h) PROVE TripStopsPlacement'
    BY <2>4 DEF Send, RiskApproves
  <2>5. ASSUME NEW h \in Handlers, PrepareRaises(h) \/ NotPlaced(h) PROVE TripStopsPlacement'
    BY <2>5 DEF PrepareRaises, NotPlaced, Finish, TypeOK
  <2>6. ASSUME NEW h \in Handlers, PlaceAnswered(h) \/ PlaceRefused(h) \/ PlaceRaises(h)
        PROVE  TripStopsPlacement'
    <3>1. /\ killed' = killed /\ early' = early \ {h}
          /\ at' = [at EXCEPT ![h] = "idle"]
      BY <2>6 DEF PlaceAnswered, PlaceRefused, PlaceRaises, Finish, Answered
    <3> QED
      BY <3>1 DEF TypeOK
  <2>7. ASSUME ListPending \/ NewDay \/ ClockTick \/ UNCHANGED vars PROVE TripStopsPlacement'
    BY <2>7 DEF ListPending, NewDay, ClockTick, vars
  <2> QED
    BY <2>1, <2>2, <2>3, <2>4, <2>5, <2>6, <2>7 DEF Next, Execute
<1> QED
  BY <1>1, <1>2, PTL DEF Spec

(* No step takes a decision back.                                          *)
THEOREM DecisionsAreFinal == Spec => DecisionsFinal
<1> DEFINE Onward == \A p \in Proposals :
                       \/ status'[p] \in {status[p], "pruned"}
                       \/ <<status[p], status'[p]>> \in Forward
<1>1. IInv /\ [Next]_vars => [Onward]_status
  <2> SUFFICES ASSUME IInv, Next PROVE Onward \/ status' = status
    BY DEF vars, store
  <2>0. TypeOK /\ Fresh
    BY DEF IInv
  <2>1. ASSUME NEW p \in Proposals, Add(p) PROVE Onward
    BY <2>0, <2>1, PrunedStatus DEF Add, Forward
  <2>2. ASSUME NEW p \in Proposals, Fill(p) \/ EndUnfilled(p) \/ Exit(p) PROVE status' = status
    BY <2>2 DEF Fill, EndUnfilled, Exit, store
  <2>3. ASSUME ListPending PROVE Onward
    BY <2>0, <2>3, PrunedStatus DEF ListPending, Forward
  <2>4. ASSUME NEW h \in Handlers, NEW p \in Proposals, Decide(h, p) PROVE Onward
    BY <2>0, <2>4 DEF Decide, Approve, ApproveTooLate, Reject, ExecuteDirectly, Forward, TypeOK
  <2>5. ASSUME NEW h \in Handlers, NEW r, MarkExecuted(on[h], r), Busy(h) PROVE Onward
    BY <2>0, <2>5 DEF MarkExecuted, Fresh, Forward, TypeOK
  <2>6. ASSUME NEW h \in Handlers, Execute(h) PROVE Onward \/ status' = status
    <3>1. CASE NotPlaced(h) \/ PlaceAnswered(h) \/ PlaceRefused(h)
      BY <2>5, <3>1 DEF NotPlaced, PlaceAnswered, PlaceRefused, Busy
    <3>2. CASE PrepareRaises(h) \/ Send(h) \/ PlaceRaises(h)
      BY <3>2 DEF PrepareRaises, Send, PlaceRaises, store
    <3> QED
      BY <2>6, <3>1, <3>2 DEF Execute
  <2>7. ASSUME NewDay \/ ClockTick PROVE status' = status
    BY <2>7 DEF NewDay, ClockTick, store
  <2> QED
    BY <2>1, <2>2, <2>3, <2>4, <2>6, <2>7 DEF Next
<1> QED
  BY <1>1, Invariance, PTL DEF Spec, DecisionsFinal
=============================================================================
