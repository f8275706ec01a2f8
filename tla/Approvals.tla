----------------------------- MODULE Approvals -----------------------------
(***************************************************************************)
(* From a candidate to a placed order: live/proposals.py (ProposalStore),  *)
(* the two front ends that decide proposals (live/approval_server.py and   *)
(* live/notifier.py), executor/executor.py, and the gate of risk/engine.py *)
(* that is evaluated again before placement.                               *)
(*                                                                         *)
(* A handler is a coroutine serving one decision: the Telegram poller, one *)
(* HTTP request, one pipeline of FlowWatcher.  Its network calls are the   *)
(* only points where another coroutine runs; the locks of the stores are   *)
(* never held over an await, so a store operation is atomic, and so is     *)
(* everything from the placement's response to mark_executed.              *)
(*                                                                         *)
(* What happens to a placed order (OrderLifecycle) and to a position       *)
(* (ExitLoop) is reduced to the events the gate can see.                   *)
(***************************************************************************)
EXTENDS Integers, FiniteSets

CONSTANTS
  Proposals,   \* candidates that reach the end of the pipeline
  Handlers,    \* coroutines that may execute a candidate
  MaxOpen,     \* max_concurrent_positions
  Ttl,         \* TTL_SECONDS, in clock ticks
  Retention,   \* RETENTION_SECONDS, in clock ticks
  MaxTrips     \* bound: kill-switch trips in one behaviour

ASSUME ApprovalsAssumption ==
  /\ MaxOpen \in Nat \ {0}
  /\ Ttl \in Nat \ {0} /\ Retention \in Nat /\ Ttl < Retention
  /\ MaxTrips \in Nat

VARIABLES
  mode,      \* ExecutionMode of the process
  status,    \* Proposal.status; "none" before, "pruned" after the store has it;
             \* "direct" for a candidate executed without a proposal
  made,      \* clock ticks since created_at
  decided,   \* clock ticks since decided_at, NoTime while it is None
  at,        \* where a handler is: which call it awaits
  on,        \* the candidate it executes
  placed,    \* the broker: buy orders accepted for each candidate
  working,   \* candidates with an order followed by the order manager
  open,      \* candidates with a Position in PositionStore
  killed,    \* RiskEngine._kill_switch_active
  trips,     \* kill-switch trips so far
  early,     \* history: handlers whose placement was sent before the trip
  failed     \* history: candidates whose execution raised

store == <<status, made, decided>>
handlers == <<at, on>>
risk == <<killed, trips, early>>
vars == <<mode, store, handlers, placed, working, open, risk, failed>>

NoTime == -1
Ages == 0..(Retention + 1)
Status == {"none", "pending", "approved", "rejected", "executed", "expired",
           "pruned", "direct"}

TypeOK ==
  /\ mode \in {"rh_approval", "autonomous"}
  /\ status \in [Proposals -> Status]
  /\ made \in [Proposals -> Ages]
  /\ decided \in [Proposals -> Ages \union {NoTime}]
  /\ at \in [Handlers -> {"idle", "preparing", "placing"}]
  /\ on \in [Handlers -> Proposals]
  /\ placed \in [Proposals -> Nat]
  /\ working \subseteq Proposals
  /\ open \subseteq Proposals
  /\ killed \in BOOLEAN
  /\ trips \in 0..MaxTrips
  /\ early \subseteq Handlers
  /\ failed \subseteq Proposals

Init ==
  /\ mode \in {"rh_approval", "autonomous"}
  /\ status = [p \in Proposals |-> "none"]
  /\ made = [p \in Proposals |-> 0]
  /\ decided = [p \in Proposals |-> NoTime]
  /\ at = [h \in Handlers |-> "idle"]
  /\ on \in [Handlers -> Proposals] /\ \A h, g \in Handlers : on[h] = on[g]
  /\ placed = [p \in Proposals |-> 0]
  /\ working = {} /\ open = {}
  /\ killed = FALSE /\ trips = 0 /\ early = {}
  /\ failed = {}

-----------------------------------------------------------------------------
(* RiskEngine.check for these candidates: kill-switch, then position cap.  *)
(* The premium and sector gates depend on the candidate alone (the live    *)
(* process never calls record_fill), so a candidate they stop is none of   *)
(* Proposals.                                                              *)
RiskApproves == ~killed /\ Cardinality(open) < MaxOpen

(* _prune, on entries s with creation and decision ages as given.          *)
Stale(p) ==
  /\ status[p] \notin {"none", "pending", "pruned", "direct"}
  /\ (IF decided[p] = NoTime THEN made[p] ELSE decided[p]) > Retention

Pruned == [p \in Proposals |-> IF Stale(p) THEN "pruned" ELSE status[p]]

-----------------------------------------------------------------------------
(* ProposalStore.                                                          *)

(* add, from FlowWatcher._run_pipeline, after its risk_gate.               *)
Add(p) ==
  /\ mode = "rh_approval" /\ status[p] = "none"
  /\ RiskApproves
  /\ status' = [Pruned EXCEPT ![p] = "pending"]
  /\ made' = [made EXCEPT ![p] = 0]
  /\ UNCHANGED <<mode, decided, handlers, placed, working, open, risk, failed>>

(* list_pending, from the dashboard.                                       *)
ListPending ==
  /\ status' = [p \in Proposals |->
                  IF status[p] = "pending" /\ made[p] > Ttl THEN "expired" ELSE Pruned[p]]
  /\ UNCHANGED <<mode, made, decided, handlers, placed, working, open, risk, failed>>

Start(h, p) ==
  /\ at' = [at EXCEPT ![h] = "preparing"]
  /\ on' = [on EXCEPT ![h] = p]

(* Mutation: approve() also answers for a proposal already approved.        *)
ApproveAgain(h, p) ==
  /\ at[h] = "idle"
  /\ status[p] \in {"pending", "approved"} /\ made[p] <= Ttl
  /\ status' = [status EXCEPT ![p] = "approved"]
  /\ decided' = [decided EXCEPT ![p] = 0]
  /\ Start(h, p)
  /\ UNCHANGED <<mode, made, placed, working, open, risk, failed>>

(* approve(), returning the proposal: its caller goes on to execute it.    *)
Approve(h, p) ==
  /\ at[h] = "idle"
  /\ status[p] = "pending" /\ made[p] <= Ttl
  /\ status' = [status EXCEPT ![p] = "approved"]
  /\ decided' = [decided EXCEPT ![p] = 0]
  /\ Start(h, p)
  /\ UNCHANGED <<mode, made, placed, working, open, risk, failed>>

(* approve() past the TTL: expired, and its caller stops.                  *)
ApproveTooLate(h, p) ==
  /\ at[h] = "idle"
  /\ status[p] = "pending" /\ made[p] > Ttl
  /\ status' = [status EXCEPT ![p] = "expired"]
  /\ UNCHANGED <<mode, made, decided, handlers, placed, working, open, risk, failed>>

(* Mutation: reject() does not look at the status.                          *)
RejectAny(h, p) ==
  /\ at[h] = "idle"
  /\ status[p] \in {"pending", "approved"}
  /\ status' = [status EXCEPT ![p] = "rejected"]
  /\ decided' = [decided EXCEPT ![p] = 0]
  /\ UNCHANGED <<mode, made, handlers, placed, working, open, risk, failed>>

(* reject(): whatever the age of the proposal.                             *)
Reject(h, p) ==
  /\ at[h] = "idle"
  /\ status[p] = "pending"
  /\ status' = [status EXCEPT ![p] = "rejected"]
  /\ decided' = [decided EXCEPT ![p] = 0]
  /\ UNCHANGED <<mode, made, handlers, placed, working, open, risk, failed>>

(* Mutation: mark_executed only for a result that was placed.               *)
MarkPlacedOnly(p, result) ==
  status' = [status EXCEPT ![p] =
               IF result = "placed" /\ @ = "approved" THEN "executed" ELSE @]

(* Mutation: the outcome is stored where the status belongs.                *)
MarkOutcome(p, result) ==
  status' = [status EXCEPT ![p] = IF @ \in {"pruned", "direct"} THEN @ ELSE result]

(* mark_executed, if the store still has the proposal, whatever the result.*)
MarkExecuted(p, result) ==
  status' = [status EXCEPT ![p] = IF @ \in {"pruned", "direct"} THEN @ ELSE "executed"]

-----------------------------------------------------------------------------
(* Executor._autonomous, reached through execute_approved (a human has     *)
(* approved) or execute (autonomous mode).                                 *)

(* FlowWatcher in autonomous mode executes a candidate at once; several    *)
(* pipelines run under one gather.                                         *)
ExecuteDirectly(h, p) ==
  /\ mode = "autonomous" /\ status[p] = "none" /\ at[h] = "idle"
  /\ RiskApproves
  /\ status' = [status EXCEPT ![p] = "direct"]
  /\ Start(h, p)
  /\ UNCHANGED <<mode, made, decided, placed, working, open, risk, failed>>

Finish(h) == at' = [at EXCEPT ![h] = "idle"] /\ on' = on

(* The instrument lookup or the review raises: the handler answers with an *)
(* error and the proposal keeps the status "approved".                     *)
PrepareRaises(h) ==
  /\ at[h] = "preparing"
  /\ failed' = failed \union {on[h]}
  /\ Finish(h)
  /\ UNCHANGED <<mode, store, placed, working, open, risk>>

(* The review carries a fatal alert, or the gate no longer approves: the   *)
(* result is not placed, and the proposal is marked executed all the same. *)
NotPlaced(h) ==
  /\ at[h] = "preparing"
  /\ MarkExecuted(on[h], "not placed")
  /\ Finish(h)
  /\ UNCHANGED <<mode, made, decided, placed, working, open, risk, failed>>

(* Mutation: the gate is not evaluated again before placement.              *)
SendUnchecked(h) ==
  /\ at[h] = "preparing"
  /\ at' = [at EXCEPT ![h] = "placing"]
  /\ UNCHANGED <<mode, store, on, placed, working, open, risk, failed>>

(* _check_risk, then place_option_order is sent, with no await between.    *)
Send(h) ==
  /\ at[h] = "preparing"
  /\ RiskApproves
  /\ at' = [at EXCEPT ![h] = "placing"]
  /\ UNCHANGED <<mode, store, on, placed, working, open, risk, failed>>

Answered(h) == early' = early \ {h} /\ UNCHANGED <<killed, trips>>

(* The broker takes the order and its answer has an id: track(), then      *)
(* mark_executed.                                                          *)
PlaceAnswered(h) ==
  /\ at[h] = "placing"
  /\ placed' = [placed EXCEPT ![on[h]] = @ + 1]
  /\ working' = working \union {on[h]}
  /\ MarkExecuted(on[h], "placed")
  /\ Finish(h) /\ Answered(h)
  /\ UNCHANGED <<mode, made, decided, open, failed>>

(* An answer without an id: not placed.                                    *)
PlaceRefused(h) ==
  /\ at[h] = "placing"
  /\ MarkExecuted(on[h], "not placed")
  /\ Finish(h) /\ Answered(h)
  /\ UNCHANGED <<mode, made, decided, placed, working, open, failed>>

(* The call raises; the broker has the order or not.                       *)
PlaceRaises(h) ==
  /\ at[h] = "placing"
  /\ \/ placed' = placed
     \/ placed' = [placed EXCEPT ![on[h]] = @ + 1]
  /\ failed' = failed \union {on[h]}
  /\ Finish(h) /\ Answered(h)
  /\ UNCHANGED <<mode, store, working, open>>

Execute(h) ==
  \/ PrepareRaises(h) \/ NotPlaced(h) \/ Send(h)
  \/ PlaceAnswered(h) \/ PlaceRefused(h) \/ PlaceRaises(h)

-----------------------------------------------------------------------------
(* The rest of the process, as the gate sees it.                           *)

Fill(p) ==
  /\ p \in working
  /\ working' = working \ {p}
  /\ open' = open \union {p}
  /\ UNCHANGED <<mode, store, handlers, placed, risk, failed>>

EndUnfilled(p) ==
  /\ p \in working
  /\ working' = working \ {p}
  /\ UNCHANGED <<mode, store, handlers, placed, open, risk, failed>>

(* ExitLoop closes a position; its loss may trip the kill-switch.          *)
Exit(p) ==
  /\ p \in open
  /\ open' = open \ {p}
  /\ \/ UNCHANGED risk
     \/ /\ ~killed /\ trips < MaxTrips
        /\ killed' = TRUE /\ trips' = trips + 1
        /\ early' = {h \in Handlers : at[h] = "placing"}
  /\ UNCHANGED <<mode, store, handlers, placed, working, failed>>

(* _maybe_roll_day.                                                        *)
NewDay ==
  /\ killed
  /\ killed' = FALSE /\ early' = {}
  /\ UNCHANGED <<mode, store, handlers, placed, working, open, trips, failed>>

Older(t) == IF t = NoTime \/ t > Retention THEN t ELSE t + 1

ClockTick ==
  /\ made' = [p \in Proposals |->
                IF status[p] \in {"none", "pruned", "direct"} THEN made[p] ELSE Older(made[p])]
  /\ decided' = [p \in Proposals |->
                   IF status[p] = "pruned" THEN decided[p] ELSE Older(decided[p])]
  /\ UNCHANGED <<mode, status, handlers, placed, working, open, risk, failed>>

-----------------------------------------------------------------------------
Decide(h, p) ==
  Approve(h, p) \/ ApproveTooLate(h, p) \/ Reject(h, p) \/ ExecuteDirectly(h, p)

Next ==
  \/ \E p \in Proposals : Add(p) \/ Fill(p) \/ EndUnfilled(p) \/ Exit(p)
  \/ ListPending
  \/ \E h \in Handlers, p \in Proposals : Decide(h, p)
  \/ \E h \in Handlers : Execute(h)
  \/ NewDay
  \/ ClockTick

Spec == Init /\ [][Next]_vars

(* A coroutine whose call has returned or raised runs on; humans, the      *)
(* market and the clock promise nothing.                                   *)
FairSpec == Spec /\ \A h \in Handlers : WF_vars(Execute(h))

-----------------------------------------------------------------------------
Executing(p) == {h \in Handlers : at[h] # "idle" /\ on[h] = p}

(* However many approvals of a proposal arrive, from Telegram and from the *)
(* dashboard, while it executes, after it failed or after it was marked,   *)
(* the broker gets at most one order for it and one handler works on it.   *)
(* ("so callers can't double-execute on a repeated approval")              *)
OneOrderPerProposal ==
  \A p \in Proposals :
    /\ placed[p] <= 1
    /\ \A h \in Executing(p) : placed[p] = 0 /\ Executing(p) = {h}

(* A proposal a human rejected, or that expired, never has an order, nor a *)
(* handler about to place one: rejecting loses against an approval already *)
(* given, in every interleaving of the two front ends.                     *)
RefusalHolds ==
  \A p \in Proposals :
    status[p] \in {"rejected", "expired"} => placed[p] = 0 /\ Executing(p) = {}

(* Once the kill-switch has tripped, the only placements still in flight   *)
(* are those sent before the trip: an approval given before the trip does  *)
(* not get through after it (Executor._check_risk).                        *)
TripStopsPlacement ==
  killed => \A h \in Handlers : at[h] = "placing" => h \in early

(* A decision is never taken back: the status only moves forward, and only *)
(* an approved proposal becomes an executed one.                           *)
Forward ==
  {<<"none", "pending">>, <<"none", "direct">>, <<"pending", "approved">>,
   <<"pending", "rejected">>, <<"pending", "expired">>, <<"approved", "executed">>}

DecisionsFinal ==
  [][\A p \in Proposals :
       \/ status'[p] \in {status[p], "pruned"}
       \/ <<status[p], status'[p]>> \in Forward]_status

(* An approval is always answered: the proposal is marked executed or the  *)
(* human sees an error, whether the order was placed or not.               *)
ApprovalAnswered ==
  \A p \in Proposals :
    status[p] = "approved" ~> status[p] # "approved" \/ p \in failed

(* AGENT_LOGIC.md: "Total open positions must be below the cap": what the  *)
(* gate is for, since every position has passed it.                        *)
CapRespected == Cardinality(open) <= MaxOpen
=============================================================================
