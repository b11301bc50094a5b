---------------------------- MODULE LoadExecutor ----------------------------
(***************************************************************************)
(* One run of the load executor (anvil-load executor.rs,                   *)
(* LoadRun::execute_lockable): the driver of its workload, the tasks that  *)
(* run iterations, the observer of the caller's cancel and lock signals,   *)
(* the ticker with the abort rule, and the drain that ends in the report.  *)
(*                                                                         *)
(* Left out: the split of the ledger into warmup and measured window, its  *)
(* counts by outcome, histograms, timeline and progress.  Time is a        *)
(* choice: each deadline is an action.  The abort rule's window is reduced *)
(* to whether a send has ended other than by a cancel: any such send may   *)
(* count as a failure, so the rule may trigger on any tick after that.     *)
(***************************************************************************)
EXTENDS Integers, FiniteSets

CONSTANTS Slot,        \* virtual users, lanes or in-flight slots
          Steps,       \* requests of one iteration (a chain)
          Iterations   \* iterations of a fixed run; bound on those of the others

ASSUME ExecutorAssumption ==
  /\ IsFiniteSet(Slot) /\ Slot # {}
  /\ Steps \in Nat \ {0} /\ Iterations \in Nat \ {0}

None == "none"

VARIABLES
  workload,            \* "closed", "open" or "iterations"
  cancel, lock,        \* the caller's signals
  over,                \* the end of the schedule has passed
  stopToken, halt, hard, \* no new iterations; no further steps; no sends
  reason,              \* the stop reason
  claimed,             \* iterations claimed (arrivals, for an open workload)
  ledger,              \* what the report counts
  failed,              \* a send has ended that may count as a failure
  pc, step,            \* of a task: where it is, its step
  link, ticker,        \* the observer and the ticker
  main,                \* the run itself
  wait, halted,        \* drain: the running deadline, whether halt shortened it
  aborted,             \* tasks abandoned
  report               \* the completion the report states

signals == <<cancel, lock, over>>
tokens == <<stopToken, halt, hard>>
tasks == <<pc, step>>
run == <<main, wait, halted, aborted, report>>
executorVars == <<workload, signals, tokens, reason, claimed, ledger, failed, tasks, link, ticker, run>>

Workload == {"closed", "open", "iterations"}

(* Iterations started, dropped and in flight, sends in flight; how those   *)
(* that ended did is left out.                                             *)
NoCounts == [started |-> 0, dropped |-> 0, iters |-> 0, sends |-> 0]

ExecutorInit ==
  /\ workload \in Workload
  /\ cancel = FALSE /\ lock = FALSE /\ over = FALSE
  /\ stopToken = FALSE /\ halt = FALSE /\ hard = FALSE
  /\ reason = None
  /\ claimed = 0 /\ ledger = NoCounts /\ failed = FALSE
  /\ pc = [s \in Slot |-> IF workload = "open" THEN "off" ELSE "loop"]
  /\ step = [s \in Slot |-> 0]
  /\ link = "wait" /\ ticker = "idle"
  /\ main = "drive" /\ wait = None /\ halted = FALSE /\ aborted = 0 /\ report = None

-----------------------------------------------------------------------------
(* The environment: the user, the vault, the clock. *)

(* A signal after the reason was settled finds nothing left to stop.       *)
Signal ==
  /\ main \notin {"ticker", "reported"}
  /\ \/ ~cancel /\ cancel' = TRUE /\ UNCHANGED lock
     \/ ~lock /\ lock' = TRUE /\ UNCHANGED cancel
  /\ UNCHANGED <<workload, over, tokens, reason, claimed, ledger, failed, tasks, link, ticker, run>>

ScheduleEnds ==
  /\ ~over /\ workload # "iterations"
  /\ over' = TRUE
  /\ UNCHANGED <<workload, cancel, lock, tokens, reason, claimed, ledger, failed, tasks,
                 link, ticker, run>>

ExternalStop == cancel \/ lock
ChainsHalted == halt \/ ExternalStop
AdmissionStopped == stopToken \/ ExternalStop

(* Shared::set_reason: the first reason stands. *)
SetReason(r) == reason' = IF reason = None THEN r ELSE reason

(* Mutant: a signal does not replace the end of the schedule. *)
RecordExternal_FirstWins(r) == SetReason(r)

(* record_external: a cancel or a lock also replaces the schedule's end.   *)
RecordExternal(r) == reason' = IF reason \in {None, "end"} THEN r ELSE reason

-----------------------------------------------------------------------------
(* The observer of the signals: reason, then halt, then stop. *)

LinkWakes ==
  /\ link = "wait"
  /\ \/ cancel /\ RecordExternal("user")
     \/ lock /\ RecordExternal("lock")
  /\ link' = "halt"
  /\ UNCHANGED <<workload, signals, tokens, claimed, ledger, failed, tasks, ticker, run>>

LinkHalts ==
  /\ link = "halt"
  /\ halt' = TRUE
  /\ link' = "stop"
  /\ UNCHANGED <<workload, signals, stopToken, hard, reason, claimed, ledger, failed, tasks, ticker, run>>

LinkStops ==
  /\ link = "stop"
  /\ stopToken' = TRUE
  /\ link' = "done"
  /\ UNCHANGED <<workload, signals, halt, hard, reason, claimed, ledger, failed, tasks, ticker, run>>

LinkStep == LinkWakes \/ LinkHalts \/ LinkStops

(* The ticker: the abort rule is looked at while scheduling goes on.       *)
RuleTriggers ==
  /\ ticker = "idle" /\ ~stopToken /\ failed
  /\ ticker' = "reason"
  /\ UNCHANGED <<workload, signals, tokens, reason, claimed, ledger, failed, tasks, link, run>>

RuleStep ==
  /\ \/ /\ ticker = "reason"
        /\ SetReason("abort")
        /\ ticker' = "halt"
        /\ UNCHANGED <<halt, stopToken>>
     \/ /\ ticker = "halt"
        /\ halt' = TRUE
        /\ ticker' = "stop"
        /\ UNCHANGED <<reason, stopToken>>
     \/ /\ ticker = "stop"
        /\ stopToken' = TRUE
        /\ ticker' = "idle"
        /\ UNCHANGED <<reason, halt>>
  /\ UNCHANGED <<workload, signals, hard, claimed, ledger, failed, tasks, link, run>>

-----------------------------------------------------------------------------
(* The tasks. *)

TaskGoes(s, l) == pc' = [pc EXCEPT ![s] = l]

(* The task of a slot is over; "off" once it was joined as well.           *)
Over(s) == pc[s] \in {"off", "ended"}

MayStart == ~AdmissionStopped /\ (workload = "closed" => ~over)

(* A virtual user or a lane looks whether it may start an iteration.       *)
LoopCheck(s) ==
  /\ pc[s] = "loop"
  /\ TaskGoes(s, IF MayStart THEN "claim" ELSE "ended")
  /\ UNCHANGED <<workload, signals, tokens, reason, claimed, ledger, failed, step,
                 link, ticker, run>>

(* A virtual user the ramp does not need yet, or no more.                  *)
Inactive(s) ==
  /\ pc[s] = "loop" /\ workload = "closed" /\ MayStart
  /\ TaskGoes(s, "pause") \/ TaskGoes(s, "ended")
  /\ UNCHANGED <<workload, signals, tokens, reason, claimed, ledger, failed, step,
                 link, ticker, run>>

(* sleep_or_stop, of the ramp and of the think time.                       *)
Wakes(s) ==
  /\ pc[s] = "pause"
  /\ \/ TaskGoes(s, "loop")
     \/ stopToken /\ TaskGoes(s, "ended")
  /\ UNCHANGED <<workload, signals, tokens, reason, claimed, ledger, failed, step,
                 link, ticker, run>>

(* A lane takes the next iteration, if there is one; then begin_iteration. *)
Claim(s) ==
  /\ pc[s] = "claim"
  /\ IF claimed < Iterations
     THEN /\ claimed' = claimed + 1
          /\ ledger' = [ledger EXCEPT !.started = @ + 1, !.iters = @ + 1]
          /\ step' = [step EXCEPT ![s] = 1]
          /\ TaskGoes(s, "check")
     ELSE TaskGoes(s, "ended") /\ UNCHANGED <<claimed, ledger, step>>
  /\ UNCHANGED <<workload, signals, tokens, reason, failed, link, ticker, run>>

(* run_iteration, before each step: a halt or a signal ends the chain.     *)
StepCheck(s) ==
  /\ pc[s] = "check"
  /\ TaskGoes(s, IF ChainsHalted THEN "end" ELSE "begin")
  /\ UNCHANGED <<workload, signals, tokens, reason, claimed, ledger, failed, step,
                 link, ticker, run>>

BeginSend(s) ==
  /\ pc[s] = "begin"
  /\ ledger' = [ledger EXCEPT !.sends = @ + 1]
  /\ TaskGoes(s, "send")
  /\ UNCHANGED <<workload, signals, tokens, reason, claimed, failed, step,
                 link, ticker, run>>

(* Engine::execute returns, if it ever does; end_send; the next step or    *)
(* the end of the iteration.  The application's answer or an assertion may *)
(* make a completed send a failure too (is_failure).                       *)
SendReturns(s, t) ==
  /\ pc[s] = "send"
  /\ t = "canceled" => hard
  /\ ledger' = [ledger EXCEPT !.sends = @ - 1]
  /\ failed' = (failed \/ t # "canceled")
  /\ IF t = "completed" /\ step[s] < Steps
     THEN /\ step' = [step EXCEPT ![s] = @ + 1]
          /\ TaskGoes(s, "check")
     ELSE TaskGoes(s, "end") /\ UNCHANGED step
  /\ UNCHANGED <<workload, signals, tokens, reason, claimed, link, ticker, run>>

(* end_iteration, and what the task does next.                             *)
EndIteration(s) ==
  /\ pc[s] = "end"
  /\ ledger' = [ledger EXCEPT !.iters = @ - 1]
  /\ step' = [step EXCEPT ![s] = 0]
  /\ \/ workload = "open" /\ TaskGoes(s, "ended")
     \/ workload = "closed" /\ TaskGoes(s, "pause")
     \/ workload # "open" /\ TaskGoes(s, "loop")
  /\ UNCHANGED <<workload, signals, tokens, reason, claimed, failed, link, ticker, run>>

(* abort_all drops a task where it waits: what it had begun stays counted  *)
(* as in flight.                                                           *)
TaskDropped(s) ==
  /\ main = "aborting" /\ pc[s] \in {"send", "pause"}
  /\ TaskGoes(s, "ended")
  /\ step' = [step EXCEPT ![s] = 0]
  /\ UNCHANGED <<workload, signals, tokens, reason, claimed, ledger, failed,
                 link, ticker, run>>

TaskStep(s) ==
  \/ LoopCheck(s) \/ Inactive(s) \/ Wakes(s) \/ Claim(s) \/ StepCheck(s) \/ BeginSend(s)
  \/ EndIteration(s) \/ TaskDropped(s)

-----------------------------------------------------------------------------
(* The drivers. *)

(* drive_open: an arrival finds a free slot, or is dropped and counted.    *)
(* Its offset lies before the end; a late driver starts it after the end.  *)
Arrival ==
  /\ main = "drive" /\ workload = "open"
  /\ ~AdmissionStopped /\ claimed < Iterations
  /\ claimed' = claimed + 1
  /\ IF \E s \in Slot : Over(s)
     THEN \E s \in Slot :
            /\ Over(s)
            /\ ledger' = [ledger EXCEPT !.started = @ + 1, !.iters = @ + 1]
            /\ step' = [step EXCEPT ![s] = 1]
            /\ TaskGoes(s, "check")
     ELSE ledger' = [ledger EXCEPT !.dropped = @ + 1] /\ UNCHANGED <<pc, step>>
  /\ UNCHANGED <<workload, signals, tokens, reason, failed, link, ticker, run>>

(* The driver returns: the schedule has ended (for a fixed number of       *)
(* iterations: every lane has), or the run was stopped.                    *)
DriverEnds ==
  /\ main = "drive"
  /\ \/ /\ IF workload = "iterations" THEN \A s \in Slot : Over(s) ELSE over
        /\ SetReason("end")
     \/ stopToken /\ UNCHANGED reason
  /\ main' = "stop"
  /\ UNCHANGED <<workload, signals, tokens, claimed, ledger, failed, tasks, link, ticker,
                 wait, halted, aborted, report>>

DriverStops ==
  /\ main = "stop"
  /\ stopToken' = TRUE
  /\ main' = "choose"
  /\ UNCHANGED <<workload, signals, halt, hard, reason, claimed, ledger, failed, tasks,
                 link, ticker, wait, halted, aborted, report>>

(* The reason chooses how long in-flight work may take.                    *)
ChooseWait ==
  /\ main = "choose"
  /\ wait' = IF reason = "end" THEN "graceful" ELSE "cancel"
  /\ main' = "begin"
  /\ UNCHANGED <<workload, signals, tokens, reason, claimed, ledger, failed, tasks, link, ticker,
                 halted, aborted, report>>

(* Mutant: a halt that is there already is taken for the one that chose    *)
(* the wait.                                                               *)
DrainBegins_ReadsHalt ==
  /\ main = "begin"
  /\ main' = "drain"
  /\ halted' = halt
  /\ UNCHANGED <<workload, signals, tokens, reason, claimed, ledger, failed, tasks, link, ticker,
                 wait, aborted, report>>

DrainBegins ==
  /\ main = "begin"
  /\ main' = "drain"
  /\ halted' = FALSE
  /\ UNCHANGED <<workload, signals, tokens, reason, claimed, ledger, failed, tasks, link, ticker,
                 wait, aborted, report>>

(* drain: a halt shortens the wait once. *)
DrainHalted ==
  /\ main = "drain" /\ halt /\ ~halted
  /\ halted' = TRUE
  /\ wait' = "cancel"
  /\ UNCHANGED <<workload, signals, tokens, reason, claimed, ledger, failed, tasks, link, ticker,
                 main, aborted, report>>

(* The deadline that is running passes: the sends are canceled.            *)
DrainExpires(w) ==
  /\ main = "drain" /\ wait = w
  /\ halt' = TRUE /\ hard' = TRUE
  /\ main' = "hard"
  /\ UNCHANGED <<workload, signals, stopToken, reason, claimed, ledger, failed, tasks, link, ticker,
                 wait, halted, aborted, report>>

(* Every task has been joined: within the wait, within the grace after it, *)
(* or after they were aborted.                                             *)
AllJoined ==
  /\ main \in {"drain", "hard", "aborting"}
  /\ \A s \in Slot : Over(s)
  /\ pc' = [s \in Slot |-> "off"]
  /\ main' = "unlink"
  /\ UNCHANGED <<workload, signals, tokens, reason, claimed, ledger, failed, step,
                 link, ticker, wait, halted, aborted, report>>

(* HARD_CANCEL_GRACE passes.  A task that is over but not joined yet is    *)
(* still in the set.                                                       *)
GraceExpires ==
  /\ main = "hard"
  /\ \E unjoined \in SUBSET {s \in Slot : pc[s] = "ended"} :
       aborted' = Cardinality(unjoined) + Cardinality({s \in Slot : ~Over(s)})
  /\ main' = "aborting"
  /\ UNCHANGED <<workload, signals, tokens, reason, claimed, ledger, failed, tasks, link, ticker,
                 wait, halted, report>>

(* link.abort, and the wait for it: it ends where it waits or runs out.    *)
StopLink ==
  /\ main = "unlink" /\ link \in {"wait", "done"}
  /\ link' = "gone"
  /\ main' = "reconcile"
  /\ UNCHANGED <<workload, signals, tokens, reason, claimed, ledger, failed, tasks, ticker,
                 wait, halted, aborted, report>>

(* reconcile_external: a signal the observer had not seen.  The final      *)
(* reason is the report's completion.                                      *)
Reconcile ==
  /\ main = "reconcile"
  /\ \/ lock /\ RecordExternal("lock")
     \/ ~lock /\ cancel /\ RecordExternal("user")
     \/ ~ExternalStop /\ UNCHANGED reason
  /\ report' = reason'
  /\ main' = "ticker"
  /\ UNCHANGED <<workload, signals, tokens, claimed, ledger, failed, tasks, link, ticker,
                 wait, halted, aborted>>

(* The ticker has ended: the report is put together.                       *)
Assemble ==
  /\ main = "ticker" /\ ticker = "idle"
  /\ main' = "reported"
  /\ UNCHANGED <<workload, signals, tokens, reason, claimed, ledger, failed, tasks, link, ticker,
                 wait, halted, aborted, report>>

MainStep ==
  \/ DriverEnds \/ DriverStops \/ ChooseWait \/ DrainBegins \/ DrainHalted
  \/ DrainExpires("cancel") \/ AllJoined \/ GraceExpires \/ StopLink \/ Reconcile \/ Assemble

ExecutorNext ==
  \/ Signal \/ ScheduleEnds \/ Arrival \/ RuleTriggers \/ RuleStep \/ LinkStep
  \/ \E s \in Slot : TaskStep(s) \/ \E t \in {"completed", "failed", "canceled"} : SendReturns(s, t)
  \/ MainStep \/ DrainExpires("graceful")

(* Tasks are polled and the short deadlines pass.  Nothing makes a send    *)
(* return, the schedule end, a signal come, or the graceful wait expire.   *)
ExecutorFairness ==
  /\ WF_executorVars(LinkStep) /\ WF_executorVars(RuleStep) /\ WF_executorVars(MainStep)
  /\ \A s \in Slot : WF_executorVars(TaskStep(s))

ExecutorSpec == ExecutorInit /\ [][ExecutorNext]_executorVars /\ ExecutorFairness

-----------------------------------------------------------------------------
Reason == {None, "user", "lock", "abort", "end"}
TaskPc == {"off", "ended", "loop", "pause", "claim", "check", "begin", "send", "end"}
MainPc == {"drive", "stop", "choose", "begin", "drain", "hard", "aborting", "unlink",
           "reconcile", "ticker", "reported"}

DriverType ==
  /\ workload \in Workload
  /\ cancel \in BOOLEAN /\ lock \in BOOLEAN /\ over \in BOOLEAN
  /\ stopToken \in BOOLEAN /\ halt \in BOOLEAN /\ hard \in BOOLEAN
  /\ reason \in Reason /\ failed \in BOOLEAN
  /\ link \in {"wait", "halt", "stop", "done", "gone"} /\ ticker \in {"idle", "reason", "halt", "stop"}
  /\ main \in MainPc /\ wait \in {None, "graceful", "cancel"} /\ halted \in BOOLEAN
  /\ aborted \in Nat /\ report \in Reason
TaskType ==
  /\ claimed \in 0 .. Iterations
  /\ ledger \in [started : Nat, dropped : Nat, iters : Nat, sends : Nat]
  /\ pc \in [Slot -> TaskPc] /\ step \in [Slot -> 0 .. Steps]

(* Types of the run and of its tasks.                                      *)
ExecutorTypeOK == DriverType /\ TaskType

(* A report that says the run completed tells the truth: the schedule was  *)
(* run to its end (every iteration of a fixed number was started, however  *)
(* the lanes learned of a stop) and neither a cancel nor a lock came       *)
(* before the reason was settled, although observer, ticker and driver set *)
(* it in any order.  And what a report counts as in flight at the end      *)
(* belongs to tasks it says were abandoned (record_external,               *)
(* reconcile_external, drain, Ledger::balanced).                           *)
ReportTruthful ==
  main = "reported" =>
    /\ report = "end" =>
         /\ ~cancel /\ ~lock
         /\ IF workload = "iterations" THEN ledger.started = Iterations ELSE over
    /\ ledger.sends <= ledger.iters /\ ledger.iters <= aborted

(* A cancel or a lock ends the run even if no send ever returns and the    *)
(* graceful wait had already begun or was about to: the observer's halt    *)
(* shortens it (drain).                                                    *)
StopCutsDrain == ExternalStop ~> main = "reported"
=============================================================================
