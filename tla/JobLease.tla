------------------------------ MODULE JobLease ------------------------------
(***************************************************************************)
(* The lease that keeps one scheduled job from running on every replica at *)
(* once: the row of ScheduledJobState (backend/src/jobs/lease), the runner *)
(* that holds a lease while the job executes (JobRunner.ts) and the        *)
(* in-process scheduler that dispatches it (WorkerScheduler.ts).           *)
(*                                                                         *)
(* Jobs of different keys never share state, so one key is modelled.  Time *)
(* is relative: a deadline is the number of ticks left before it passes.   *)
(* Every repository method is one SQL statement and hence one step; the    *)
(* answer to it is a second step, or is lost.                              *)
(***************************************************************************)
EXTENDS Integers, FiniteSets

CONSTANTS
  Worker,            \* process incarnations: createJobOwnerId draws a fresh UUID
  None,              \* SQL NULL
  LeaseDuration, SuccessCooldown, FailureBackoff,
  ClockSkew,         \* worker clock minus database clock, when nextRunAt is computed
  MaxVersion         \* bound: claims explored

ASSUME LeaseAssumption ==
  /\ None \notin Worker
  /\ LeaseDuration \in Nat \ {0}
  /\ SuccessCooldown \in Nat /\ FailureBackoff \in Nat
  /\ ClockSkew \subseteq Int
  /\ MaxVersion \in Nat

VARIABLES
  row,       \* the row; an absent row is version 0, unowned and due
  pc,        \* where run() of each worker is
  lease,     \* the leaseVersion each worker last obtained, its fencing token
  lost,      \* workers whose run() has leaseLost = true
  renewal,   \* the pending heartbeat of each worker
  stopping,  \* workers whose scheduler was told to stop
  expired,   \* history: versions whose lease deadline passed
  outcomes   \* history: outcomes written to the row, with their version

vars == <<row, pc, lease, lost, renewal, stopping, expired, outcomes>>

Phase == {"idle", "executing", "completing", "failing", "dead"}
Renewal == {"none", "sent", "granted", "refused", "errored"}

TypeOK ==
  /\ row \in [owner : Worker \cup {None}, version : Nat, left : Nat, wait : Nat]
  /\ pc \in [Worker -> Phase]
  /\ lease \in [Worker -> Nat]
  /\ lost \subseteq Worker
  /\ renewal \in [Worker -> Renewal]
  /\ stopping \subseteq Worker
  /\ expired \subseteq Nat
  /\ outcomes \subseteq Nat \X {"completed", "failed"}

Init ==
  /\ row = [owner |-> None, version |-> 0, left |-> 0, wait |-> 0]
  /\ pc = [w \in Worker |-> "idle"]
  /\ lease = [w \in Worker |-> 0]
  /\ lost = {}
  /\ renewal = [w \in Worker |-> "none"]
  /\ stopping = {}
  /\ expired = {}
  /\ outcomes = {}

-----------------------------------------------------------------------------
(* The SQL statements of PrismaJobLeaseRepository.                         *)

(* Operators named Bug_ are defective variants of the definition that      *)
(* follows; the specification never uses them.                             *)
Bug_LeaseFreeIgnoresDeadline(r) == r.owner = None
Bug_LeaseFreeAlways(r) == TRUE
LeaseFree(r) == r.owner = None \/ r.left = 0

Claimed(w) == [owner |-> w, version |-> row.version + 1,
               left |-> LeaseDuration, wait |-> 0]

Bug_NoFence(w) == TRUE
Fence(w) == row.owner = w /\ row.version = lease[w]

(* nextRunAt is worker time plus a delay: past dates are due at once.      *)
DueIn(delay, skew) == IF delay + skew > 0 THEN delay + skew ELSE 0

Settled(delay, skew) ==
  [row EXCEPT !.owner = None, !.left = 0, !.wait = DueIn(delay, skew)]

-----------------------------------------------------------------------------
(* WorkerScheduler.dispatch and the claim that opens JobRunner.run.        *)

ClaimRow(w) ==
  /\ pc[w] = "idle" /\ w \notin stopping
  /\ row.version < MaxVersion
  /\ row.wait = 0 /\ LeaseFree(row)
  /\ row' = Claimed(w)
  /\ UNCHANGED <<renewal, stopping, expired, outcomes>>

(* The claim is granted: run() starts with leaseLost = false.              *)
Dispatch(w) ==
  /\ ClaimRow(w)
  /\ pc' = [pc EXCEPT ![w] = "executing"]
  /\ lease' = [lease EXCEPT ![w] = row.version + 1]
  /\ lost' = lost \ {w}

(* The claim commits but its answer is lost: run() rejects, dispatch       *)
(* reports a failure and forgets the key, the row stays owned.             *)
DispatchAnswerLost(w) == ClaimRow(w) /\ UNCHANGED <<pc, lease, lost>>

(* The heartbeat timer, which may fire late.                               *)
HeartbeatSend(w) ==
  /\ pc[w] = "executing" /\ renewal[w] = "none" /\ w \notin lost
  /\ renewal' = [renewal EXCEPT ![w] = "sent"]
  /\ UNCHANGED <<row, pc, lease, lost, stopping, expired, outcomes>>

(* The renewal statement at the database, also after its sender died.      *)
RenewCommit(w) ==
  /\ renewal[w] = "sent"
  /\ IF Fence(w) /\ row.left > 0
       THEN /\ row' = [row EXCEPT !.left = LeaseDuration]
            /\ \E answer \in {"granted", "errored"} :
                 renewal' = [renewal EXCEPT ![w] = answer]
       ELSE row' = row /\ renewal' = [renewal EXCEPT ![w] = "refused"]
  /\ UNCHANGED <<pc, lease, lost, stopping, expired, outcomes>>

(* The renewal never reaches the database.                                 *)
RenewError(w) ==
  /\ renewal[w] = "sent"
  /\ renewal' = [renewal EXCEPT ![w] = "errored"]
  /\ UNCHANGED <<row, pc, lease, lost, stopping, expired, outcomes>>

(* A refused renewal and a failed one both mean leaseLost = true.          *)
RenewAnswer(w) ==
  /\ pc[w] # "dead" /\ renewal[w] \in {"granted", "refused", "errored"}
  /\ renewal' = [renewal EXCEPT ![w] = "none"]
  /\ lost' = IF renewal[w] = "granted" THEN lost ELSE lost \cup {w}
  /\ UNCHANGED <<row, pc, lease, stopping, expired, outcomes>>

(* execute() returns or throws; it is not aborted when the lease is lost.  *)
ExecuteEnds(w) ==
  /\ pc[w] = "executing"
  /\ \E next \in {"completing", "failing"} : pc' = [pc EXCEPT ![w] = next]
  /\ UNCHANGED <<row, lease, lost, renewal, stopping, expired, outcomes>>

(* Past `await renewal`, a run that lost its lease returns 'lease-lost'.   *)
LeaseLost(w) ==
  /\ pc[w] \in {"completing", "failing"} /\ renewal[w] = "none" /\ w \in lost
  /\ pc' = [pc EXCEPT ![w] = "idle"]
  /\ UNCHANGED <<row, lease, lost, renewal, stopping, expired, outcomes>>

CanSettle(w) == renewal[w] = "none" /\ w \notin lost

(* The fenced UPDATE of complete() and fail(): zero rows when fenced off.  *)
SettleRow(w, delay, kind) ==
  IF Fence(w)
    THEN /\ \E skew \in ClockSkew : row' = Settled(delay, skew)
         /\ outcomes' = outcomes \cup {<<lease[w], kind>>}
    ELSE UNCHANGED <<row, outcomes>>

(* complete(): an error while waiting for the answer (the statement may    *)
(* have committed) enters the catch block, which calls fail().             *)
CompleteLease(w) ==
  /\ pc[w] = "completing" /\ CanSettle(w)
  /\ \/ /\ SettleRow(w, SuccessCooldown, "completed")
        /\ \E next \in {"idle", "failing"} : pc' = [pc EXCEPT ![w] = next]
     \/ /\ UNCHANGED <<row, outcomes>>
        /\ pc' = [pc EXCEPT ![w] = "failing"]
  /\ UNCHANGED <<lease, lost, renewal, stopping, expired>>

(* fail(): an error here rejects run(), which dispatch turns into 'failed'.*)
FailLease(w) ==
  /\ pc[w] = "failing" /\ CanSettle(w)
  /\ \/ SettleRow(w, FailureBackoff, "failed")
     \/ UNCHANGED <<row, outcomes>>
  /\ pc' = [pc EXCEPT ![w] = "idle"]
  /\ UNCHANGED <<lease, lost, renewal, stopping, expired>>

(* SIGTERM: stop() clears the timers and waits for the active executions.  *)
Stop(w) ==
  /\ pc[w] # "dead" /\ w \notin stopping
  /\ stopping' = stopping \cup {w}
  /\ UNCHANGED <<row, pc, lease, lost, renewal, expired, outcomes>>

(* The process ends: after stop(), on the shutdown timeout, or by a crash. *)
Exit(w) ==
  /\ pc[w] # "dead"
  /\ pc' = [pc EXCEPT ![w] = "dead"]
  /\ UNCHANGED <<row, lease, lost, renewal, stopping, expired, outcomes>>

(* clock_timestamp() advances.                                             *)
Down(n) == IF n > 0 THEN n - 1 ELSE 0
Tick ==
  /\ row' = [row EXCEPT !.left = Down(row.left), !.wait = Down(row.wait)]
  /\ expired' = IF row.owner # None /\ row.left <= 1
                  THEN expired \cup {row.version} ELSE expired
  /\ UNCHANGED <<pc, lease, lost, renewal, stopping, outcomes>>

WorkerStep(w) ==
  \/ Dispatch(w) \/ DispatchAnswerLost(w)
  \/ HeartbeatSend(w) \/ RenewCommit(w) \/ RenewError(w) \/ RenewAnswer(w)
  \/ ExecuteEnds(w) \/ LeaseLost(w) \/ CompleteLease(w) \/ FailLease(w)
  \/ Stop(w) \/ Exit(w)

Next == Tick \/ \E w \in Worker : WorkerStep(w)

(* Time passes, and an interval timer keeps dispatching a key that is not  *)
(* active.  Nothing bounds execute(), so its end is not fair.              *)
Fairness == WF_vars(Tick) /\ \A w \in Worker : WF_vars(Dispatch(w))

Spec == Init /\ [][Next]_vars /\ Fairness

-----------------------------------------------------------------------------
(* Two executions of the job overlap only when the earlier one outlived    *)
(* its lease: claim never takes over a lease that is still alive.          *)
OverlapOnlyAfterExpiry ==
  \A v, w \in Worker :
    /\ pc[v] = "executing" /\ pc[w] = "executing" /\ v # w
    => lease[v] \in expired \/ lease[w] \in expired

(* A claimed version is settled once: the catch block that follows a       *)
(* complete() whose answer was lost cannot record a failure as well.       *)
SingleOutcome ==
  \A a, b \in outcomes : a[1] = b[1] => a = b

(* No step shortens a cooldown that was recorded (20 h for billing.daily): *)
(* neither a late fail() nor a worker that lost its lease overwrites it.   *)
CooldownNeverShortened == [][row'.wait >= row.wait - 1]_vars

(* A lease whose holder died is taken over, unless no worker is left that  *)
(* can dispatch the job (or the bound on claims is reached).               *)
Available == {w \in Worker : pc[w] = "idle" /\ w \notin stopping}
DeadHolderReplaced ==
  \A w \in Worker :
    row.owner = w /\ pc[w] = "dead"
      ~> row.owner # w \/ Available = {} \/ row.version = MaxVersion

(* backend/src/jobs/README.md:8, "O lease distribuido impede execucao      *)
(* concorrente da mesma janela".  Not so: a run whose lease was lost keeps *)
(* executing beside its successor.                                         *)
NoConcurrentExecution ==
  \A v, w \in Worker : pc[v] = "executing" /\ pc[w] = "executing" => v = w
=============================================================================
