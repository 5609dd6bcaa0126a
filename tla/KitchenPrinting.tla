---------------------------- MODULE KitchenPrinting ----------------------------
(***************************************************************************)
(* The queue of kitchen tickets and the agents that print them: the rows   *)
(* of KitchenPrintJob with the requests a device makes on them             *)
(* (PrinterAgentJobService.ts), the administrator's retry and revocation,  *)
(* and the loop of the agent in the restaurant (PrintAgentRunner.ts).      *)
(*                                                                         *)
(* A request is one transaction.  Its answer may be lost, the request may  *)
(* be lost, or be served after the agent gave up waiting (20 s): `late`    *)
(* holds those.  Time shows only in `due`, whether the deadline of a job   *)
(* has passed: the lease of a claimed job, the backoff of a failed one.    *)
(***************************************************************************)
EXTENDS Integers, FiniteSets

CONSTANTS
  Device, Job, None,
  Copies,         \* copies per job, fixed when it is enqueued
  MaxAttempts,    \* MAX_AUTOMATIC_ATTEMPTS
  MaxRetries,     \* bound: manual retries of one job
  MaxIncidents    \* bound: crashes and revocations

ASSUME PrintingAssumption ==
  /\ None \notin Device /\ None \notin Job
  /\ Copies \in Nat \ {0} /\ MaxAttempts \in Nat \ {0}
  /\ MaxRetries \in Nat /\ MaxIncidents \in Nat

VARIABLES
  job,        \* the rows; "ABSENT" before they are created
  agent,      \* the process of each device: where it is, on which job
  active,     \* devices whose credential is accepted
  late,       \* requests their agents gave up on, still to be served
  paper,      \* history: copies of each job the spoolers accepted
  disturbed,  \* history: jobs whose lease expired or whose printing failed
  retries,    \* history: manual retries of each job
  incidents

vars == <<job, agent, active, late, paper, disturbed, retries, incidents>>

Status == {"ABSENT", "PENDING", "PROCESSING", "PRINTED", "FAILED"}
Row == [status : Status, holder : Device \cup {None}, attempts : Nat, due : BOOLEAN]
Busy == {"printing", "reporting", "acking"}
Process == [at : Busy \cup {"off", "idle"}, job : Job \cup {None}, left : Nat]
Request == [op : {"claim", "printed", "failed"}, device : Device, job : Job \cup {None}]

TypeOK ==
  /\ job \in [Job -> Row]
  /\ agent \in [Device -> Process]
  /\ \A d \in Device : agent[d].at \in Busy <=> agent[d].job # None
  /\ active \subseteq Device
  /\ late \subseteq Request
  /\ \A m \in late : m.op = "claim" <=> m.job = None
  /\ paper \in [Job -> Nat]
  /\ disturbed \subseteq Job
  /\ retries \in [Job -> Nat]
  /\ incidents \in Nat

Idle == [at |-> "idle", job |-> None, left |-> 0]
Off == [at |-> "off", job |-> None, left |-> 0]

Init ==
  /\ job = [j \in Job |-> [status |-> "ABSENT", holder |-> None, attempts |-> 0, due |-> FALSE]]
  /\ agent = [d \in Device |-> Idle]
  /\ active = Device
  /\ late = {}
  /\ paper = [j \in Job |-> 0]
  /\ disturbed = {}
  /\ retries = [j \in Job |-> 0]
  /\ incidents = 0

-----------------------------------------------------------------------------
(* What the transactions do to the rows.  Operators named Bug_ are         *)
(* defective variants of what follows them, unused by the specification.   *)

(* claimNext first gives up the jobs that used their last attempt.         *)
Exhausted(row) ==
  row.status = "PROCESSING" /\ row.due /\ row.attempts >= MaxAttempts

Swept == [j \in Job |-> IF Exhausted(job[j]) THEN [job[j] EXCEPT !.status = "FAILED"]
                        ELSE job[j]]

(* The candidates of the claim; SKIP LOCKED and LIMIT 1 take any of them.  *)
Eligible(j) ==
  /\ job[j].attempts < MaxAttempts
  /\ job[j].due
  /\ job[j].status \in {"PENDING", "FAILED", "PROCESSING"}

Claimed(d, j) ==
  [Swept EXCEPT ![j] = [status |-> "PROCESSING", holder |-> d,
                        attempts |-> job[j].attempts + 1, due |-> FALSE]]

(* The WHERE of both acknowledgements.  Neither looks at the deadline of   *)
(* the lease nor at the attempt it belongs to.                             *)
Fence(d, j) == job[j].status = "PROCESSING" /\ job[j].holder = d

RowBecomes(j, status, due) ==
  [job EXCEPT ![j] = [status |-> status, holder |-> job[j].holder,
                      attempts |-> job[j].attempts, due |-> due]]

MarkPrinted(d, j) ==
  IF Fence(d, j) THEN RowBecomes(j, "PRINTED", FALSE) ELSE job

MarkFailed(d, j) ==
  IF Fence(d, j) THEN RowBecomes(j, "FAILED", FALSE) ELSE job

(* The HTTP status of an acknowledgement.                                  *)
PrintedAnswer(d, j) ==
  IF d \notin active THEN 401
  ELSE IF Fence(d, j) \/ (job[j].holder = d /\ job[j].status = "PRINTED") THEN 200
  ELSE 404

(* The answers after which the agent forgets its pending acknowledgement.  *)
Bug_AckOverOnlyWhenAccepted(answer) == answer = 200
AckOver(answer) == answer \in {200, 404, 409}

-----------------------------------------------------------------------------
(* KitchenPrintingService creates a row: automatic, manual or a test.      *)
Enqueue(j) ==
  /\ job[j].status = "ABSENT"
  /\ job' = RowBecomes(j, "PENDING", TRUE)
  /\ UNCHANGED <<agent, active, late, paper, disturbed, retries, incidents>>

(* retryJob.                                                               *)
Retry(j) ==
  /\ job[j].status = "FAILED" /\ retries[j] < MaxRetries
  /\ job' = [job EXCEPT ![j] = [status |-> "PENDING", holder |-> None,
                                attempts |-> 0, due |-> TRUE]]
  /\ retries' = [retries EXCEPT ![j] = @ + 1]
  /\ UNCHANGED <<agent, active, late, paper, disturbed, incidents>>

(* revokeCredential; the agent goes on but every request is refused.       *)
Revoke(d) ==
  /\ d \in active /\ incidents < MaxIncidents
  /\ active' = active \ {d}
  /\ incidents' = incidents + 1
  /\ UNCHANGED <<job, agent, late, paper, disturbed, retries>>

(* issueCredential of a known device; its agent is paired again, which     *)
(* takes a new process.                                                    *)
Issue(d) ==
  /\ d \notin active
  /\ active' = active \cup {d}
  /\ agent' = [agent EXCEPT ![d] = Off]
  /\ UNCHANGED <<job, late, paper, disturbed, retries, incidents>>

(* Time passes: a lease expires, a backoff ends.                           *)
LeaseExpires(j) ==
  /\ job[j].status = "PROCESSING" /\ ~job[j].due
  /\ job' = RowBecomes(j, "PROCESSING", TRUE)
  /\ disturbed' = disturbed \cup {j}
  /\ UNCHANGED <<agent, active, late, paper, retries, incidents>>

BackoffEnds(j) ==
  /\ job[j].status = "FAILED" /\ ~job[j].due
  /\ job' = RowBecomes(j, "FAILED", TRUE)
  /\ UNCHANGED <<agent, active, late, paper, disturbed, retries, incidents>>

-----------------------------------------------------------------------------
(* The agent: one turn of processOnce after the other.                     *)

(* Without a pending acknowledgement it asks for a job.                    *)
Asks(d) == agent[d].at = "idle" /\ d \in active

Claim(d, j) ==
  /\ Asks(d) /\ Eligible(j)
  /\ job' = Claimed(d, j)
  /\ agent' = [agent EXCEPT ![d] = [at |-> "printing", job |-> j, left |-> Copies]]
  /\ UNCHANGED <<active, late, paper, disturbed, retries, incidents>>

(* No candidate, or none that is not locked.                               *)
ClaimEmpty(d) ==
  /\ Asks(d)
  /\ job' = Swept
  /\ UNCHANGED <<agent, active, late, paper, disturbed, retries, incidents>>

(* The claim is granted but the agent never learns of it, now or later.    *)
ClaimLost(d) ==
  /\ Asks(d)
  /\ \/ /\ \E j \in Job : Eligible(j) /\ job' = Claimed(d, j)
        /\ late' = late
     \/ /\ job' = job
        /\ late' = late \cup {[op |-> "claim", device |-> d, job |-> None]}
  /\ UNCHANGED <<agent, active, paper, disturbed, retries, incidents>>

(* The spooler accepts one more copy; after the last the agent goes on to  *)
(* acknowledge the job.                                                    *)
Bug_AckBeforeLastCopy(left) == IF left <= 2 THEN "acking" ELSE "printing"
AfterCopy(left) == IF left = 1 THEN "acking" ELSE "printing"

PrintCopy(d) ==
  LET j == agent[d].job IN
  /\ agent[d].at = "printing"
  /\ paper' = [paper EXCEPT ![j] = @ + 1]
  /\ agent' = [agent EXCEPT ![d] = [at |-> AfterCopy(agent[d].left), job |-> j,
                                    left |-> agent[d].left - 1]]
  /\ UNCHANGED <<job, active, late, disturbed, retries, incidents>>

(* Printer missing or off line, ticket not rendered, print command failed  *)
(* or killed by its timeout: the copy may have been accepted all the same. *)
PrintFails(d) ==
  LET j == agent[d].job IN
  /\ agent[d].at = "printing"
  /\ \E accepted \in {0, 1} : paper' = [paper EXCEPT ![j] = @ + accepted]
  /\ agent' = [agent EXCEPT ![d].at = "reporting"]
  /\ disturbed' = disturbed \cup {j}
  /\ UNCHANGED <<job, active, late, retries, incidents>>

(* markFailed, whose errors are swallowed.                                 *)
Report(d) ==
  LET j == agent[d].job IN
  /\ agent[d].at = "reporting"
  /\ \/ d \in active /\ job' = MarkFailed(d, j) /\ late' = late
     \/ job' = job /\ late' = late
     \/ job' = job /\ late' = late \cup {[op |-> "failed", device |-> d, job |-> j]}
  /\ agent' = [agent EXCEPT ![d] = Idle]
  /\ UNCHANGED <<active, paper, disturbed, retries, incidents>>

(* markPrinted is answered.  What is not AckOver leaves it pending.        *)
Acknowledge(d) ==
  LET j == agent[d].job IN
  /\ agent[d].at = "acking"
  /\ job' = IF d \in active THEN MarkPrinted(d, j) ELSE job
  /\ agent' = IF AckOver(PrintedAnswer(d, j)) THEN [agent EXCEPT ![d] = Idle] ELSE agent
  /\ UNCHANGED <<active, late, paper, disturbed, retries, incidents>>

(* The call fails: pendingPrintedAck keeps the job for the next turn.      *)
Bug_AckLostIsFailure(d) ==
  /\ agent[d].at = "acking"
  /\ agent' = [agent EXCEPT ![d].at = "reporting"]
  /\ UNCHANGED <<job, active, late, paper, disturbed, retries, incidents>>
AcknowledgeLost(d) ==
  LET j == agent[d].job IN
  /\ agent[d].at = "acking"
  /\ \/ d \in active /\ job' = MarkPrinted(d, j) /\ late' = late
     \/ job' = job /\ late' = late \cup {[op |-> "printed", device |-> d, job |-> j]}
  /\ UNCHANGED <<agent, active, paper, disturbed, retries, incidents>>

(* The process ends, and with it its pending acknowledgement; it starts.   *)
Crash(d) ==
  /\ agent[d].at # "off" /\ incidents < MaxIncidents
  /\ agent' = [agent EXCEPT ![d] = Off]
  /\ incidents' = incidents + 1
  /\ UNCHANGED <<job, active, late, paper, disturbed, retries>>

Start(d) ==
  /\ agent[d].at = "off"
  /\ agent' = [agent EXCEPT ![d] = Idle]
  /\ UNCHANGED <<job, active, late, paper, disturbed, retries, incidents>>

-----------------------------------------------------------------------------
(* A request is served after its agent gave up.  An acknowledgement may    *)
(* have been authenticated before a revocation; a claim checks it again.   *)
ServeLate(m) ==
  /\ late' = late \ {m}
  /\ \/ /\ m.op = "claim" /\ m.device \in active
        /\ \/ \E j \in Job : Eligible(j) /\ job' = Claimed(m.device, j)
           \/ job' = Swept
     \/ m.op = "printed" /\ job' = MarkPrinted(m.device, m.job)
     \/ m.op = "failed" /\ job' = MarkFailed(m.device, m.job)
  /\ UNCHANGED <<agent, active, paper, disturbed, retries, incidents>>

JobStep(j) == Enqueue(j) \/ Retry(j) \/ LeaseExpires(j) \/ BackoffEnds(j)

AgentStep(d) ==
  \/ \E j \in Job : Claim(d, j)
  \/ ClaimEmpty(d) \/ ClaimLost(d)
  \/ PrintCopy(d) \/ PrintFails(d) \/ Report(d)
  \/ Acknowledge(d) \/ AcknowledgeLost(d)
  \/ Crash(d) \/ Start(d) \/ Revoke(d) \/ Issue(d)

Next ==
  \/ \E j \in Job : JobStep(j)
  \/ \E d \in Device : AgentStep(d)
  \/ \E m \in late : ServeLate(m)

(* Time passes; a running agent polls and goes on printing; a call that is *)
(* repeated is answered one day.  Nobody need start an agent again, retry  *)
(* a job or issue a credential.                                            *)
Fairness ==
  /\ \A j \in Job : WF_vars(LeaseExpires(j)) /\ WF_vars(BackoffEnds(j))
  /\ \A d \in Device :
       /\ WF_vars(\E j \in Job : Claim(d, j)) /\ WF_vars(ClaimEmpty(d))
       /\ WF_vars(PrintCopy(d) \/ PrintFails(d))
       /\ WF_vars(Report(d)) /\ WF_vars(Acknowledge(d))

Spec == Init /\ [][Next]_vars /\ Fairness

-----------------------------------------------------------------------------
(* A job is only recorded PRINTED when a spooler accepted every copy of    *)
(* it, however late and by whatever attempt the acknowledgement arrives.   *)
PrintedIsOnPaper ==
  \A j \in Job : job[j].status = "PRINTED" => paper[j] >= Copies

(* While no lease of a job expires and no printing of it fails, its copies *)
(* are printed once: lost answers, lost and late acknowledgements, crashes *)
(* and revocations alone do not print it again.                            *)
UndisturbedPrintsOnce ==
  \A j \in Job \ disturbed : paper[j] <= Copies

(* Printing the same ticket over and over stops: five attempts, unless     *)
(* someone asks for more.                                                  *)
PaperIsBounded ==
  \A j \in Job : paper[j] <= Copies * MaxAttempts * (1 + retries[j])

(* A printed ticket is never put back into the queue, neither by a retry   *)
(* of the administrator nor by a late report of an earlier failure.        *)
PrintedIsFinal ==
  [][\A j \in Job : job[j].status = "PRINTED" => job'[j].status = "PRINTED"]_vars

(* A ticket in the queue ends up printed, or reported as failed for good,  *)
(* unless no agent is left to print: no rejected acknowledgement holds an  *)
(* agent, no dead agent holds a job.                                       *)
Settled(j) ==
  \/ job[j].status = "PRINTED"
  \/ job[j].status = "FAILED" /\ job[j].attempts >= MaxAttempts
Working == {d \in active : agent[d].at # "off"}
TicketSettles ==
  \A j \in Job : job[j].status # "ABSENT" ~> Settled(j) \/ Working = {}

(* PrintAgentRunner.ts:116, "The server lease remains active and its       *)
(* idempotent ACK can be retried after connectivity returns".  Not so: a   *)
(* pending acknowledgement outlives the lease, nothing renews it, and      *)
(* another agent takes the job and prints it again.                        *)
PendingAckKeepsJob ==
  \A d \in Device : agent[d].at = "acking" =>
    LET row == job[agent[d].job]
    IN row.holder = d /\ row.status \in {"PROCESSING", "PRINTED"}
=============================================================================
