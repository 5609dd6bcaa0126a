------------------------- MODULE KitchenPrintingProofs -------------------------
(***************************************************************************)
(* Safety of kitchen printing for any devices, tickets, copies, attempts,  *)
(* retries and incidents.  IInv follows the copies from the spooler to the *)
(* row: what an agent at work has printed (OnPaper), and who may be at     *)
(* work on a ticket that nothing disturbed (FirstClaimOnly).               *)
(***************************************************************************)
EXTENDS KitchenPrinting, TLAPS

(* An agent has printed the copies it no longer has to print, and whoever  *)
(* acknowledges a ticket, now or by a late request, has printed them all.  *)
OnPaper ==
  /\ \A d \in Device : agent[d].at = "printing" =>
       agent[d].left \in 1..Copies /\ paper[agent[d].job] >= Copies - agent[d].left
  /\ \A d \in Device : agent[d].at = "acking" => paper[agent[d].job] >= Copies
  /\ \A m \in late : m.op = "printed" => paper[m.job] >= Copies
  /\ PrintedIsOnPaper

(* An undisturbed ticket has been claimed once at most: nobody works on it *)
(* before, and then only its holder, who still owes what is not on paper.  *)
Untouched(j) == paper[j] = 0 /\ \A d \in Device : agent[d].job # j

HeldByWorker(j) ==
  \A d \in Device : agent[d].job = j =>
    /\ job[j].holder = d /\ job[j].status \in {"PROCESSING", "PRINTED"}
    /\ \/ agent[d].at = "printing" /\ paper[j] + agent[d].left <= Copies
       \/ agent[d].at = "acking"

FirstClaimOnly ==
  /\ \A m \in late : m.op = "failed" => m.job \in disturbed
  /\ \A j \in Job \ disturbed :
       /\ job[j].status # "FAILED"
       /\ job[j].status = "PROCESSING" => ~job[j].due
       /\ job[j].status \in {"ABSENT", "PENDING"} => Untouched(j)
       /\ HeldByWorker(j)
       /\ paper[j] <= Copies

IInv == TypeOK /\ OnPaper /\ FirstClaimOnly

USE PrintingAssumption DEF PrintingAssumption

LEMMA InitIInv == Init => IInv
  <1> SUFFICES ASSUME Init PROVE IInv
    OBVIOUS
  <1> USE DEF Init, Idle
  <1>1. TypeOK
    BY DEF TypeOK, Row, Process, Request, Status, Busy
  <1>2. OnPaper
    BY DEF OnPaper, PrintedIsOnPaper
  <1>3. FirstClaimOnly
    BY DEF FirstClaimOnly, Untouched, HeldByWorker
  <1> QED
    BY <1>1, <1>2, <1>3 DEF IInv

LEMMA BusyHasJob ==
  ASSUME TypeOK, NEW d \in Device, agent[d].at \in Busy
  PROVE  agent[d].job \in Job
  BY DEF TypeOK, Process

-----------------------------------------------------------------------------
(* What the transactions do to the rows.                                   *)

LEMMA RowsType ==
  ASSUME TypeOK
  PROVE  /\ Swept \in [Job -> Row]
         /\ \A d \in Device, j \in Job :
              /\ Claimed(d, j) \in [Job -> Row]
              /\ MarkPrinted(d, j) \in [Job -> Row]
              /\ MarkFailed(d, j) \in [Job -> Row]
  <1>1. Swept \in [Job -> Row]
    BY DEF TypeOK, Swept, Row, Status
  <1>2. \A d \in Device, j \in Job : Claimed(d, j) \in [Job -> Row]
    BY <1>1 DEF TypeOK, Claimed, Row, Status
  <1>3. \A d \in Device, j \in Job : MarkPrinted(d, j) \in [Job -> Row]
    BY DEF TypeOK, MarkPrinted, RowBecomes, Row, Status
  <1>4. \A d \in Device, j \in Job : MarkFailed(d, j) \in [Job -> Row]
    BY DEF TypeOK, MarkFailed, RowBecomes, Row, Status
  <1> QED
    BY <1>1, <1>2, <1>3, <1>4

(* A row changes in few ways: it is given up, claimed anew, or settled by  *)
(* an acknowledgement that passes the fence.                               *)
GivenUp(j) == job[j].status = "PROCESSING" /\ job[j].due

LEMMA SweptRows ==
  ASSUME TypeOK, NEW j \in Job
  PROVE  \/ Swept[j] = job[j]
         \/ GivenUp(j) /\ Swept[j].status = "FAILED" /\ Swept[j].holder = job[j].holder
  BY DEF TypeOK, Swept, Exhausted, GivenUp, Row

LEMMA ClaimedRows ==
  ASSUME TypeOK, NEW d \in Device, NEW i \in Job, NEW j \in Job
  PROVE  /\ j # i => Claimed(d, i)[j] = Swept[j]
         /\ Claimed(d, i)[i].status = "PROCESSING"
         /\ Claimed(d, i)[i].holder = d
         /\ ~Claimed(d, i)[i].due
  BY RowsType DEF Claimed

LEMMA PrintedRows ==
  ASSUME TypeOK, NEW d \in Device, NEW i \in Job, NEW j \in Job
  PROVE  \/ MarkPrinted(d, i)[j] = job[j]
         \/ /\ j = i /\ Fence(d, i)
            /\ MarkPrinted(d, i)[j].status = "PRINTED"
            /\ MarkPrinted(d, i)[j].holder = d
  BY DEF TypeOK, MarkPrinted, RowBecomes, Fence, Row

LEMMA FailedRows ==
  ASSUME TypeOK, NEW d \in Device, NEW i \in Job, NEW j \in Job
  PROVE  \/ MarkFailed(d, i)[j] = job[j]
         \/ /\ j = i /\ Fence(d, i)
            /\ MarkFailed(d, i)[j].status = "FAILED"
  BY DEF TypeOK, MarkFailed, RowBecomes, Fence, Row

-----------------------------------------------------------------------------
(* Administrators and time.                                                *)

LEMMA EnqueueStep ==
  ASSUME IInv, NEW j \in Job, Enqueue(j)
  PROVE  IInv'
  <1> USE DEF Enqueue, RowBecomes
  <1>1. TypeOK'
    BY DEF IInv, TypeOK, Row, Status
  <1>2. OnPaper'
    BY DEF IInv, TypeOK, OnPaper, PrintedIsOnPaper
  <1>3. FirstClaimOnly'
    BY DEF IInv, TypeOK, Row, FirstClaimOnly, Untouched, HeldByWorker
  <1> QED
    BY <1>1, <1>2, <1>3 DEF IInv

LEMMA RetryStep ==
  ASSUME IInv, NEW j \in Job, Retry(j)
  PROVE  IInv'
  <1> USE DEF Retry
  <1>1. TypeOK'
    BY DEF IInv, TypeOK, Row, Status
  <1>2. OnPaper'
    BY DEF IInv, TypeOK, OnPaper, PrintedIsOnPaper
  <1>3. FirstClaimOnly'
    BY DEF IInv, TypeOK, Row, FirstClaimOnly, Untouched, HeldByWorker
  <1> QED
    BY <1>1, <1>2, <1>3 DEF IInv

(* A deadline: of a claimed job, then the job is disturbed, or of a failed *)
(* one, then it was.                                                       *)
LEMMA DeadlineStep ==
  ASSUME IInv, NEW j \in Job, LeaseExpires(j) \/ BackoffEnds(j)
  PROVE  IInv'
  <1>1. TypeOK'
    <2>1. CASE LeaseExpires(j)
      BY <2>1 DEF LeaseExpires, RowBecomes, IInv, TypeOK, Row, Status
    <2>2. CASE BackoffEnds(j)
      BY <2>2 DEF BackoffEnds, RowBecomes, IInv, TypeOK, Row, Status
    <2> QED
      BY <2>1, <2>2
  <1>2. OnPaper'
    BY DEF LeaseExpires, BackoffEnds, RowBecomes, IInv, TypeOK, Row, OnPaper, PrintedIsOnPaper
  <1>3. FirstClaimOnly'
    BY DEF LeaseExpires, BackoffEnds, RowBecomes, IInv, TypeOK, Row, FirstClaimOnly, Untouched, HeldByWorker
  <1> QED
    BY <1>1, <1>2, <1>3 DEF IInv

LEMMA ProcessStep ==
  ASSUME IInv, NEW d \in Device, Crash(d) \/ Start(d) \/ Revoke(d) \/ Issue(d)
  PROVE  IInv'
  <1> USE DEF Crash, Start, Revoke, Issue, Idle, Off
  <1>1. TypeOK'
    BY DEF IInv, TypeOK, Process, Busy
  <1>2. OnPaper'
    BY DEF IInv, TypeOK, OnPaper, PrintedIsOnPaper
  <1>3. FirstClaimOnly'
    BY DEF IInv, TypeOK, FirstClaimOnly, Untouched, HeldByWorker
  <1> QED
    BY <1>1, <1>2, <1>3 DEF IInv

-----------------------------------------------------------------------------
(* Claims.                                                                 *)

(* A claim of an undisturbed ticket is its first: nobody has touched it.   *)
LEMMA FirstClaim ==
  ASSUME IInv, NEW j \in Job \ disturbed, Eligible(j)
  PROVE  job[j].status = "PENDING" /\ Untouched(j)
  BY DEF IInv, FirstClaimOnly, Eligible

LEMMA UndisturbedNotGivenUp ==
  ASSUME IInv, NEW j \in Job \ disturbed
  PROVE  Swept[j] = job[j]
  BY SweptRows DEF IInv, FirstClaimOnly, GivenUp

(* Rows that were swept and perhaps claimed, while nothing else moved.     *)
LEMMA ClaimedKeepsPaper ==
  ASSUME IInv, NEW d \in Device, NEW i \in Job, NEW j \in Job,
         Claimed(d, i)[j].status = "PRINTED" \/ Swept[j].status = "PRINTED"
  PROVE  paper[j] >= Copies
  BY SweptRows, ClaimedRows DEF IInv, OnPaper, PrintedIsOnPaper

LEMMA ClaimStep ==
  ASSUME IInv, NEW d \in Device, NEW i \in Job, Claim(d, i)
  PROVE  IInv'
  <1> USE DEF Claim, Asks
  <1>1. TypeOK'
    BY RowsType DEF IInv, TypeOK, Process, Busy
  <1>2. OnPaper'
    BY ClaimedKeepsPaper DEF IInv, TypeOK, Process, OnPaper, PrintedIsOnPaper
  <1>3. FirstClaimOnly'
    <2> SUFFICES ASSUME NEW j \in Job \ disturbed
                 PROVE  /\ job'[j].status # "FAILED"
                        /\ job'[j].status = "PROCESSING" => ~job'[j].due
                        /\ job'[j].status \in {"ABSENT", "PENDING"} => Untouched(j)'
                        /\ HeldByWorker(j)'
                        /\ paper'[j] <= Copies
      BY DEF IInv, FirstClaimOnly
    <2>1. CASE j = i
      <3>1. Untouched(j)
        BY <2>1, FirstClaim
      <3>2. \A e \in Device : agent'[e].job = j => e = d
        BY <3>1 DEF IInv, TypeOK, Untouched
      <3> QED
        BY <2>1, <3>1, <3>2, ClaimedRows
           DEF IInv, TypeOK, Untouched, HeldByWorker
    <2>2. CASE j # i
      <3>1. job'[j] = job[j]
        BY <2>2, ClaimedRows, UndisturbedNotGivenUp DEF IInv
      <3>2. \A e \in Device : agent'[e].job = j => agent'[e] = agent[e]
        BY <2>2 DEF IInv, TypeOK
      <3> QED
        BY <3>1, <3>2 DEF IInv, TypeOK, FirstClaimOnly, Untouched, HeldByWorker
    <2> QED
      BY <2>1, <2>2
  <1> QED
    BY <1>1, <1>2, <1>3 DEF IInv

(* The rows change as in a claim but no agent knows.                       *)
LEMMA UnheardClaim ==
  ASSUME IInv, NEW d \in Device, late' \subseteq late,
         \/ job' = Swept
         \/ \E i \in Job : Eligible(i) /\ job' = Claimed(d, i),
         UNCHANGED <<agent, active, paper, disturbed, retries, incidents>>
  PROVE  IInv'
  <1>1. TypeOK'
    BY RowsType DEF IInv, TypeOK
  <1>2. OnPaper'
    BY ClaimedKeepsPaper DEF IInv, TypeOK, OnPaper, PrintedIsOnPaper
  <1>3. FirstClaimOnly'
    <2> SUFFICES ASSUME NEW j \in Job \ disturbed
                 PROVE  /\ job'[j].status # "FAILED"
                        /\ job'[j].status = "PROCESSING" => ~job'[j].due
                        /\ job'[j].status \in {"ABSENT", "PENDING"} => Untouched(j)
                        /\ HeldByWorker(j)'
                        /\ paper[j] <= Copies
      BY DEF IInv, FirstClaimOnly, Untouched
    <2>1. CASE job'[j] = job[j]
      BY <2>1 DEF IInv, FirstClaimOnly, HeldByWorker
    <2>2. CASE job'[j] # job[j]
      <3>1. Eligible(j) /\ job' = Claimed(d, j)
        BY <2>2, ClaimedRows, UndisturbedNotGivenUp DEF IInv
      <3> QED
        BY <3>1, FirstClaim, ClaimedRows DEF IInv, Untouched, HeldByWorker
    <2> QED
      BY <2>1, <2>2
  <1> QED
    BY <1>1, <1>2, <1>3 DEF IInv

LEMMA ClaimUnheardStep ==
  ASSUME IInv, NEW d \in Device, ClaimEmpty(d) \/ ClaimLost(d)
  PROVE  IInv'
  <1>1. CASE late' = late
    <2>1. \/ job' = Swept
          \/ \E i \in Job : Eligible(i) /\ job' = Claimed(d, i)
          \/ job' = job
      BY DEF ClaimEmpty, ClaimLost
    <2>2. CASE job' = job
      BY <1>1, <2>2 DEF ClaimEmpty, ClaimLost, IInv, TypeOK, OnPaper, PrintedIsOnPaper,
                        FirstClaimOnly, Untouched, HeldByWorker
    <2> QED
      BY <1>1, <2>1, <2>2, UnheardClaim DEF ClaimEmpty, ClaimLost
  <1>2. CASE late' # late
    <2>1. /\ job' = job
          /\ late' = late \cup {[op |-> "claim", device |-> d, job |-> None]}
          /\ UNCHANGED <<agent, active, paper, disturbed, retries, incidents>>
      BY <1>2 DEF ClaimEmpty, ClaimLost
    <2> QED
      BY <2>1 DEF IInv, TypeOK, Request, OnPaper, PrintedIsOnPaper,
                  FirstClaimOnly, Untouched, HeldByWorker
  <1> QED
    BY <1>1, <1>2

-----------------------------------------------------------------------------
(* Printing.                                                               *)

LEMMA PrintCopyStep ==
  ASSUME IInv, NEW d \in Device, PrintCopy(d)
  PROVE  IInv'
  <1> DEFINE j == agent[d].job
  <1>1. /\ agent[d].at = "printing" /\ j \in Job
        /\ agent[d].left \in 1..Copies /\ paper[j] >= Copies - agent[d].left
        /\ paper' = [paper EXCEPT ![j] = @ + 1]
        /\ agent' = [agent EXCEPT ![d] = [at |-> AfterCopy(agent[d].left), job |-> j,
                                          left |-> agent[d].left - 1]]
        /\ UNCHANGED <<job, active, late, disturbed, retries, incidents>>
    BY DEF IInv, TypeOK, OnPaper, PrintCopy, Process, Busy
  <1>2. /\ \A i \in Job : paper[i] \in Nat /\ paper'[i] \in Nat /\ paper'[i] >= paper[i]
        /\ \A i \in Job : i # j => paper'[i] = paper[i]
        /\ paper'[j] = paper[j] + 1
    BY <1>1 DEF IInv, TypeOK
  <1>3. \/ agent[d].left = 1 /\ agent'[d].at = "acking"
        \/ agent[d].left \in 2..Copies /\ agent'[d].at = "printing"
    BY <1>1 DEF IInv, TypeOK, AfterCopy
  <1>4. TypeOK'
    BY <1>1, <1>2 DEF IInv, TypeOK, Process, Busy, AfterCopy
  <1>5. OnPaper'
    <2>1. \A e \in Device : agent'[e].at = "printing" =>
            agent'[e].left \in 1..Copies /\ paper'[agent'[e].job] >= Copies - agent'[e].left
      BY <1>1, <1>2, <1>3 DEF IInv, TypeOK, OnPaper, Process, Busy
    <2>2. \A e \in Device : agent'[e].at = "acking" => paper'[agent'[e].job] >= Copies
      BY <1>1, <1>2, <1>3 DEF IInv, TypeOK, OnPaper, Process, Busy
    <2>3. \A m \in late : m.op = "printed" => paper'[m.job] >= Copies
      BY <1>2 DEF IInv, TypeOK, OnPaper, Request
    <2>4. PrintedIsOnPaper'
      BY <1>1, <1>2 DEF IInv, OnPaper, PrintedIsOnPaper
    <2> QED
      BY <1>1, <2>1, <2>2, <2>3, <2>4 DEF OnPaper
  <1>6. FirstClaimOnly'
    <2> SUFFICES ASSUME NEW i \in Job \ disturbed
                 PROVE  /\ job[i].status \in {"ABSENT", "PENDING"} => Untouched(i)'
                        /\ HeldByWorker(i)'
                        /\ paper'[i] <= Copies
      BY <1>1 DEF IInv, FirstClaimOnly
    <2>1. CASE i = j
      <3>1. /\ job[j].holder = d /\ job[j].status \in {"PROCESSING", "PRINTED"}
            /\ paper[j] + agent[d].left <= Copies
        BY <1>1, <2>1 DEF IInv, FirstClaimOnly, HeldByWorker
      <3>2. \A e \in Device : agent[e].job = j => e = d
        BY <2>1, <3>1 DEF IInv, FirstClaimOnly, HeldByWorker
      <3>3. HeldByWorker(j)'
        BY <1>1, <1>2, <1>3, <3>1, <3>2 DEF IInv, TypeOK, HeldByWorker
      <3> QED
        BY <1>1, <1>2, <2>1, <3>1, <3>3
    <2>2. CASE i # j
      <3>1. paper'[i] = paper[i] /\ \A e \in Device : agent'[e].job = i => agent'[e] = agent[e]
        BY <1>1, <1>2, <2>2 DEF IInv, TypeOK
      <3>2. \A e \in Device : agent'[e].job = i => agent[e].job = i
        BY <3>1
      <3> QED
        BY <1>1, <3>1, <3>2 DEF IInv, TypeOK, FirstClaimOnly, Untouched, HeldByWorker
    <2> QED
      BY <2>1, <2>2
  <1> QED
    BY <1>4, <1>5, <1>6 DEF IInv

LEMMA PrintFailsStep ==
  ASSUME IInv, NEW d \in Device, PrintFails(d)
  PROVE  IInv'
  <1> DEFINE j == agent[d].job
  <1>1. /\ agent[d].at = "printing" /\ j \in Job
        /\ agent' = [agent EXCEPT ![d].at = "reporting"]
        /\ disturbed' = disturbed \cup {j}
        /\ UNCHANGED <<job, active, late, retries, incidents>>
    BY DEF IInv, TypeOK, PrintFails, Process, Busy
  <1>2. PICK n \in {0, 1} : paper' = [paper EXCEPT ![j] = @ + n]
    BY DEF PrintFails
  <1>3. /\ \A i \in Job : paper[i] \in Nat /\ paper'[i] \in Nat /\ paper'[i] >= paper[i]
        /\ \A i \in Job : i # j => paper'[i] = paper[i]
    BY <1>1, <1>2 DEF IInv, TypeOK
  <1>4. /\ agent'[d].at = "reporting"
        /\ \A e \in Device : /\ agent'[e].job = agent[e].job
                             /\ agent'[e].left = agent[e].left
                             /\ e # d => agent'[e].at = agent[e].at
    BY <1>1 DEF IInv, TypeOK, Process
  <1>5. TypeOK'
    <2>1. agent' \in [Device -> Process]
      BY <1>1 DEF IInv, TypeOK, Process, Busy
    <2>2. paper' \in [Job -> Nat]
      BY <1>2, <1>1 DEF IInv, TypeOK
    <2> QED
      BY <1>1, <1>4, <2>1, <2>2 DEF IInv, TypeOK, Busy
  <1>6. OnPaper'
    <2>1. ASSUME NEW e \in Device, agent'[e].at \in {"printing", "acking"}
          PROVE  /\ agent'[e].at = "printing" =>
                      /\ agent'[e].left \in 1..Copies
                      /\ paper'[agent'[e].job] >= Copies - agent'[e].left
                 /\ agent'[e].at = "acking" => paper'[agent'[e].job] >= Copies
      <3> DEFINE i == agent[e].job
      <3>0. e # d
        BY <1>4, <2>1
      <3>1. agent'[e].at = agent[e].at /\ agent'[e].job = i /\ agent'[e].left = agent[e].left
        BY <1>4, <3>0
      <3>2. i \in Job
        BY <2>1, <3>1, BusyHasJob DEF IInv, Busy
      <3>3. paper[i] \in Nat /\ paper'[i] \in Nat /\ paper'[i] >= paper[i]
        BY <1>3, <3>2
      <3>4. /\ agent[e].at = "printing" =>
                 agent[e].left \in 1..Copies /\ paper[i] >= Copies - agent[e].left
            /\ agent[e].at = "acking" => paper[i] >= Copies
        BY DEF IInv, OnPaper
      <3> HIDE DEF i
      <3> QED
        BY <3>1, <3>3, <3>4
    <2>3. \A m \in late : m.op = "printed" => paper'[m.job] >= Copies
      BY <1>3 DEF IInv, TypeOK, OnPaper, Request
    <2>4. PrintedIsOnPaper'
      BY <1>1, <1>3 DEF IInv, OnPaper, PrintedIsOnPaper
    <2> QED
      BY <1>1, <2>1, <2>3, <2>4 DEF OnPaper
  <1>7. FirstClaimOnly'
    <2>1. \A i \in Job \ disturbed' : paper'[i] = paper[i] /\ i # j
      BY <1>1, <1>3
    <2>2. \A i \in Job \ disturbed' : \A e \in Device : agent[e].job = i => e # d
      BY <1>1
    <2> QED
      BY <1>1, <1>4, <2>1, <2>2 DEF IInv, FirstClaimOnly, Untouched, HeldByWorker
  <1> QED
    BY <1>5, <1>6, <1>7 DEF IInv

-----------------------------------------------------------------------------
(* Acknowledgements.  A report of failure is of a disturbed ticket; an     *)
(* acknowledgement is of a ticket on paper.                                *)

LEMMA ReportIsDisturbed ==
  ASSUME IInv, NEW d \in Device, agent[d].at = "reporting"
  PROVE  agent[d].job \in Job \cap disturbed
  BY DEF IInv, TypeOK, FirstClaimOnly, HeldByWorker, Process, Busy

LEMMA FailedKeeps ==
  ASSUME IInv, NEW d \in Device, NEW i \in Job \cap disturbed,
         job' = MarkFailed(d, i), UNCHANGED <<paper, disturbed>>
  PROVE  /\ job' \in [Job -> Row]
         /\ PrintedIsOnPaper'
         /\ \A j \in Job \ disturbed : job'[j] = job[j]
  <1>1. \A j \in Job : job'[j] = job[j] \/ (j = i /\ job'[j].status = "FAILED")
    <2>1. i \in Job
      OBVIOUS
    <2> QED
      BY <2>1, FailedRows DEF IInv
  <1>2. PrintedIsOnPaper'
    BY <1>1 DEF IInv, OnPaper, PrintedIsOnPaper
  <1> QED
    BY <1>1, <1>2, RowsType DEF IInv

LEMMA PrintedKeeps ==
  ASSUME IInv, NEW d \in Device, NEW i \in Job, paper[i] >= Copies,
         job' = MarkPrinted(d, i), UNCHANGED <<paper, disturbed>>
  PROVE  /\ job' \in [Job -> Row]
         /\ PrintedIsOnPaper'
         /\ \A j \in Job \ disturbed :
              \/ job'[j] = job[j]
              \/ /\ job[j].status = "PROCESSING" /\ job'[j].status = "PRINTED"
                 /\ job'[j].holder = job[j].holder
  <1>1. \A j \in Job :
          \/ job'[j] = job[j]
          \/ /\ j = i /\ Fence(d, i)
             /\ job'[j].status = "PRINTED" /\ job'[j].holder = d
    BY PrintedRows DEF IInv
  <1>2. PrintedIsOnPaper'
    BY <1>1 DEF IInv, OnPaper, PrintedIsOnPaper
  <1> QED
    BY <1>1, <1>2, RowsType DEF IInv, Fence

LEMMA ReportStep ==
  ASSUME IInv, NEW d \in Device, Report(d)
  PROVE  IInv'
  <1> DEFINE j == agent[d].job
  <1>1. /\ agent[d].at = "reporting" /\ j \in Job \cap disturbed
        /\ agent' = [agent EXCEPT ![d] = Idle]
        /\ UNCHANGED <<active, paper, disturbed, retries, incidents>>
    BY ReportIsDisturbed DEF Report
  <1>2. \/ job' = MarkFailed(d, j)
        \/ job' = job
    BY DEF Report
  <1>3. \/ late' = late
        \/ late' = late \cup {[op |-> "failed", device |-> d, job |-> j]}
    BY DEF Report
  <1>4. /\ job' \in [Job -> Row]
        /\ PrintedIsOnPaper'
        /\ \A i \in Job \ disturbed : job'[i] = job[i]
    <2>1. CASE job' = job
      BY <1>1, <2>1 DEF IInv, TypeOK, OnPaper, PrintedIsOnPaper
    <2> QED
      BY <1>1, <1>2, <2>1, FailedKeeps
  <1>5. TypeOK'
    BY <1>1, <1>3, <1>4 DEF IInv, TypeOK, Process, Busy, Idle, Request
  <1>6. OnPaper'
    BY <1>1, <1>3, <1>4 DEF IInv, TypeOK, OnPaper, Idle
  <1>7. FirstClaimOnly'
    <2>1. \A e \in Device : agent'[e].job \in Job => agent'[e] = agent[e]
      BY <1>1 DEF IInv, TypeOK, Idle
    <2>2. \A m \in late' : m.op = "failed" => m.job \in disturbed
      BY <1>1, <1>3 DEF IInv, FirstClaimOnly
    <2> QED
      BY <1>1, <1>4, <2>1, <2>2 DEF IInv, FirstClaimOnly, Untouched, HeldByWorker
  <1> QED
    BY <1>5, <1>6, <1>7 DEF IInv

LEMMA AcknowledgeStep ==
  ASSUME IInv, NEW d \in Device, Acknowledge(d) \/ AcknowledgeLost(d)
  PROVE  IInv'
  <1> DEFINE j == agent[d].job
  <1>1. /\ agent[d].at = "acking" /\ j \in Job /\ paper[j] >= Copies
        /\ UNCHANGED <<active, paper, disturbed, retries, incidents>>
    BY DEF IInv, TypeOK, OnPaper, Acknowledge, AcknowledgeLost, Process, Busy
  <1>2. agent' = agent \/ agent' = [agent EXCEPT ![d] = Idle]
    BY DEF Acknowledge, AcknowledgeLost
  <1>3. job' = MarkPrinted(d, j) \/ job' = job
    BY DEF Acknowledge, AcknowledgeLost
  <1>4. \/ late' = late
        \/ late' = late \cup {[op |-> "printed", device |-> d, job |-> j]}
    BY DEF Acknowledge, AcknowledgeLost
  <1>5. /\ job' \in [Job -> Row]
        /\ PrintedIsOnPaper'
        /\ \A i \in Job \ disturbed :
             \/ job'[i] = job[i]
             \/ /\ job[i].status = "PROCESSING" /\ job'[i].status = "PRINTED"
                /\ job'[i].holder = job[i].holder
    <2>1. CASE job' = job
      BY <1>1, <2>1 DEF IInv, TypeOK, OnPaper, PrintedIsOnPaper
    <2> QED
      BY <1>1, <1>3, <2>1, PrintedKeeps
  <1>6. \A e \in Device : agent'[e] = agent[e] \/ agent'[e] = Idle
    BY <1>2 DEF IInv, TypeOK
  <1>7. TypeOK'
    BY <1>1, <1>2, <1>4, <1>5 DEF IInv, TypeOK, Process, Busy, Idle, Request
  <1>8. OnPaper'
    BY <1>1, <1>4, <1>5, <1>6 DEF IInv, TypeOK, OnPaper, Idle
  <1>9. FirstClaimOnly'
    <2>1. \A e \in Device : agent'[e].job \in Job => agent'[e] = agent[e]
      BY <1>6 DEF Idle
    <2>2. \A m \in late' : m.op = "failed" => m.job \in disturbed
      BY <1>4 DEF IInv, FirstClaimOnly
    <2> QED
      BY <1>1, <1>5, <2>1, <2>2 DEF IInv, FirstClaimOnly, Untouched, HeldByWorker
  <1> QED
    BY <1>7, <1>8, <1>9 DEF IInv

LEMMA ServeLateStep ==
  ASSUME IInv, NEW m \in late, ServeLate(m)
  PROVE  IInv'
  <1>1. /\ late' \subseteq late /\ m.device \in Device
        /\ UNCHANGED <<agent, active, paper, disturbed, retries, incidents>>
    BY DEF IInv, TypeOK, Request, ServeLate
  <1>2. CASE \/ job' = Swept
             \/ \E i \in Job : Eligible(i) /\ job' = Claimed(m.device, i)
    BY <1>1, <1>2, UnheardClaim
  <1>3. CASE m.op = "printed" /\ job' = MarkPrinted(m.device, m.job)
    <2>1. m.job \in Job /\ paper[m.job] >= Copies
      BY <1>3 DEF IInv, TypeOK, OnPaper, Request
    <2>2. /\ job' \in [Job -> Row]
          /\ PrintedIsOnPaper'
          /\ \A i \in Job \ disturbed :
               \/ job'[i] = job[i]
               \/ /\ job[i].status = "PROCESSING" /\ job'[i].status = "PRINTED"
                  /\ job'[i].holder = job[i].holder
      BY <1>1, <1>3, <2>1, PrintedKeeps
    <2>3. TypeOK'
      BY <1>1, <2>2 DEF IInv, TypeOK
    <2>4. OnPaper'
      BY <1>1, <2>2 DEF IInv, OnPaper
    <2>5. FirstClaimOnly'
      BY <1>1, <2>2 DEF IInv, FirstClaimOnly, Untouched, HeldByWorker
    <2> QED
      BY <2>3, <2>4, <2>5 DEF IInv
  <1>4. CASE m.op = "failed" /\ job' = MarkFailed(m.device, m.job)
    <2>1. m.job \in Job \cap disturbed
      BY <1>4 DEF IInv, TypeOK, FirstClaimOnly, Request
    <2>2. /\ job' \in [Job -> Row]
          /\ PrintedIsOnPaper'
          /\ \A i \in Job \ disturbed : job'[i] = job[i]
      BY <1>1, <1>4, <2>1, FailedKeeps
    <2>3. TypeOK'
      BY <1>1, <2>2 DEF IInv, TypeOK
    <2>4. OnPaper'
      BY <1>1, <2>2 DEF IInv, OnPaper
    <2>5. FirstClaimOnly'
      BY <1>1, <2>2 DEF IInv, FirstClaimOnly, Untouched, HeldByWorker
    <2> QED
      BY <2>3, <2>4, <2>5 DEF IInv
  <1> QED
    BY <1>2, <1>3, <1>4 DEF ServeLate

-----------------------------------------------------------------------------
LEMMA StepIInv == IInv /\ [Next]_vars => IInv'
  <1> SUFFICES ASSUME IInv, [Next]_vars PROVE IInv'
    OBVIOUS
  <1>1. CASE UNCHANGED vars
    BY <1>1 DEF vars, IInv, TypeOK, OnPaper, PrintedIsOnPaper, FirstClaimOnly,
                Untouched, HeldByWorker
  <1>2. ASSUME NEW j \in Job, JobStep(j) PROVE IInv'
    BY <1>2, EnqueueStep, RetryStep, DeadlineStep DEF JobStep
  <1>3. ASSUME NEW d \in Device, AgentStep(d) PROVE IInv'
    BY <1>3, ClaimStep, ClaimUnheardStep, PrintCopyStep, PrintFailsStep, ReportStep,
       AcknowledgeStep, ProcessStep DEF AgentStep
  <1>4. ASSUME NEW m \in late, ServeLate(m) PROVE IInv'
    BY <1>4, ServeLateStep
  <1> QED
    BY <1>1, <1>2, <1>3, <1>4 DEF Next

LEMMA Invariance == Spec => []IInv
  BY InitIInv, StepIInv, PTL DEF Spec

(* Types: rows, agents and requests, with no copy left over.               *)
THEOREM TypeCorrect == Spec => []TypeOK
  <1>1. IInv => TypeOK
    BY DEF IInv
  <1> QED
    BY <1>1, Invariance, PTL

(* A row says PRINTED only when every copy was accepted by a spooler,      *)
(* whichever claim the acknowledgement came from.                          *)
THEOREM PaperSafety == Spec => []PrintedIsOnPaper
  <1>1. IInv => PrintedIsOnPaper
    BY DEF IInv, OnPaper
  <1> QED
    BY <1>1, Invariance, PTL

(* Lost answers and messages, late requests, crashes and revocations never *)
(* make a second print by themselves: that takes an expired lease or a     *)
(* failed print.                                                           *)
THEOREM PrintsOnceSafety == Spec => []UndisturbedPrintsOnce
  <1>1. IInv => UndisturbedPrintsOnce
    BY DEF IInv, FirstClaimOnly, UndisturbedPrintsOnce
  <1> QED
    BY <1>1, Invariance, PTL

(* A printed row is never reopened.                                        *)
THEOREM FinalSafety == Spec => PrintedIsFinal
  <1> DEFINE Keeps == \A j \in Job : job[j].status = "PRINTED" => job'[j].status = "PRINTED"
  <1>1. IInv /\ [Next]_vars => [Keeps]_vars
    <2> SUFFICES ASSUME IInv, Next PROVE Keeps
      OBVIOUS
    <2>1. \A j \in Job : Eligible(j) => job[j].status # "PRINTED"
      BY DEF Eligible
    <2>2. \A i, j \in Job : \A d \in Device :
            /\ job[j].status = "PRINTED" => Swept[j].status = "PRINTED"
            /\ Eligible(i) /\ job[j].status = "PRINTED" => Claimed(d, i)[j].status = "PRINTED"
            /\ job[j].status = "PRINTED" => MarkPrinted(d, i)[j].status = "PRINTED"
            /\ job[j].status = "PRINTED" => MarkFailed(d, i)[j].status = "PRINTED"
      BY <2>1, SweptRows, ClaimedRows, PrintedRows, FailedRows DEF IInv, GivenUp, Fence
    <2>3. ASSUME NEW j \in Job, JobStep(j) PROVE Keeps
      BY <2>3 DEF JobStep, Enqueue, Retry, LeaseExpires, BackoffEnds, RowBecomes, IInv, TypeOK
    <2>4. ASSUME NEW d \in Device, AgentStep(d) PROVE Keeps
      <3>1. agent[d].at \in Busy => agent[d].job \in Job
        BY DEF IInv, TypeOK, Process
      <3>2. \/ job' = job
            \/ job' = Swept
            \/ \E i \in Job : Eligible(i) /\ job' = Claimed(d, i)
            \/ \E i \in Job : job' = MarkPrinted(d, i) \/ job' = MarkFailed(d, i)
        BY <2>4, <3>1 DEF AgentStep, Claim, ClaimEmpty, ClaimLost, PrintCopy, PrintFails, Report,
           Acknowledge, AcknowledgeLost, Crash, Start, Revoke, Issue, Busy
      <3> QED
        BY <2>2, <3>2
    <2>5. ASSUME NEW m \in late, ServeLate(m) PROVE Keeps
      <3>1. m.device \in Device /\ (m.op # "claim" => m.job \in Job)
        BY DEF IInv, TypeOK, Request
      <3> QED
        BY <2>2, <2>5, <3>1 DEF ServeLate
    <2> QED
      BY <2>3, <2>4, <2>5 DEF Next
  <1> QED
    BY <1>1, Invariance, PTL DEF Spec, PrintedIsFinal
=============================================================================
