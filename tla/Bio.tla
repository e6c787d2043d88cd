-------------------------------- MODULE Bio --------------------------------
(***************************************************************************)
(* src/asyn_network/bio.c: the background job system, one type of job.     *)
(* Every array of bio.c is indexed by the type and nothing is shared       *)
(* between two types, so the system is this module once per type.          *)
(*                                                                         *)
(* bio_mutex protects every shared variable, so a critical section is one  *)
(* step; what happens between two critical sections (a job being run) is   *)
(* visible to the other threads.  A worker is awake (it wants the mutex    *)
(* and will look at the queue), asleep in pthread_cond_wait, or has taken  *)
(* a job and runs it without the mutex.                                    *)
(***************************************************************************)
EXTENDS Naturals, Sequences, FiniteSets

CONSTANTS Workers,     \* the BIO_TASK_THREAD_NUM threads of the type
          MaxPending,  \* BIO_MAX_PENDING_NUM
          NoJob,
          MaxJobs      \* bound: calls of bioCreateBackgroundJob

ASSUME WorkersAssumption == IsFiniteSet(Workers)
ASSUME MaxPendingAssumption == MaxPending \in Nat
ASSUME NoJobAssumption == NoJob \notin Nat
ASSUME MaxJobsAssumption == MaxJobs \in Nat

VARIABLES
  queue,     \* bio_jobs[type]: jobs, named by the call that created them
  pending,   \* bio_pending[type]
  state,     \* state[w]: what worker w is doing
  job,       \* job[w]: its local variable, the job it has popped last
  calls,     \* calls of bioCreateBackgroundJob so far
  refused,   \* how many of them returned -1
  accepted,  \* history: the jobs put in the queue, in order
  popped,    \* history: the jobs taken out of the queue, in order
  finished   \* history: the jobs whose func returned

vars == <<queue, pending, state, job, calls, refused, accepted, popped, finished>>

JobIds == 1..MaxJobs
States == {"awake", "asleep", "taken", "running"}

TypeOK ==
  /\ queue \in Seq(JobIds)
  /\ pending \in Nat
  /\ state \in [Workers -> States]
  /\ job \in [Workers -> JobIds \cup {NoJob}]
  /\ calls \in 0..MaxJobs
  /\ refused \in 0..MaxJobs
  /\ accepted \in Seq(JobIds)
  /\ popped \in Seq(JobIds)
  /\ finished \in SUBSET JobIds

\* bioInit
Init ==
  /\ queue = << >>
  /\ pending = 0
  /\ state = [w \in Workers |-> "awake"]
  /\ job = [w \in Workers |-> NoJob]
  /\ calls = 0
  /\ refused = 0
  /\ accepted = << >>
  /\ popped = << >>
  /\ finished = {}

-----------------------------------------------------------------------------
Asleep == {w \in Workers : state[w] = "asleep"}

\* pthread_cond_signal: at least one sleeper wakes up, if there is any.
Signal ==
  \/ Asleep = {} /\ UNCHANGED state
  \/ \E w \in Asleep : state' = [state EXCEPT ![w] = "awake"]

\* bioCreateBackgroundJob, the queue is considered full: -1 is returned, after
\* the counter has been incremented.
Refuse ==
  /\ calls < MaxJobs
  /\ pending + 1 >= MaxPending
  /\ calls' = calls + 1
  /\ pending' = pending + 1
  /\ refused' = refused + 1
  /\ UNCHANGED <<queue, state, job, accepted, popped, finished>>

\* Mutant: only the job that finds the queue empty signals.
AcceptSignalsFirst ==
  /\ calls < MaxJobs
  /\ pending + 1 < MaxPending
  /\ calls' = calls + 1
  /\ pending' = pending + 1
  /\ queue' = Append(queue, calls + 1)
  /\ accepted' = Append(accepted, calls + 1)
  /\ IF queue = << >> THEN Signal ELSE UNCHANGED state
  /\ UNCHANGED <<job, refused, popped, finished>>

\* Mutant: > instead of >= (189): the job that reaches the limit is taken on.
AcceptAtLimit ==
  /\ calls < MaxJobs
  /\ pending + 1 <= MaxPending
  /\ calls' = calls + 1
  /\ pending' = pending + 1
  /\ queue' = Append(queue, calls + 1)
  /\ accepted' = Append(accepted, calls + 1)
  /\ Signal
  /\ UNCHANGED <<job, refused, popped, finished>>

\* Mutant: nobody is signalled.
AcceptSilently ==
  /\ calls < MaxJobs
  /\ pending + 1 < MaxPending
  /\ calls' = calls + 1
  /\ pending' = pending + 1
  /\ queue' = Append(queue, calls + 1)
  /\ accepted' = Append(accepted, calls + 1)
  /\ UNCHANGED <<state, job, refused, popped, finished>>

\* bioCreateBackgroundJob, the job goes to the tail of the queue.
Accept ==
  /\ calls < MaxJobs
  /\ pending + 1 < MaxPending
  /\ calls' = calls + 1
  /\ pending' = pending + 1
  /\ queue' = Append(queue, calls + 1)
  /\ accepted' = Append(accepted, calls + 1)
  /\ Signal
  /\ UNCHANGED <<job, refused, popped, finished>>

\* bioProcessBackgroundJobs: nothing to do, wait on the condition variable.
Sleep(w) ==
  /\ state[w] = "awake"
  /\ queue = << >>
  /\ state' = [state EXCEPT ![w] = "asleep"]
  /\ UNCHANGED <<queue, pending, job, calls, refused, accepted, popped, finished>>

\* Mutant: listLast instead of listFirst.
PopNewest(w) ==
  /\ state[w] = "awake"
  /\ queue # << >>
  /\ job' = [job EXCEPT ![w] = queue[Len(queue)]]
  /\ popped' = Append(popped, queue[Len(queue)])
  /\ queue' = SubSeq(queue, 1, Len(queue) - 1)
  /\ pending' = pending - 1
  /\ state' = [state EXCEPT ![w] = "taken"]
  /\ UNCHANGED <<calls, refused, accepted, finished>>

\* Mutant: the job is still in the queue while it runs, as when lines 269-270
\* did what lines 243-244 do now.
PopInPlace(w) ==
  /\ state[w] = "awake"
  /\ queue # << >>
  /\ job' = [job EXCEPT ![w] = Head(queue)]
  /\ popped' = Append(popped, Head(queue))
  /\ state' = [state EXCEPT ![w] = "taken"]
  /\ UNCHANGED <<queue, pending, calls, refused, accepted, finished>>

\* The oldest job leaves the queue and the counter, and the mutex is released.
Pop(w) ==
  /\ state[w] = "awake"
  /\ queue # << >>
  /\ job' = [job EXCEPT ![w] = Head(queue)]
  /\ popped' = Append(popped, Head(queue))
  /\ queue' = Tail(queue)
  /\ pending' = pending - 1
  /\ state' = [state EXCEPT ![w] = "taken"]
  /\ UNCHANGED <<calls, refused, accepted, finished>>

\* job->func is called ...
Start(w) ==
  /\ state[w] = "taken"
  /\ state' = [state EXCEPT ![w] = "running"]
  /\ UNCHANGED <<queue, pending, job, calls, refused, accepted, popped, finished>>

\* ... and returns; the job is freed, the local pointer to it stays, and the
\* worker goes for the mutex again.
Finish(w) ==
  /\ state[w] = "running"
  /\ finished' = finished \cup {job[w]}
  /\ state' = [state EXCEPT ![w] = "awake"]
  /\ UNCHANGED <<queue, pending, job, calls, refused, accepted, popped>>

\* pthread_cond_wait may return without a signal.
WakeSpuriously(w) ==
  /\ state[w] = "asleep"
  /\ state' = [state EXCEPT ![w] = "awake"]
  /\ UNCHANGED <<queue, pending, job, calls, refused, accepted, popped, finished>>

\* bioPendingJobsOfType
PendingJobs == pending

Work(w) == Sleep(w) \/ Pop(w) \/ Start(w) \/ Finish(w)

Next ==
  \/ Refuse
  \/ Accept
  \/ \E w \in Workers : Work(w) \/ WakeSpuriously(w)

Spec == Init /\ [][Next]_vars

\* Every worker that holds a job runs it, and gets the mutex in the end; no
\* fairness is assumed of the callers, nor of spurious wakeups.
FairSpec == Spec /\ \A w \in Workers : WF_vars(Work(w))

-----------------------------------------------------------------------------
\* Jobs leave the queue in the order they entered it, none is dropped and none
\* is taken twice (bio.c:196, 239-243).
TakenInOrder == accepted = popped \o queue

Holders == {w \in Workers : state[w] \in {"taken", "running"}}

\* A job that left the queue is in the hands of exactly one worker or is done,
\* never both: no two workers run one job, none runs a job that was freed, and
\* none is lost between the queue and a worker (bio.c:239-263).
InOneHand ==
  /\ \A v, w \in Holders : job[v] = job[w] => v = w
  /\ \A w \in Holders : job[w] \notin finished
  /\ {popped[i] : i \in 1..Len(popped)} =
       finished \cup {job[w] : w \in Holders}

\* The limit holds for the jobs that wait, although the counter that is compared
\* with it counts refused calls as well, for ever (bio.c:188-193): taking jobs and
\* refusing calls, in any order, never make it count less than what is queued.
BacklogIsLimited ==
  /\ Len(queue) <= PendingJobs
  /\ queue # << >> => Len(queue) < MaxPending

\* No wakeup is lost: with k jobs in the queue at least k workers, or all of
\* them, are awake or will look at the queue again before they sleep; it takes
\* one signal per job and a sleeper that rechecks the queue (bio.c:198,
\* 230-233).
EnoughAwake ==
  \/ Asleep = {}
  \/ Len(queue) <= Cardinality(Workers) - Cardinality(Asleep)

\* Every job put in the queue is run to its end.
JobsFinish ==
  \A j \in JobIds :
     (\E i \in 1..Len(accepted) : accepted[i] = j) ~> (j \in finished)

=============================================================================
