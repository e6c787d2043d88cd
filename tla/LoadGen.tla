------------------------------ MODULE LoadGen ------------------------------
(***************************************************************************)
(* src/loadgen/gen.go with lib/gotickets.go: the load generator.           *)
(*                                                                         *)
(* Start and Stop are called by any number of goroutines; the status word  *)
(* they compare-and-swap is the only lock.  One goroutine runs genLoad and *)
(* starts one goroutine per call; each call also has a timer callback.     *)
(* All of them report on one result channel, which the end of genLoad      *)
(* closes.  A panic that no deferred function recovers ends the process.   *)
(*                                                                         *)
(* One step is one atomic operation, channel operation or call of the      *)
(* Caller.  Contents of requests and responses are left out.               *)
(***************************************************************************)
EXTENDS Naturals, FiniteSets

CONSTANTS Starters, Stoppers,  \* goroutines that call Start, Stop
          Concurrency,         \* the number of goroutine tickets
          Capacity,            \* capacity of the result channel
          CallerPanics,        \* calls whose BuildReq, Call or CheckResp may panic
          MaxStarts,           \* bound: successful starts
          MaxCalls             \* bound: calls made

ASSUME LoadGenAssumption ==
  /\ Concurrency \in Nat \ {0}
  /\ Capacity \in Nat
  /\ MaxStarts \in Nat /\ MaxCalls \in Nat
  /\ CallerPanics \subseteq 1..MaxCalls

Runs == 1..MaxStarts
Calls == 1..MaxCalls

VARIABLES
  status,     \* gen.status
  run,        \* which context gen.ctx and gen.cancelFunc refer to; 0: none
  ctxDone,    \* the contexts that are cancelled or timed out
  closed,     \* gen.resultCh is closed
  buffered,   \* results in the channel buffer
  tickets,    \* tickets left in the pool
  callCount,  \* gen.callCount
  starter,    \* where a goroutine is inside Start
  stopper,    \* where a goroutine is inside Stop
  generator,  \* where the genLoad of a run is
  called,     \* calls made so far
  call,       \* where the goroutine of a call is
  timer,      \* where the timer callback of a call is
  callStatus, \* 0: in progress, 1: complete, 2: timed out
  reports,    \* history: the results handed to sendResult, per call and kind
  crashed     \* an unrecovered panic ended the process

control == <<status, run, ctxDone, starter, stopper, generator>>
results == <<closed, buffered>>
callVars == <<called, call, timer, callStatus, reports>>
vars == <<control, results, tickets, callCount, callVars, crashed>>

ReportKinds == {"result", "timeout", "fatal"}

TypeOK ==
  /\ status \in {"original", "starting", "started", "stopping", "stopped"}
  /\ run \in 0..MaxStarts
  /\ ctxDone \subseteq Runs
  /\ closed \in BOOLEAN
  /\ buffered \in 0..Capacity
  /\ tickets \in 0..Concurrency
  /\ callCount \in 0..MaxCalls
  /\ starter \in [Starters -> {"idle", "prepare", "go"}]
  /\ stopper \in [Stoppers -> {"idle", "cancel", "spin"}]
  /\ generator \in [Runs -> {"none", "check", "take", "throttle", "stopping",
                             "closing", "closed", "ended"}]
  /\ called \in 0..MaxCalls
  /\ call \in [Calls -> {"none", "begin", "calling", "answered", "checking",
                         "send", "push", "recover", "resend", "repush",
                         "return", "ended"}]
  /\ timer \in [Calls -> {"off", "armed", "send", "push", "ended"}]
  /\ callStatus \in [Calls -> 0..2]
  /\ reports \in [Calls -> [ReportKinds -> 0..2]]
  /\ crashed \in BOOLEAN

Init ==
  /\ status = "original" /\ run = 0 /\ ctxDone = {}
  /\ closed = FALSE /\ buffered = 0
  /\ tickets = Concurrency
  /\ callCount = 0
  /\ starter = [s \in Starters |-> "idle"]
  /\ stopper = [s \in Stoppers |-> "idle"]
  /\ generator = [r \in Runs |-> "none"]
  /\ called = 0
  /\ call = [c \in Calls |-> "none"]
  /\ timer = [c \in Calls |-> "off"]
  /\ callStatus = [c \in Calls |-> 0]
  /\ reports = [c \in Calls |-> [k \in ReportKinds |-> 0]]
  /\ crashed = FALSE

-----------------------------------------------------------------------------
(* Start, Stop and the contexts.                                           *)

\* Start: ORIGINAL -> STARTING, or else STOPPED -> STARTING.
StartCas(s) ==
  /\ starter[s] = "idle" /\ run < MaxStarts
  /\ status \in {"original", "stopped"}
  /\ status' = "starting"
  /\ starter' = [starter EXCEPT ![s] = "prepare"]
  /\ UNCHANGED <<run, ctxDone, stopper, generator, results, tickets, callCount,
                 callVars, crashed>>

\* A new context with a timeout; the call counter is reset by a plain store.
StartPrepare(s) ==
  /\ starter[s] = "prepare"
  /\ run' = run + 1
  /\ callCount' = 0
  /\ starter' = [starter EXCEPT ![s] = "go"]
  /\ UNCHANGED <<status, ctxDone, stopper, generator, results, tickets,
                 callVars, crashed>>

\* The status becomes STARTED and genLoad runs.
StartGo(s) ==
  /\ starter[s] = "go"
  /\ status' = "started"
  /\ generator' = [generator EXCEPT ![run] = "check"]
  /\ starter' = [starter EXCEPT ![s] = "idle"]
  /\ UNCHANGED <<run, ctxDone, stopper, results, tickets, callCount, callVars,
                 crashed>>

\* Stop: STARTED -> STOPPING.
StopCas(s) ==
  /\ stopper[s] = "idle"
  /\ status = "started"
  /\ status' = "stopping"
  /\ stopper' = [stopper EXCEPT ![s] = "cancel"]
  /\ UNCHANGED <<run, ctxDone, starter, generator, results, tickets, callCount,
                 callVars, crashed>>

\* Stop: gen.cancelFunc(), whichever run it belongs to by now.
StopCancel(s) ==
  /\ stopper[s] = "cancel"
  /\ ctxDone' = ctxDone \cup {run}
  /\ stopper' = [stopper EXCEPT ![s] = "spin"]
  /\ UNCHANGED <<status, run, starter, generator, results, tickets, callCount,
                 callVars, crashed>>

\* Stop polls the status until it is STOPPED.
StopReturn(s) ==
  /\ stopper[s] = "spin"
  /\ status = "stopped"
  /\ stopper' = [stopper EXCEPT ![s] = "idle"]
  /\ UNCHANGED <<status, run, ctxDone, starter, generator, results, tickets,
                 callCount, callVars, crashed>>

\* The context of the current run reaches its deadline, gen.durationNS.
DurationExpires ==
  /\ run \in Runs \ ctxDone
  /\ ctxDone' = ctxDone \cup {run}
  /\ UNCHANGED <<status, run, starter, stopper, generator, results, tickets,
                 callCount, callVars, crashed>>

-----------------------------------------------------------------------------
(* The ticket pool: a channel filled with as many tickets as it can hold.  *)

TakeTicket == tickets > 0 /\ tickets' = tickets - 1
ReturnTicket == tickets' = tickets + 1

-----------------------------------------------------------------------------
(* genLoad and prepareToStop.                                              *)

GenGo(r, label) == generator' = [generator EXCEPT ![r] = label]

\* Mutant of GenStopping: STOPPED is stored before the channel is closed.
GenStoppingStopped(r) ==
  /\ generator[r] = "stopping"
  /\ status' = "stopped"
  /\ GenGo(r, "closing")
  /\ UNCHANGED <<run, ctxDone, starter, stopper, results, tickets, callCount,
                 callVars, crashed>>

\* Mutant of GenStopped: a compare-and-swap from STARTED, lost if Stop was first.
GenStoppedByCas(r) ==
  /\ generator[r] = "closed"
  /\ status' = IF status = "started" THEN "stopped" ELSE status
  /\ GenGo(r, "ended")
  /\ UNCHANGED <<run, ctxDone, starter, stopper, results, tickets, callCount,
                 callVars, crashed>>

\* The non-blocking look at gen.ctx.Done() at the head of the loop.
GenCheck(r) ==
  /\ generator[r] = "check"
  /\ GenGo(r, IF run \in ctxDone THEN "stopping" ELSE "take")
  /\ UNCHANGED <<status, run, ctxDone, starter, stopper, results, tickets,
                 callCount, callVars, crashed>>

\* asyncCall: a ticket is taken (genLoad blocks while there is none) and the
\* goroutine of the call is started.
GenTake(r) ==
  /\ generator[r] = "take"
  /\ \/ /\ called < MaxCalls
        /\ TakeTicket
        /\ called' = called + 1
        /\ call' = [call EXCEPT ![called + 1] = "begin"]
     \/ \* beyond the bound a call begins and ends at once
        called = MaxCalls /\ tickets > 0 /\ UNCHANGED <<tickets, called, call>>
  /\ GenGo(r, "throttle")
  /\ UNCHANGED <<status, run, ctxDone, starter, stopper, results, callCount,
                 timer, callStatus, reports, crashed>>

\* The throttle ticks, or the context ends: select takes either if both did.
GenThrottle(r) ==
  /\ generator[r] = "throttle"
  /\ \/ GenGo(r, "check")
     \/ run \in ctxDone /\ GenGo(r, "stopping")
  /\ UNCHANGED <<status, run, ctxDone, starter, stopper, results, tickets,
                 callCount, callVars, crashed>>

\* prepareToStop: STARTED -> STOPPING unless Stop has done it ...
GenStopping(r) ==
  /\ generator[r] = "stopping"
  /\ status' = IF status = "started" THEN "stopping" ELSE status
  /\ GenGo(r, "closing")
  /\ UNCHANGED <<run, ctxDone, starter, stopper, results, tickets, callCount,
                 callVars, crashed>>

\* ... the channel is closed; closing it a second time panics ...
GenClose(r) ==
  /\ generator[r] = "closing"
  /\ crashed' = closed
  /\ closed' = TRUE
  /\ GenGo(r, "closed")
  /\ UNCHANGED <<status, run, ctxDone, starter, stopper, buffered, tickets,
                 callCount, callVars>>

\* ... and STOPPED is stored, whatever the status was.
GenStopped(r) ==
  /\ generator[r] = "closed"
  /\ status' = "stopped"
  /\ GenGo(r, "ended")
  /\ UNCHANGED <<run, ctxDone, starter, stopper, results, tickets, callCount,
                 callVars, crashed>>

-----------------------------------------------------------------------------
(* One call: its goroutine, its timer and sendResult.                      *)

CallGo(c, label) == call' = [call EXCEPT ![c] = label]
TimerGo(c, label) == timer' = [timer EXCEPT ![c] = label]
Report(c, kind) == reports' = [reports EXCEPT ![c][kind] = @ + 1]

\* BuildReq, then time.AfterFunc, then callOne counts the call and enters Call.
CallBegin(c) ==
  /\ call[c] = "begin"
  /\ \/ /\ CallGo(c, "calling") /\ TimerGo(c, "armed")
        /\ callCount' = callCount + 1
     \/ /\ c \in CallerPanics
        /\ CallGo(c, "recover") /\ UNCHANGED <<timer, callCount>>
  /\ UNCHANGED <<control, results, tickets, called, callStatus, reports, crashed>>

\* Call returns (a response or an error) or panics with the timer running.
CallAnswer(c) ==
  /\ call[c] = "calling"
  /\ \/ CallGo(c, "answered")
     \/ c \in CallerPanics /\ CallGo(c, "recover")
  /\ UNCHANGED <<control, results, tickets, callCount, called, timer,
                 callStatus, reports, crashed>>

\* The compare-and-swap 0 -> 1; on success the timer is stopped, on failure
\* the timer has reported the call and the goroutine ends.
CallComplete(c) ==
  /\ call[c] = "answered"
  /\ \/ /\ callStatus[c] = 0
        /\ callStatus' = [callStatus EXCEPT ![c] = 1]
        /\ TimerGo(c, "ended")
        /\ CallGo(c, "checking")
     \/ /\ callStatus[c] # 0
        /\ CallGo(c, "return")
        /\ UNCHANGED <<timer, callStatus>>
  /\ UNCHANGED <<control, results, tickets, callCount, called, reports, crashed>>

\* The result is made, by CheckResp unless the call failed, and sent.
CallCheck(c) ==
  /\ call[c] = "checking"
  /\ \/ CallGo(c, "send") /\ Report(c, "result")
     \/ c \in CallerPanics /\ CallGo(c, "recover") /\ UNCHANGED reports
  /\ UNCHANGED <<control, results, tickets, callCount, called, timer,
                 callStatus, crashed>>

\* The deferred function: recover() and a result with the fatal code.
CallRecover(c) ==
  /\ call[c] = "recover"
  /\ CallGo(c, "resend") /\ Report(c, "fatal")
  /\ UNCHANGED <<control, results, tickets, callCount, called, timer,
                 callStatus, crashed>>

\* sendResult looks at the status first: a result is ignored unless STARTED.
CallSend(c) ==
  /\ \/ call[c] = "send" /\ CallGo(c, IF status = "started" THEN "push" ELSE "return")
     \/ call[c] = "resend" /\ CallGo(c, IF status = "started" THEN "repush" ELSE "return")
  /\ UNCHANGED <<control, results, tickets, callCount, called, timer,
                 callStatus, reports, crashed>>

\* Mutant: a blocking send.
PushBlocking ==
  /\ ~closed
  /\ buffered < Capacity
  /\ buffered' = buffered + 1
  /\ UNCHANGED closed

\* The non-blocking send: the result is ignored when the channel is full.
Push ==
  /\ ~closed
  /\ buffered' = IF buffered < Capacity THEN buffered + 1 ELSE buffered
  /\ UNCHANGED closed

CallPush(c) ==
  /\ \/ call[c] \in {"push", "repush"} /\ Push /\ CallGo(c, "return") /\ UNCHANGED crashed
     \* sending on a closed channel panics: recovered in the body of the call,
     \* fatal in the deferred function, which returns no ticket then
     \/ call[c] = "push" /\ closed /\ CallGo(c, "recover") /\ UNCHANGED <<results, crashed>>
     \/ call[c] = "repush" /\ closed /\ crashed' = TRUE /\ UNCHANGED <<call, results>>
  /\ UNCHANGED <<control, tickets, callCount, called, timer, callStatus, reports>>

\* The deferred function ends: the ticket goes back to the pool.
CallReturn(c) ==
  /\ call[c] = "return"
  /\ ReturnTicket
  /\ CallGo(c, "ended")
  /\ UNCHANGED <<control, results, callCount, called, timer, callStatus,
                 reports, crashed>>

\* Mutant: the callback looks at the call's status but does not set it.
TimerFireUnmarked(c) ==
  /\ timer[c] = "armed"
  /\ \/ /\ callStatus[c] = 0
        /\ TimerGo(c, "send") /\ Report(c, "timeout") /\ UNCHANGED callStatus
     \/ /\ callStatus[c] # 0
        /\ TimerGo(c, "ended") /\ UNCHANGED <<callStatus, reports>>
  /\ UNCHANGED <<control, results, tickets, callCount, called, call, crashed>>

\* The timer fires: compare-and-swap 0 -> 2.
TimerFire(c) ==
  /\ timer[c] = "armed"
  /\ \/ /\ callStatus[c] = 0
        /\ callStatus' = [callStatus EXCEPT ![c] = 2]
        /\ TimerGo(c, "send") /\ Report(c, "timeout")
     \/ /\ callStatus[c] # 0
        /\ TimerGo(c, "ended") /\ UNCHANGED <<callStatus, reports>>
  /\ UNCHANGED <<control, results, tickets, callCount, called, call, crashed>>

TimerSend(c) ==
  /\ timer[c] = "send"
  /\ TimerGo(c, IF status = "started" THEN "push" ELSE "ended")
  /\ UNCHANGED <<control, results, tickets, callCount, called, call,
                 callStatus, reports, crashed>>

\* Nothing recovers a panic in a timer callback.
TimerPush(c) ==
  /\ timer[c] = "push"
  /\ \/ Push /\ UNCHANGED crashed
     \/ closed /\ crashed' = TRUE /\ UNCHANGED results
  /\ TimerGo(c, "ended")
  /\ UNCHANGED <<control, tickets, callCount, called, call, callStatus, reports>>

\* The owner of the channel receives a result.
Receive ==
  /\ buffered > 0
  /\ buffered' = buffered - 1
  /\ UNCHANGED <<control, closed, tickets, callCount, callVars, crashed>>

-----------------------------------------------------------------------------
StartStep(s) == StartCas(s) \/ StartPrepare(s) \/ StartGo(s)
StopStep(s) == StopCancel(s) \/ StopReturn(s)
GenStep(r) == GenCheck(r) \/ GenTake(r) \/ GenThrottle(r) \/ GenStopping(r)
              \/ GenClose(r) \/ GenStopped(r)
CallStep(c) == CallBegin(c) \/ CallAnswer(c) \/ CallComplete(c) \/ CallCheck(c)
               \/ CallRecover(c) \/ CallSend(c) \/ CallPush(c) \/ CallReturn(c)
TimerStep(c) == TimerFire(c) \/ TimerSend(c) \/ TimerPush(c)

Next ==
  /\ ~crashed
  /\ \/ \E s \in Starters : StartStep(s)
     \/ \E s \in Stoppers : StopCas(s) \/ StopStep(s)
     \/ DurationExpires
     \/ \E r \in Runs : GenStep(r)
     \/ \E c \in Calls : CallStep(c) \/ TimerStep(c)
     \/ Receive

Spec == Init /\ [][Next]_vars

UserStep ==
  \/ \E s \in Starters : StartPrepare(s) \/ StartGo(s)
  \/ \E s \in Stoppers : StopStep(s)

\* Some goroutine of each kind that can run does: this is less than the Go
\* scheduler promises, and enough for a bounded number of calls.  Call returns
\* (it is given the timeout, and genLoad waits for a ticket without looking at
\* the context).  Nobody has to call Start or Stop or to receive.
FairSpec ==
  /\ Spec
  /\ WF_vars(~crashed /\ (UserStep \/ DurationExpires))
  /\ WF_vars(~crashed /\ \E r \in Runs : GenStep(r))
  /\ WF_vars(~crashed /\ \E c \in Calls : CallStep(c) \/ TimerStep(c))

-----------------------------------------------------------------------------
\* Tickets are neither lost nor made: every call goroutine holds exactly one
\* from genLoad's Take to its deferred Return, panics included, so never more
\* than gen.concurrency of them run (gen.go:121-143, gotickets.go:69-75).
TicketsBalance ==
  tickets + Cardinality({c \in Calls : call[c] \notin {"none", "ended"}})
    = Concurrency

Active(r) == generator[r] \notin {"none", "ended"}
Starting(s) == starter[s] # "idle"

\* The status word is a lock: while a Start is under way nothing runs, at most
\* one genLoad runs at any time, and it runs exactly while the status is
\* STARTED or STOPPING, whatever Starts, Stops and deadlines race
\* (gen.go:217-225, 261-298, 301-315).
StatusMatchesGenerator ==
  /\ status = "starting" <=> \E s \in Starters : Starting(s)
  /\ \A s, q \in Starters : Starting(s) /\ Starting(q) => s = q
  /\ status \in {"started", "stopping"} <=> \E r \in Runs : Active(r)
  /\ \A r \in Runs : Active(r) => r = run

\* The answer and the timeout of a call exclude each other, however late the
\* one and early the other, and nothing is reported twice (gen.go:149-187).  A
\* panic is reported besides them in two cases only: Call panicked, and the
\* timer, which nothing stops then, reports the timeout as well (135-163); or
\* the result was sent on a closed channel (200) and is followed by the panic
\* of the send.
ReportsExclude ==
  \A c \in Calls :
     LET r == reports[c] IN
     /\ r["result"] + r["timeout"] <= 1
     /\ r["fatal"] <= 1
     /\ r["fatal"] = 1 /\ r["timeout"] = 1 => c \in CallerPanics
     /\ r["fatal"] = 1 /\ r["result"] = 1 => closed

\* No call ends in silence: its result, its timeout or its panic was handed to
\* sendResult (gen.go:123-143, 163, 187).
EveryCallReports ==
  \A c \in Calls : call[c] = "ended" =>
     LET r == reports[c] IN r["result"] + r["timeout"] + r["fatal"] >= 1

\* A call takes one ticket and gives one back and reports before it ends:
\* its answer or its timeout and not both, and its panic, alone or besides one
\* of them where ReportsExclude says so, however answer, timeout, panic and
\* shutdown fall (gen.go:117-190).
CallsAreAccountedFor == TypeOK /\ TicketsBalance /\ ReportsExclude /\ EveryCallReports

\* Stop returns: the status it polls for is stored by genLoad, which gets its
\* ticket or the end of the context sooner or later.
StopReturns ==
  \A s \in Stoppers : (stopper[s] # "idle") ~> (stopper[s] = "idle" \/ crashed)

\* The tests range over the result channel: it is closed in the end, by Stop
\* or by the deadline (gen_test.go:49, 111).
RangeEnds == (status = "started") ~> (closed \/ crashed)

\* A run that is stopped, by Stop or by its deadline, is over for both who stops
\* it and who reads its results.
StopEnds == StopReturns /\ RangeEnds

\* A goroutine that took a ticket ends.
CallsEnd == \A c \in Calls : (call[c] # "none") ~> (call[c] = "ended" \/ crashed)

-----------------------------------------------------------------------------
(* What the code and its comments intend; the code does otherwise.         *)

\* A result that comes too late is to be ignored because of a "stopped load
\* generator" (gen.go:195), not to end the process.
LateResultsAreIgnored == ~crashed

=============================================================================
