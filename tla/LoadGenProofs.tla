--------------------------- MODULE LoadGenProofs ---------------------------
(***************************************************************************)
(* Proofs about LoadGen.tla, for any number of goroutines, calls, starts   *)
(* and tickets and any capacity of the channel: calls are accounted for,   *)
(* and the status word keeps the runs of genLoad apart.                    *)
(*                                                                         *)
(* The second needs the first's type invariant only; the first needs, for  *)
(* each place a call can be at, what it has reported by then (CallInv).    *)
(***************************************************************************)
EXTENDS LoadGen, FiniteSetTheorems, TLAPS

Begun == {c \in Calls : call[c] = "begin"}
Busy == {c \in Calls : call[c] \notin {"none", "ended"}}

\* Calls are numbered in the order they are made, and callOne counts a call
\* after genLoad has made it.
CallsCounted ==
  /\ \A c \in Calls : call[c] = "none" <=> c > called
  /\ callCount + Cardinality(Begun) <= called

\* Who is inside Start has not used up the runs; a run exists once there is
\* something to start or to cancel.
RunsInOrder ==
  /\ \A s \in Starters : /\ starter[s] = "prepare" => run < MaxStarts
                         /\ starter[s] = "go" => run \in Runs
  /\ \A s \in Stoppers : stopper[s] = "cancel" => run \in Runs

\* What a call has reported, by where its goroutine is.
ReportedBy(c, result, fatal) ==
  reports[c]["result"] = result /\ reports[c]["fatal"] = fatal

CallInv(c) ==
  /\ reports[c]["timeout"] = IF callStatus[c] = 2 THEN 1 ELSE 0
  /\ callStatus[c] # 1 => reports[c]["result"] = 0
  /\ reports[c]["result"] <= 1 /\ reports[c]["fatal"] <= 1
  /\ call[c] \in {"none", "begin"} =>
       callStatus[c] = 0 /\ timer[c] = "off" /\ ReportedBy(c, 0, 0)
  /\ call[c] \in {"calling", "answered"} => callStatus[c] # 1 /\ ReportedBy(c, 0, 0)
  /\ call[c] = "checking" => callStatus[c] = 1 /\ ReportedBy(c, 0, 0)
  /\ call[c] \in {"send", "push"} => callStatus[c] = 1 /\ ReportedBy(c, 1, 0)
  /\ call[c] = "recover" => reports[c]["fatal"] = 0
  /\ call[c] \in {"resend", "repush"} => reports[c]["fatal"] = 1
  /\ call[c] \in {"return", "ended"} =>
       reports[c]["result"] + reports[c]["timeout"] + reports[c]["fatal"] >= 1
  /\ call[c] = "recover" \/ reports[c]["fatal"] = 1 =>
       /\ callStatus[c] # 1 => c \in CallerPanics
       /\ reports[c]["result"] = 1 => closed

IInv == /\ TypeOK
        /\ TicketsBalance
        /\ CallsCounted
        /\ RunsInOrder
        /\ StatusMatchesGenerator
        /\ \A c \in Calls : CallInv(c)

-----------------------------------------------------------------------------
(* The calls in a place, when one call moves.                              *)

LEMMA CountMoves ==
  ASSUME NEW S \in SUBSET Calls, NEW T \in SUBSET Calls,
         NEW c \in Calls, S \ {c} = T \ {c}
  PROVE  /\ Cardinality(S) \in Nat /\ Cardinality(T) \in Nat
         /\ (c \in S <=> c \in T) => Cardinality(T) = Cardinality(S)
         /\ c \notin S /\ c \in T => Cardinality(T) = Cardinality(S) + 1
         /\ c \in S /\ c \notin T => Cardinality(T) + 1 = Cardinality(S)
<1> DEFINE R == S \ {c}
<1>1. IsFiniteSet(Calls)
  BY FS_Interval, LoadGenAssumption DEF Calls
<1>2. R \in SUBSET Calls
  OBVIOUS
<1>3. IsFiniteSet(S) /\ IsFiniteSet(T) /\ IsFiniteSet(R)
  BY <1>1, <1>2, FS_Subset
<1>4. Cardinality(S) \in Nat /\ Cardinality(T) \in Nat /\ Cardinality(R) \in Nat
  BY <1>3, FS_CardinalityType
<1>5. c \notin R
  OBVIOUS
<1>6. Cardinality(R \cup {c}) = Cardinality(R) + 1
  BY <1>3, <1>5, FS_AddElement
<1>7. S = (IF c \in S THEN R \cup {c} ELSE R) /\ T = (IF c \in T THEN R \cup {c} ELSE R)
  OBVIOUS
<1> HIDE DEF R
<1> QED BY <1>4, <1>6, <1>7

\* How the numbers of calls that hold a ticket, and of calls that callOne has
\* not counted yet, follow from the move of one call.
LEMMA CallMoves ==
  ASSUME TypeOK, NEW c \in Calls, NEW l, call' = [call EXCEPT ![c] = l]
  PROVE  /\ Cardinality(Busy) \in Nat /\ Cardinality(Begun) \in Nat
         /\ Cardinality(Busy') \in Nat /\ Cardinality(Begun') \in Nat
         /\ (call[c] \in {"none", "ended"}) /\ (l \notin {"none", "ended"}) =>
              Cardinality(Busy') = Cardinality(Busy) + 1
         /\ (call[c] \notin {"none", "ended"}) /\ (l \in {"none", "ended"}) =>
              Cardinality(Busy') + 1 = Cardinality(Busy)
         /\ ((call[c] \in {"none", "ended"}) <=> (l \in {"none", "ended"})) =>
              Cardinality(Busy') = Cardinality(Busy)
         /\ (call[c] # "begin") /\ (l = "begin") =>
              Cardinality(Begun') = Cardinality(Begun) + 1
         /\ (call[c] = "begin") /\ (l # "begin") =>
              Cardinality(Begun') + 1 = Cardinality(Begun)
         /\ ((call[c] = "begin") <=> (l = "begin")) =>
              Cardinality(Begun') = Cardinality(Begun)
<1>1. \A d \in Calls : call'[d] = IF d = c THEN l ELSE call[d]
  BY DEF TypeOK
<1>2. /\ Busy \in SUBSET Calls /\ Busy' \in SUBSET Calls
      /\ Begun \in SUBSET Calls /\ Begun' \in SUBSET Calls
  BY DEF Busy, Begun
<1>3. Busy \ {c} = Busy' \ {c} /\ Begun \ {c} = Begun' \ {c}
  BY <1>1 DEF Busy, Begun
<1>4. /\ c \in Busy <=> call[c] \notin {"none", "ended"}
      /\ c \in Busy' <=> l \notin {"none", "ended"}
      /\ c \in Begun <=> call[c] = "begin"
      /\ c \in Begun' <=> l = "begin"
  BY <1>1 DEF Busy, Begun
<1>5. /\ Cardinality(Busy) \in Nat /\ Cardinality(Busy') \in Nat
      /\ (c \in Busy <=> c \in Busy') => Cardinality(Busy') = Cardinality(Busy)
      /\ c \notin Busy /\ c \in Busy' => Cardinality(Busy') = Cardinality(Busy) + 1
      /\ c \in Busy /\ c \notin Busy' => Cardinality(Busy') + 1 = Cardinality(Busy)
  BY <1>2, <1>3, CountMoves
<1>6. /\ Cardinality(Begun) \in Nat /\ Cardinality(Begun') \in Nat
      /\ (c \in Begun <=> c \in Begun') => Cardinality(Begun') = Cardinality(Begun)
      /\ c \notin Begun /\ c \in Begun' => Cardinality(Begun') = Cardinality(Begun) + 1
      /\ c \in Begun /\ c \notin Begun' => Cardinality(Begun') + 1 = Cardinality(Begun)
  BY <1>2, <1>3, CountMoves
<1> QED BY <1>4, <1>5, <1>6

-----------------------------------------------------------------------------
(* The control variables and the calls are changed by different steps.     *)

ControlStep ==
  \/ \E s \in Starters : StartStep(s)
  \/ \E s \in Stoppers : StopCas(s) \/ StopStep(s)
  \/ DurationExpires
  \/ \E r \in Runs : GenCheck(r) \/ GenThrottle(r) \/ GenStopping(r)
                     \/ GenClose(r) \/ GenStopped(r)

CallsStep == \E c \in Calls : CallStep(c) \/ TimerStep(c)

LEMMA NextSplit ==
  ASSUME [Next]_vars
  PROVE  \/ ControlStep \/ CallsStep \/ \E r \in Runs : GenTake(r)
         \/ Receive \/ UNCHANGED vars
BY DEF Next, ControlStep, CallsStep, GenStep

\* Every step of Start, Stop and genLoad keeps the control variables' types
\* and uses up no more runs than there are.
LEMMA ControlTypes ==
  ASSUME TypeOK, RunsInOrder, StatusMatchesGenerator, ControlStep
  PROVE  TypeOK' /\ RunsInOrder'
<1> USE LoadGenAssumption DEF TypeOK, RunsInOrder, StatusMatchesGenerator, Starting,
                              Active, Runs, results, callVars
<1>1. ASSUME NEW s \in Starters, StartCas(s)
      PROVE  TypeOK' /\ RunsInOrder'
  BY <1>1 DEF StartCas
<1>2. ASSUME NEW s \in Starters, StartPrepare(s)
      PROVE  TypeOK' /\ RunsInOrder'
  BY <1>2 DEF StartPrepare
<1>3. ASSUME NEW s \in Starters, StartGo(s)
      PROVE  TypeOK' /\ RunsInOrder'
  BY <1>3 DEF StartGo
<1>4. ASSUME NEW s \in Stoppers, StopCas(s)
      PROVE  TypeOK' /\ RunsInOrder'
  BY <1>4 DEF StopCas
<1>5. ASSUME NEW s \in Stoppers, StopStep(s)
      PROVE  TypeOK' /\ RunsInOrder'
  <2>1. CASE StopCancel(s)
    BY <2>1 DEF StopCancel
  <2>2. CASE StopReturn(s)
    BY <2>2 DEF StopReturn
  <2> QED BY <1>5, <2>1, <2>2 DEF StopStep
<1>6. CASE DurationExpires
  BY <1>6 DEF DurationExpires
<1>7. ASSUME NEW r \in Runs,
             GenCheck(r) \/ GenThrottle(r) \/ GenStopping(r) \/ GenClose(r) \/ GenStopped(r)
      PROVE  TypeOK' /\ RunsInOrder'
  <2>1. CASE GenCheck(r)
    BY <2>1 DEF GenCheck, GenGo
  <2>2. CASE GenThrottle(r)
    BY <2>2 DEF GenThrottle, GenGo
  <2>3. CASE GenStopping(r)
    BY <2>3 DEF GenStopping, GenGo
  <2>4. CASE GenClose(r)
    BY <2>4 DEF GenClose, GenGo
  <2>5. CASE GenStopped(r)
    BY <2>5 DEF GenStopped, GenGo
  <2> QED BY <1>7, <2>1, <2>2, <2>3, <2>4, <2>5
<1> QED
  BY <1>1, <1>2, <1>3, <1>4, <1>5, <1>6, <1>7 DEF ControlStep, StartStep

\* Every step of Start, Stop and genLoad keeps the status word a lock.
LEMMA ControlKeepsStatus ==
  ASSUME TypeOK, RunsInOrder, StatusMatchesGenerator, ControlStep
  PROVE  StatusMatchesGenerator'
<1> USE LoadGenAssumption DEF TypeOK, RunsInOrder, StatusMatchesGenerator, Starting, Active
<1>1. ASSUME NEW s \in Starters, StartCas(s)
      PROVE  StatusMatchesGenerator'
  BY <1>1 DEF StartCas
<1>2. ASSUME NEW s \in Starters, StartPrepare(s)
      PROVE  StatusMatchesGenerator'
  BY <1>2 DEF StartPrepare
<1>3. ASSUME NEW s \in Starters, StartGo(s)
      PROVE  StatusMatchesGenerator'
  <2>1. /\ status = "starting" /\ status' = "started" /\ run' = run /\ run \in Runs
        /\ \A r \in Runs : ~Active(r)
    BY <1>3 DEF StartGo
  <2>2. \A q \in Starters : ~Starting(q)'
    BY <1>3 DEF StartGo
  <2>3. \A r \in Runs : Active(r)' <=> r = run
    BY <1>3, <2>1 DEF StartGo
  <2> QED BY <2>1, <2>2, <2>3
<1>4. ASSUME NEW s \in Stoppers, StopCas(s)
      PROVE  StatusMatchesGenerator'
  BY <1>4 DEF StopCas
<1>5. ASSUME NEW s \in Stoppers, StopStep(s)
      PROVE  StatusMatchesGenerator'
  BY <1>5 DEF StopStep, StopCancel, StopReturn
<1>6. CASE DurationExpires
  BY <1>6 DEF DurationExpires
<1>7. ASSUME NEW r \in Runs, GenCheck(r) \/ GenThrottle(r) \/ GenClose(r)
      PROVE  StatusMatchesGenerator'
  <2>1. UNCHANGED <<status, run, starter>>
    BY <1>7 DEF GenCheck, GenThrottle, GenClose
  <2>2. \A q \in Runs : Active(q)' <=> Active(q)
    BY <1>7 DEF GenCheck, GenThrottle, GenClose, GenGo
  <2> QED BY <2>1, <2>2
<1>8. ASSUME NEW r \in Runs, GenStopping(r)
      PROVE  StatusMatchesGenerator'
  <2>1. /\ UNCHANGED <<run, starter>>
        /\ status \in {"started", "stopping"} /\ status' = "stopping"
    BY <1>8 DEF GenStopping
  <2>2. \A q \in Runs : Active(q)' <=> Active(q)
    BY <1>8 DEF GenStopping, GenGo
  <2> QED BY <2>1, <2>2
<1>9. ASSUME NEW r \in Runs, GenStopped(r)
      PROVE  StatusMatchesGenerator'
  <2>1. /\ UNCHANGED <<run, starter>>
        /\ status \in {"started", "stopping"} /\ status' = "stopped" /\ r = run
    BY <1>9 DEF GenStopped
  <2>2. \A q \in Runs : ~Active(q)'
    BY <1>9, <2>1 DEF GenStopped, GenGo
  <2> QED BY <2>1, <2>2
<1> QED
  BY <1>1, <1>2, <1>3, <1>4, <1>5, <1>6, <1>7, <1>8, <1>9 DEF ControlStep, StartStep

\* They make, move and report no call; Start resets the counter.
LEMMA ControlKeepsCalls ==
  ASSUME TypeOK, TicketsBalance, CallsCounted, \A c \in Calls : CallInv(c), ControlStep
  PROVE  TicketsBalance' /\ CallsCounted' /\ \A c \in Calls : CallInv(c)'
<1>1. UNCHANGED <<callVars, tickets>> /\ callCount' \in {callCount, 0}
  BY DEF ControlStep, StartStep, StartCas, StartPrepare, StartGo, StopCas, StopStep,
         StopCancel, StopReturn, DurationExpires, GenCheck, GenThrottle, GenStopping,
         GenClose, GenStopped
<1>2. UNCHANGED <<called, call, timer, callStatus, reports>>
  BY <1>1 DEF callVars
<1>3. Begun' = Begun
  BY <1>2 DEF Begun
<1>4. Begun \in SUBSET Calls /\ IsFiniteSet(Calls)
  BY FS_Interval, LoadGenAssumption DEF Begun, Calls
<1>5. Cardinality(Begun) \in Nat
  BY <1>4, FS_Subset, FS_CardinalityType
<1>6. callCount \in Nat /\ called \in Nat
  BY LoadGenAssumption DEF TypeOK
<1>7. CallsCounted'
  BY <1>1, <1>2, <1>3, <1>5, <1>6 DEF CallsCounted
<1>8. TicketsBalance'
  BY <1>1, <1>2 DEF TicketsBalance
<1>9. closed => closed'
  BY DEF ControlStep, StartStep, StartCas, StartPrepare, StartGo, StopCas, StopStep,
         StopCancel, StopReturn, DurationExpires, GenCheck, GenThrottle, GenStopping,
         GenClose, GenStopped, results
<1>10. \A c \in Calls : CallInv(c)'
  BY <1>2, <1>9 DEF CallInv, ReportedBy
<1> QED BY <1>7, <1>8, <1>10

-----------------------------------------------------------------------------
(* One call: its goroutine and its timer.                                  *)

\* Who changes the control variables changes no call, and the other way round.
LEMMA CallsKeepControl ==
  ASSUME CallsStep
  PROVE  UNCHANGED <<control, called>>
BY DEF CallsStep, CallStep, TimerStep, CallBegin, CallAnswer, CallComplete, CallCheck,
       CallRecover, CallSend, CallPush, CallReturn, TimerFire, TimerSend, TimerPush, callVars

\* The channel's buffer never overflows: the send does not wait for room.
LEMMA PushFits ==
  ASSUME TypeOK, Push
  PROVE  buffered' \in 0..Capacity
BY LoadGenAssumption DEF TypeOK, Push

\* Calls and timers leave the channel open or closed as it is.
LEMMA CallsKeepClosed ==
  ASSUME CallsStep
  PROVE  closed' = closed
BY DEF CallsStep, CallStep, TimerStep, CallBegin, CallAnswer, CallComplete, CallCheck,
       CallRecover, CallSend, CallPush, CallReturn, TimerFire, TimerSend, TimerPush,
       Push, results

\* Every step of a call leads from one place with its reports to another.
LEMMA CallKeepsReports ==
  ASSUME TypeOK, NEW c \in Calls, CallInv(c), CallStep(c)
  PROVE  CallInv(c)'
<1>0. closed' = closed
  BY CallsKeepClosed DEF CallsStep
<1> USE <1>0 DEF TypeOK, CallInv, ReportedBy, ReportKinds, CallGo, TimerGo, Report, callVars
<1>1. CASE CallBegin(c)
  BY <1>1 DEF CallBegin
<1>2. CASE CallAnswer(c)
  BY <1>2 DEF CallAnswer
<1>3. CASE CallComplete(c)
  BY <1>3 DEF CallComplete
<1>4. CASE CallCheck(c)
  BY <1>4 DEF CallCheck
<1>5. CASE CallRecover(c)
  BY <1>5 DEF CallRecover
<1>6. CASE CallSend(c)
  BY <1>6 DEF CallSend
<1>7. CASE CallPush(c)
  BY <1>7 DEF CallPush
<1>8. CASE CallReturn(c)
  BY <1>8 DEF CallReturn
<1> QED BY <1>1, <1>2, <1>3, <1>4, <1>5, <1>6, <1>7, <1>8 DEF CallStep

\* So does every step of its timer, which reports the timeout if it is first.
LEMMA TimerKeepsReports ==
  ASSUME TypeOK, NEW c \in Calls, CallInv(c), TimerStep(c)
  PROVE  CallInv(c)'
<1>0. closed' = closed
  BY CallsKeepClosed DEF CallsStep
<1> USE <1>0 DEF TypeOK, CallInv, ReportedBy, ReportKinds, TimerGo, Report
<1>1. CASE TimerFire(c)
  BY <1>1 DEF TimerFire
<1>2. CASE TimerSend(c)
  BY <1>2 DEF TimerSend
<1>3. CASE TimerPush(c)
  BY <1>3 DEF TimerPush
<1> QED BY <1>1, <1>2, <1>3 DEF TimerStep

\* Other calls are not concerned.
LEMMA OthersKeepReports ==
  ASSUME TypeOK, NEW c \in Calls, NEW d \in Calls, c # d, CallInv(d),
         CallStep(c) \/ TimerStep(c)
  PROVE  CallInv(d)'
<1> USE DEF TypeOK, CallGo, TimerGo, Report, callVars
<1>1. /\ call'[d] = call[d] /\ timer'[d] = timer[d]
      /\ callStatus'[d] = callStatus[d] /\ reports'[d] = reports[d]
  <2>1. CASE CallStep(c)
    BY <2>1 DEF CallStep, CallBegin, CallAnswer, CallComplete, CallCheck, CallRecover,
                CallSend, CallPush, CallReturn
  <2>2. CASE TimerStep(c)
    BY <2>2 DEF TimerStep, TimerFire, TimerSend, TimerPush
  <2> QED BY <2>1, <2>2
<1>2. closed' = closed
  BY CallsKeepClosed DEF CallsStep
<1> QED BY <1>1, <1>2 DEF CallInv, ReportedBy

\* A call's steps keep its variables' types: a ticket that is returned was
\* missing from the pool, a call that is counted was made, and nothing is
\* reported more than once.
LEMMA CallTypes ==
  ASSUME TypeOK, TicketsBalance, CallsCounted, NEW c \in Calls, CallInv(c), CallStep(c)
  PROVE  TypeOK'
<1> USE LoadGenAssumption DEF TypeOK, CallGo, TimerGo, Report, ReportKinds, control, results
<1>1. ASSUME NEW k \in ReportKinds, reports[c][k] <= 1, Report(c, k)
      PROVE  reports' \in [Calls -> [ReportKinds -> 0..2]]
  <2>1. reports[c][k] + 1 \in 0..2
    BY <1>1
  <2>2. [reports[c] EXCEPT ![k] = @ + 1] \in [ReportKinds -> 0..2]
    BY <2>1
  <2> QED BY <1>1, <2>2
<1>2. CASE CallBegin(c)
  <2>1. call[c] = "begin" => c \in Begun
    BY DEF Begun
  <2>2. Begun \in SUBSET Calls /\ IsFiniteSet(Calls)
    BY FS_Interval DEF Begun, Calls
  <2>3. IsFiniteSet(Begun) /\ Cardinality(Begun) \in Nat
    BY <2>2, FS_Subset, FS_CardinalityType
  <2>4. c \in Begun => Cardinality(Begun) # 0
    BY <2>3, FS_EmptySet
  <2>5. /\ callCount \in Nat /\ called \in Nat /\ called <= MaxCalls
        /\ callCount + Cardinality(Begun) <= called
    BY DEF CallsCounted
  <2>6. Cardinality(Begun) # 0
    BY <1>2, <2>1, <2>4 DEF CallBegin
  <2> HIDE DEF TypeOK
  <2>7. callCount + 1 \in 0..MaxCalls
    BY <2>3, <2>5, <2>6
  <2> QED BY <1>2, <2>7 DEF CallBegin, TypeOK
<1>3. CASE CallAnswer(c)
  BY <1>3 DEF CallAnswer
<1>4. CASE CallComplete(c)
  <2>1. /\ callStatus' \in [Calls -> 0..2]
        /\ \E l \in {"checking", "return"} : call' = [call EXCEPT ![c] = l]
        /\ timer' = timer \/ timer' = [timer EXCEPT ![c] = "ended"]
    BY <1>4 DEF CallComplete
  <2> QED BY <1>4, <2>1 DEF CallComplete
<1>5. CASE CallCheck(c)
  BY <1>1, <1>5 DEF CallCheck, CallInv, ReportedBy
<1>6. CASE CallRecover(c)
  BY <1>1, <1>6 DEF CallRecover, CallInv
<1>7. CASE CallSend(c)
  BY <1>7 DEF CallSend
<1>8. CASE CallPush(c)
  <2>1. buffered' \in 0..Capacity /\ closed' \in BOOLEAN
    BY <1>8, PushFits DEF CallPush, Push
  <2> QED BY <1>8, <2>1 DEF CallPush
<1>9. CASE CallReturn(c)
  <2>1. /\ call' = [call EXCEPT ![c] = "ended"] /\ call[c] = "return"
        /\ tickets' = tickets + 1
    BY <1>9 DEF CallReturn, ReturnTicket
  <2> HIDE DEF TypeOK
  <2>2. Cardinality(Busy') + 1 = Cardinality(Busy)
    BY <2>1, CallMoves
  <2>3. Cardinality(Busy) \in Nat /\ Cardinality(Busy) # 0
    <3>1. c \in Busy /\ Busy \in SUBSET Calls /\ IsFiniteSet(Calls)
      BY <2>1, FS_Interval DEF Busy, Calls
    <3> QED BY <3>1, FS_Subset, FS_CardinalityType, FS_EmptySet
  <2>4. tickets + Cardinality(Busy) = Concurrency
    BY DEF TicketsBalance, Busy
  <2>5. tickets \in Nat /\ Concurrency \in Nat
    BY DEF TypeOK
  <2>6. tickets' \in 0..Concurrency
    BY <2>1, <2>3, <2>4, <2>5
  <2> QED BY <1>9, <2>6 DEF CallReturn, TypeOK
<1> QED BY <1>2, <1>3, <1>4, <1>5, <1>6, <1>7, <1>8, <1>9 DEF CallStep

LEMMA TimerTypes ==
  ASSUME TypeOK, NEW c \in Calls, CallInv(c), TimerStep(c)
  PROVE  TypeOK'
<1> USE LoadGenAssumption DEF TypeOK, TimerGo, Report, ReportKinds, control, results
<1>1. CASE TimerFire(c)
  <2>1. CASE reports' = reports
    BY <1>1, <2>1 DEF TimerFire
  <2>2. CASE Report(c, "timeout") /\ callStatus[c] = 0
    <3>1. [reports[c] EXCEPT !["timeout"] = @ + 1] \in [ReportKinds -> 0..2]
      BY <2>2 DEF CallInv
    <3>2. reports' = [reports EXCEPT ![c] = [reports[c] EXCEPT !["timeout"] = @ + 1]]
      BY <2>2
    <3>3. reports' \in [Calls -> [ReportKinds -> 0..2]]
      BY <3>1, <3>2
    <3>4. callStatus' \in [Calls -> 0..2] /\ timer' = [timer EXCEPT ![c] = "send"]
      BY <1>1, <2>2 DEF TimerFire
    <3> QED BY <1>1, <3>3, <3>4 DEF TimerFire
  <2> QED BY <1>1, <2>1, <2>2 DEF TimerFire
<1>2. CASE TimerSend(c)
  BY <1>2 DEF TimerSend
<1>3. CASE TimerPush(c)
  <2>1. buffered' \in 0..Capacity /\ closed' \in BOOLEAN
    BY <1>3, PushFits DEF TimerPush, Push
  <2> QED BY <1>3, <2>1 DEF TimerPush
<1> QED BY <1>1, <1>2, <1>3 DEF TimerStep

\* A call keeps its ticket until it returns it, and callOne counts it when it
\* leaves its first place, or not at all.
LEMMA CallKeepsCounts ==
  ASSUME TypeOK, TicketsBalance, CallsCounted, NEW c \in Calls, CallStep(c) \/ TimerStep(c)
  PROVE  TicketsBalance' /\ CallsCounted'
<1> USE DEF TicketsBalance
<1> DEFINE SameClass(l) ==
      /\ call' = [call EXCEPT ![c] = l]
      /\ call[c] \notin {"none", "begin", "ended"} /\ l \notin {"none", "begin", "ended"}
      /\ UNCHANGED <<tickets, callCount>>
<1>1. callCount \in Nat /\ called \in Nat /\ tickets \in Nat
  BY LoadGenAssumption DEF TypeOK
<1>2. called' = called
  BY CallsKeepControl DEF CallsStep
<1>3. CASE UNCHANGED <<call, tickets, callCount>>
  BY <1>2, <1>3 DEF CallsCounted, Begun
<1>4. ASSUME NEW l, SameClass(l)
      PROVE  TicketsBalance' /\ CallsCounted'
  <2>1. Cardinality(Busy') = Cardinality(Busy) /\ Cardinality(Begun') = Cardinality(Begun)
    BY <1>4, CallMoves
  <2>2. \A d \in Calls : call'[d] = "none" <=> call[d] = "none"
    BY <1>4 DEF TypeOK
  <2> QED BY <1>2, <1>4, <2>1, <2>2 DEF CallsCounted, Busy
<1>5. CASE CallBegin(c)
  <2>1. PICK l \in {"calling", "recover"} : call' = [call EXCEPT ![c] = l]
    BY <1>5 DEF CallBegin, CallGo
  <2>2. /\ call[c] = "begin" /\ UNCHANGED tickets
        /\ callCount' \in {callCount, callCount + 1}
    BY <1>5 DEF CallBegin
  <2>3. /\ Cardinality(Begun) \in Nat /\ Cardinality(Busy) \in Nat
        /\ Cardinality(Busy') = Cardinality(Busy)
        /\ Cardinality(Begun') \in Nat /\ Cardinality(Begun') + 1 = Cardinality(Begun)
    BY <2>1, <2>2, CallMoves
  <2>4. \A d \in Calls : call'[d] = "none" <=> call[d] = "none"
    BY <2>1, <2>2 DEF TypeOK
  <2>5. CallsCounted'
    BY <1>1, <1>2, <2>2, <2>3, <2>4 DEF CallsCounted
  <2> QED BY <2>2, <2>3, <2>5 DEF Busy
<1>6. CASE CallReturn(c)
  <2>1. /\ call' = [call EXCEPT ![c] = "ended"] /\ call[c] = "return"
        /\ tickets' = tickets + 1 /\ UNCHANGED callCount
    BY <1>6 DEF CallReturn, ReturnTicket, CallGo
  <2>2. /\ Cardinality(Busy) \in Nat
        /\ Cardinality(Busy') \in Nat /\ Cardinality(Busy') + 1 = Cardinality(Busy)
    BY <2>1, CallMoves
  <2>5. Cardinality(Begun') = Cardinality(Begun)
    <3>1. ~(call[c] = "begin") /\ ~("ended" = "begin")
      BY <2>1
    <3>2. (call[c] = "begin") <=> ("ended" = "begin")
      BY <3>1
    <3> QED BY <2>1, <3>2, CallMoves
  <2>3. \A d \in Calls : call'[d] = "none" <=> call[d] = "none"
    BY <2>1 DEF TypeOK
  <2>4. CallsCounted'
    BY <1>2, <2>1, <2>3, <2>5 DEF CallsCounted
  <2> QED BY <1>1, <2>1, <2>2, <2>4 DEF Busy
<1>7. CASE TimerStep(c)
  BY <1>3, <1>7 DEF TimerStep, TimerFire, TimerSend, TimerPush
<1>8. CASE CallStep(c) /\ ~CallBegin(c) /\ ~CallReturn(c)
  <2>1. \/ UNCHANGED <<call, tickets, callCount>>
        \/ \E l : SameClass(l)
    BY <1>8 DEF CallStep, CallAnswer, CallComplete, CallCheck, CallRecover, CallSend,
                CallPush, CallGo
  <2> QED BY <1>3, <1>4, <2>1
<1> QED BY <1>5, <1>6, <1>7, <1>8

\* genLoad takes a ticket for every call it makes, and numbers the call.
LEMMA TakeStep ==
  ASSUME IInv, NEW r \in Runs, GenTake(r)
  PROVE  IInv'
<1> USE LoadGenAssumption DEF IInv
<1>1. StatusMatchesGenerator' /\ RunsInOrder'
  <2>1. UNCHANGED <<status, run, starter, stopper>>
    BY DEF GenTake
  <2>2. \A q \in Runs : Active(q)' <=> Active(q)
    BY DEF GenTake, GenGo, Active, TypeOK
  <2> QED BY <2>1, <2>2 DEF StatusMatchesGenerator, RunsInOrder, Starting
<1>2. generator' \in [Runs -> {"none", "check", "take", "throttle", "stopping",
                               "closing", "closed", "ended"}]
  BY DEF GenTake, GenGo, TypeOK
<1>3. CASE UNCHANGED <<tickets, called, call>>
  <2>1. UNCHANGED <<callCount, timer, callStatus, reports>>
    BY DEF GenTake
  <2>2. \A c \in Calls : CallInv(c)'
    <3>1. closed' = closed
      BY DEF GenTake, results
    <3> QED BY <1>3, <2>1, <3>1 DEF CallInv, ReportedBy
  <2>3. TypeOK'
    BY <1>2, <1>3 DEF GenTake, TypeOK, results
  <2> QED BY <1>1, <1>3, <2>1, <2>2, <2>3 DEF TicketsBalance, CallsCounted, Begun
<1>4. CASE called < MaxCalls /\ ~UNCHANGED <<tickets, called, call>>
  <2> DEFINE new == called + 1
  <2>1. /\ tickets > 0 /\ tickets' = tickets - 1
        /\ called' = new /\ call' = [call EXCEPT ![new] = "begin"]
        /\ UNCHANGED <<callCount, timer, callStatus, reports>>
    BY <1>4 DEF GenTake, TakeTicket
  <2>2. /\ callCount \in Nat /\ called \in Nat /\ tickets \in Nat /\ Concurrency \in Nat
        /\ tickets <= Concurrency
    BY DEF TypeOK
  <2>3. new \in Calls /\ call[new] = "none"
    BY <1>4, <2>2 DEF CallsCounted, Calls
  <2>4. /\ Cardinality(Busy) \in Nat /\ Cardinality(Busy') = Cardinality(Busy) + 1
        /\ Cardinality(Begun) \in Nat /\ Cardinality(Begun') = Cardinality(Begun) + 1
    BY <2>1, <2>3, CallMoves
  <2>5. TicketsBalance'
    <3>1. tickets + Cardinality(Busy) = Concurrency
      BY DEF TicketsBalance, Busy
    <3>2. tickets' + Cardinality(Busy') = Concurrency
      BY <2>1, <2>2, <2>4, <3>1
    <3> QED BY <3>2 DEF TicketsBalance, Busy
  <2>6. CallsCounted'
    <3>1. callCount + Cardinality(Begun) <= called
      BY DEF CallsCounted
    <3>2. callCount' + Cardinality(Begun') <= called'
      BY <2>1, <2>2, <2>4, <3>1
    <3>3. \A c \in Calls : call'[c] = IF c = new THEN "begin" ELSE call[c]
      BY <2>1 DEF TypeOK
    <3>4. \A c \in Calls : c \in Nat
      BY DEF Calls
    <3>5. \A c \in Calls : call'[c] = "none" <=> c > called'
      BY <2>1, <2>2, <3>3, <3>4 DEF CallsCounted
    <3> QED BY <3>2, <3>5 DEF CallsCounted
  <2>7. \A c \in Calls : CallInv(c)'
    <3>1. \A c \in Calls : call'[c] = IF c = new THEN "begin" ELSE call[c]
      BY <2>1 DEF TypeOK
    <3>2. closed' = closed
      BY DEF GenTake, results
    <3>3. \A c \in Calls : c # new => CallInv(c)'
      BY <2>1, <3>1, <3>2 DEF CallInv, ReportedBy
    <3>4. \A c \in Calls : c = new => CallInv(c)'
      BY <2>1, <2>3, <3>1 DEF CallInv, ReportedBy
    <3> QED BY <3>3, <3>4
  <2>8. TypeOK'
    <3>1. called' \in 0..MaxCalls /\ tickets' \in 0..Concurrency
      BY <1>4, <2>1, <2>2
    <3> QED BY <1>2, <2>1, <3>1 DEF GenTake, TypeOK, results
  <2> QED BY <1>1, <2>5, <2>6, <2>7, <2>8
<1> QED BY <1>3, <1>4 DEF GenTake, TypeOK

\* The owner of the channel only makes room in it.
LEMMA ReceiveStep ==
  ASSUME IInv, Receive
  PROVE  IInv'
<1>1. UNCHANGED <<status, run, starter, stopper, generator, tickets, callCount, called,
                  call, timer, callStatus, reports, closed>>
  BY DEF Receive, control, callVars
<1>2. TypeOK'
  <2>1. buffered' \in 0..Capacity
    BY LoadGenAssumption DEF Receive, IInv, TypeOK
  <2> QED BY <2>1 DEF Receive, IInv, TypeOK, control, callVars
<1>3. \A c \in Calls : CallInv(c)'
  BY <1>1 DEF IInv, CallInv, ReportedBy
<1> QED BY <1>1, <1>2, <1>3 DEF IInv, TicketsBalance, CallsCounted, Begun, RunsInOrder,
                                StatusMatchesGenerator, Starting, Active

-----------------------------------------------------------------------------
LEMMA InitInv == Init => IInv
<1> SUFFICES ASSUME Init
             PROVE  IInv
  OBVIOUS
<1> USE LoadGenAssumption DEF Init
<1>1. TypeOK
  <2>1. reports \in [Calls -> [ReportKinds -> 0..2]]
    OBVIOUS
  <2>2. /\ call \in [Calls -> {"none", "begin", "calling", "answered", "checking",
                              "send", "push", "recover", "resend", "repush",
                              "return", "ended"}]
        /\ timer \in [Calls -> {"off", "armed", "send", "push", "ended"}]
    OBVIOUS
  <2>3. callStatus \in [Calls -> 0..2]
    OBVIOUS
  <2>4. /\ starter \in [Starters -> {"idle", "prepare", "go"}]
        /\ stopper \in [Stoppers -> {"idle", "cancel", "spin"}]
        /\ generator \in [Runs -> {"none", "check", "take", "throttle", "stopping",
                                   "closing", "closed", "ended"}]
    OBVIOUS
  <2>5. /\ run \in 0..MaxStarts /\ buffered \in 0..Capacity /\ tickets \in 0..Concurrency
        /\ callCount \in 0..MaxCalls /\ called \in 0..MaxCalls
    OBVIOUS
  <2>6. /\ status = "original" /\ ctxDone = {} /\ closed = FALSE /\ crashed = FALSE
    OBVIOUS
  <2> HIDE DEF Init
  <2> QED BY <2>1, <2>2, <2>3, <2>4, <2>5, <2>6 DEF TypeOK
<1>2. Begun = {} /\ {c \in Calls : call[c] \notin {"none", "ended"}} = {}
  BY DEF Begun
<1>3. Cardinality({}) = 0
  BY FS_EmptySet
<1>4. TicketsBalance
  BY <1>2, <1>3 DEF TicketsBalance
<1>5. CallsCounted
  BY <1>2, <1>3 DEF CallsCounted, Calls
<1>6. RunsInOrder /\ StatusMatchesGenerator
  BY DEF RunsInOrder, StatusMatchesGenerator, Starting, Active
<1>7. \A c \in Calls : CallInv(c)
  BY DEF CallInv, ReportedBy, ReportKinds
<1> QED BY <1>1, <1>4, <1>5, <1>6, <1>7 DEF IInv

LEMMA NextInv == IInv /\ [Next]_vars => IInv'
<1> SUFFICES ASSUME IInv, [Next]_vars
             PROVE  IInv'
  OBVIOUS
<1>1. CASE ControlStep
  BY <1>1, ControlTypes, ControlKeepsStatus, ControlKeepsCalls DEF IInv
<1>2. ASSUME NEW c \in Calls, CallStep(c) \/ TimerStep(c)
      PROVE  IInv'
  <2>1. TypeOK'
    BY <1>2, CallTypes, TimerTypes DEF IInv
  <2>2. TicketsBalance' /\ CallsCounted'
    BY <1>2, CallKeepsCounts DEF IInv
  <2>3. \A d \in Calls : CallInv(d)'
    BY <1>2, CallKeepsReports, TimerKeepsReports, OthersKeepReports DEF IInv
  <2>4. UNCHANGED control
    BY <1>2, CallsKeepControl DEF CallsStep
  <2>5. RunsInOrder' /\ StatusMatchesGenerator'
    BY <2>4 DEF IInv, control, RunsInOrder, StatusMatchesGenerator, Starting, Active
  <2> QED BY <2>1, <2>2, <2>3, <2>5 DEF IInv
<1>3. ASSUME NEW r \in Runs, GenTake(r)
      PROVE  IInv'
  BY <1>3, TakeStep
<1>4. CASE Receive
  BY <1>4, ReceiveStep
<1>5. CASE UNCHANGED vars
  BY <1>5 DEF vars, control, results, callVars, IInv, TypeOK, TicketsBalance, CallsCounted,
              Begun, RunsInOrder, StatusMatchesGenerator, Starting, Active, CallInv, ReportedBy
<1> QED BY <1>1, <1>2, <1>3, <1>4, <1>5, NextSplit DEF CallsStep

\* Every reachable state of the load generator satisfies the invariant.
THEOREM Invariance == Spec => []IInv
<1>1. Init => IInv
  BY InitInv
<1>2. IInv /\ [Next]_vars => IInv'
  BY NextInv
<1> QED BY <1>1, <1>2, PTL DEF Spec

\* A call takes one ticket and gives one back, and reports its answer or its
\* timeout or its panic: two of them only after a panic of Call whose timer runs
\* on, or of a send on the closed channel.
THEOREM CallsAccounted == Spec => []CallsAreAccountedFor
<1>1. IInv => CallsAreAccountedFor
  <2> SUFFICES ASSUME IInv
               PROVE  CallsAreAccountedFor
    OBVIOUS
  <2>1. TypeOK /\ TicketsBalance
    BY DEF IInv
  <2>2. ReportsExclude
    <3>1. \A c \in Calls : /\ callStatus[c] \in 0..2
                           /\ reports[c]["result"] \in 0..2 /\ reports[c]["timeout"] \in 0..2
      BY <2>1 DEF TypeOK, ReportKinds
    <3> QED BY <3>1 DEF IInv, CallInv, ReportsExclude
  <2>3. EveryCallReports
    BY DEF IInv, CallInv, EveryCallReports
  <2> QED BY <2>1, <2>2, <2>3 DEF CallsAreAccountedFor
<1> QED BY <1>1, Invariance, PTL

\* The status word is a lock: at most one genLoad runs, and it runs exactly while
\* the status says so, for any number of goroutines in Start and Stop.
THEOREM StatusIsALock == Spec => []StatusMatchesGenerator
<1>1. IInv => StatusMatchesGenerator
  BY DEF IInv
<1> QED BY <1>1, Invariance, PTL

=============================================================================
