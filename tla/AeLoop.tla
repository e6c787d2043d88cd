------------------------------- MODULE AeLoop -------------------------------
(***************************************************************************)
(* src/asyn_network/ae.c with ae_epoll.c: the event loop, as main.c runs   *)
(* it.  One thread; what makes it hard is that every callback may change   *)
(* the tables the loop is walking over, and that the kernel hands out the  *)
(* number of a closed descriptor again.                                    *)
(*                                                                         *)
(* A callback is a state: while one runs it performs any operations of the *)
(* interface, one per step, and then returns.  Time is counted in ticks,   *)
(* Second of them to a second.                                             *)
(***************************************************************************)
EXTENDS Naturals, FiniteSets, FiniteSetsExt, SequencesExt

CONSTANTS MaxFd,      \* descriptors are 0..MaxFd, 0 is the listening socket
          Procs,      \* callback functions for files
          Masks,      \* masks aeCreateFileEvent is called with
          Second,     \* ticks per second
          Delays,     \* delays of timers, in ticks
          NoTimeout,  \* epoll_wait waits for ever
          MaxTime,    \* bound: the clock
          MaxTimers,  \* bound: time events ever created
          MaxFired,   \* bound: descriptors one epoll_wait reports
          Budgets     \* bound: how many operations on file events, on time
                      \* events and of setting the clock back go together

Fds == 0..MaxFd
Kinds == {"r", "w"}
Spent == {"file", "time", "back"}
NoPoll == {"none"}  \* the descriptor is not in the epoll set

ASSUME AeAssumption ==
  /\ MaxFd \in Nat /\ Procs # {}
  /\ Masks \subseteq (SUBSET {"r", "w", "b"}) \ {{}}
  /\ Second \in Nat \ {0} /\ Delays \subseteq Nat
  /\ NoTimeout \notin Nat
  /\ MaxTime \in Nat \ {0} /\ MaxTimers \in Nat \ {0} /\ MaxFired \in Nat
  /\ Budgets \subseteq [Spent -> Nat]

VARIABLES
  mask,      \* events[fd].mask
  proc,      \* proc[fd]["r"], ["w"]: rfileProc, wfileProc
  maxfd, setsize,
  poll,      \* the kernel: events[fd] in the epoll set, or NoPoll
  open,      \* the kernel: the open descriptors
  phase,     \* where aeMain is
  wait,      \* ticks until epoll_wait returns
  fired,     \* what is left of the fired array, its head under way
  stage,     \* which callback of the head comes next
  invert, any,  \* locals of the loop; any: fired > 0
  callback,  \* the kind of callback that is running
  list,      \* time events from timeEventHead on
  when, live,   \* live[t]: its id is not AE_DELETED_EVENT_ID
  te,        \* the time event the pass has arrived at; 0: the end
  nextId, lastTime,
  now,
  finalized, \* history: finalizer calls
  owed,      \* history: time events due at the beginning of the pass
  spent      \* what has been used of the budget

fileVars == <<mask, proc, maxfd, setsize, poll, open>>
fireVars == <<wait, fired, stage, invert, any>>
timerVars == <<list, when, live, nextId, lastTime>>
vars == <<fileVars, fireVars, timerVars, now, phase, callback, te,
          finalized, owed, spent>>

Timers == 1..MaxTimers

TypeOK ==
  /\ mask \in [Fds -> SUBSET {"r", "w", "b"}]
  /\ proc \in [Fds -> [Kinds -> Procs]]
  /\ maxfd \in Fds /\ setsize \in 1..Cardinality(Fds)
  /\ poll \in [Fds -> (SUBSET Kinds) \cup {NoPoll}]
  /\ open \subseteq Fds
  /\ phase \in {"before", "poll", "fire", "timers"}
  /\ wait \in 0..MaxTime \cup {NoTimeout}
  /\ fired \in Seq([fd : Fds, mask : SUBSET Kinds])
  /\ stage \in {"first", "second", "last", "next"}
  /\ invert \in BOOLEAN /\ any \in BOOLEAN
  /\ callback \in {"none", "r", "w", "timer", "finalizer"}
  /\ list \in Seq(Timers)
  /\ when \in [Timers -> 0..MaxTime] /\ live \in [Timers -> BOOLEAN]
  /\ te \in 0..MaxTimers /\ nextId \in 1..(MaxTimers + 1)
  /\ lastTime \in 0..MaxTime
  /\ now \in 0..MaxTime
  /\ finalized \in [Timers -> Nat]
  /\ owed \subseteq Timers
  /\ spent \in [Spent -> Nat]

\* main(): the listening socket is registered, the main timer is created and
\* aeMain calls beforesleep.  Some clients may have been accepted before the
\* model looks at the loop.  (The loop only asks whether two functions are the
\* same.)
Init ==
  /\ open \in {0..n : n \in Fds}
  /\ mask = [fd \in Fds |-> IF fd \in open THEN {"r"} ELSE {}]
  /\ poll = [fd \in Fds |-> IF fd \in open THEN {"r"} ELSE NoPoll]
  /\ proc = [fd \in Fds |-> [k \in Kinds |-> CHOOSE p \in Procs : TRUE]]
  /\ maxfd = Max(open) /\ setsize = Cardinality(Fds)
  /\ phase = "before" /\ callback = "none"
  /\ wait = 0 /\ fired = << >> /\ stage = "first"
  /\ invert = FALSE /\ any = FALSE
  /\ list = <<1>> /\ nextId = 2 /\ te = 0 /\ lastTime = 0
  /\ when = [t \in Timers |-> IF t = 1 THEN 1 ELSE 0]
  /\ live = [t \in Timers |-> t = 1]
  /\ now = 0
  /\ finalized = [t \in Timers |-> 0] /\ owed = {}
  /\ spent = [k \in Spent |-> 0]

-----------------------------------------------------------------------------
(* What callbacks call.                                                    *)

Spend(what) ==
  /\ spent' = [spent EXCEPT ![what] = @ + 1]
  /\ \E b \in Budgets : \A k \in Spent : spent'[k] <= b[k]

Operation ==
  /\ phase = "before" \/ callback # "none"
  /\ UNCHANGED <<fireVars, now, phase, callback, te, finalized>>

FileOperation == Operation /\ Spend("file") /\ UNCHANGED <<timerVars, owed>>

TimeOperation == Operation /\ Spend("time") /\ UNCHANGED fileVars

\* epoll_ctl with what is left in the mask, EPOLL_CTL_DEL if nothing is.
EpollEvents(m) == IF m = {} THEN NoPoll ELSE m \cap Kinds

\* aeCreateFileEvent of an open descriptor.
AddEvent(fd, m, p) ==
  /\ mask' = [mask EXCEPT ![fd] = @ \cup m]
  /\ poll' = [poll EXCEPT ![fd] = EpollEvents(mask[fd] \cup m)]
  /\ proc' = [proc EXCEPT ![fd] = [k \in Kinds |-> IF k \in m THEN p ELSE @[k]]]
  /\ maxfd' = IF fd > maxfd THEN fd ELSE maxfd

CreateFileEvent(fd, m, p) ==
  /\ FileOperation
  /\ fd \in open /\ fd < setsize
  /\ AddEvent(fd, m, p)
  /\ UNCHANGED <<setsize, open>>

\* MainAcceptTcpHandler: the kernel gives the lowest descriptor that is free;
\* one beyond setsize is closed again.
Accept(p) ==
  /\ FileOperation
  /\ Fds \ open # {}
  /\ LET fd == Min(Fds \ open)
     IN  /\ fd < setsize
         /\ open' = open \cup {fd}
         /\ AddEvent(fd, {"r"}, p)
  /\ UNCHANGED setsize

\* The barrier goes with the writable event.
Removed(m) == IF "w" \in m THEN m \cup {"b"} ELSE m

\* Mutant: the kernel is told what to remove instead of what is left.
RemoveEventInKernel(fd, m) ==
  LET left == mask[fd] \ Removed(m)
  IN  /\ mask' = [mask EXCEPT ![fd] = left]
      /\ poll' = [poll EXCEPT ![fd] = EpollEvents(mask[fd] \cap m)]
      /\ maxfd' = IF fd = maxfd /\ left = {}
                  THEN Max({f \in 0..(setsize - 1) : f < fd /\ mask[f] # {}})
                  ELSE maxfd

\* aeDeleteFileEvent of a descriptor that has events.  The listening socket
\* keeps its own, so the search for the new maxfd ends there at the latest.
RemoveEvent(fd, m) ==
  LET left == mask[fd] \ Removed(m)
  IN  /\ mask' = [mask EXCEPT ![fd] = left]
      /\ poll' = [poll EXCEPT ![fd] = EpollEvents(left)]
      /\ maxfd' = IF fd = maxfd /\ left = {}
                  THEN Max({f \in 0..(setsize - 1) : f < fd /\ mask[f] # {}})
                  ELSE maxfd

DeleteFileEvent(fd, m) ==
  /\ FileOperation
  /\ fd # 0 /\ fd < setsize /\ mask[fd] # {}
  /\ RemoveEvent(fd, m)
  /\ UNCHANGED <<proc, setsize, open>>

\* MainCloseFd: a callback removes what it has registered, and closes.
CloseFd(fd) ==
  /\ FileOperation
  /\ fd \in open \ {0}
  /\ IF fd < setsize /\ mask[fd] # {} THEN RemoveEvent(fd, Kinds)
     ELSE UNCHANGED <<mask, poll, maxfd>>
  /\ open' = open \ {fd}
  /\ UNCHANGED <<proc, setsize>>

\* Slots from maxfd + 1 on are initialised, what lies beyond the array is
\* anything.
Slots(n) ==
  [fd \in Fds |-> IF fd >= n THEN {"r", "w", "b"}
                  ELSE IF fd > maxfd THEN {} ELSE mask[fd]]

\* aeResizeSetSize, called from beforesleep only: inside a file callback it
\* would move the array the loop holds a pointer into.
ResizeSetSize(n) ==
  /\ FileOperation
  /\ phase = "before"
  /\ n # setsize /\ maxfd < n
  /\ setsize' = n
  /\ mask' = Slots(n)
  /\ UNCHANGED <<proc, maxfd, poll, open>>

\* aeCreateTimeEvent: at the head of the list.
CreateTimeEvent(d) ==
  /\ TimeOperation
  /\ nextId <= MaxTimers /\ now + d <= MaxTime
  /\ nextId' = nextId + 1
  /\ list' = <<nextId>> \o list
  /\ when' = [when EXCEPT ![nextId] = now + d]
  /\ live' = [live EXCEPT ![nextId] = TRUE]
  /\ UNCHANGED <<lastTime, owed>>

\* aeDeleteTimeEvent: the event is only marked.
DeleteTimeEvent(t) ==
  /\ TimeOperation
  /\ t \in ToSet(list) /\ live[t]
  /\ live' = [live EXCEPT ![t] = FALSE]
  /\ owed' = owed \ {t}
  /\ UNCHANGED <<list, when, nextId, lastTime>>

Operations ==
  \/ \E fd \in Fds, p \in Procs : \E m \in Masks : CreateFileEvent(fd, m, p)
  \/ \E p \in Procs : Accept(p)
  \/ \E fd \in Fds : CloseFd(fd) \/ \E m \in (SUBSET Kinds) \ {{}} : DeleteFileEvent(fd, m)
  \/ \E n \in 1..Cardinality(Fds) : ResizeSetSize(n)
  \/ \E d \in Delays : CreateTimeEvent(d)
  \/ \E t \in Timers : DeleteTimeEvent(t)

-----------------------------------------------------------------------------
(* aeProcessEvents: waiting.                                               *)

\* Mutant: the head of the list is taken for the nearest.
NearestIsHead == when[Head(list)]

\* aeSearchNearestTimer; deleted events count until they are removed.
Nearest == Min({when[t] : t \in ToSet(list)})

\* Mutant: time events are not asked for a timeout.
StartPollForever ==
  /\ phase = "before"
  /\ phase' = "poll"
  /\ wait' = NoTimeout
  /\ UNCHANGED <<fileVars, timerVars, now, fired, stage, invert, any,
                 callback, te, finalized, owed, spent>>

StartPoll ==
  /\ phase = "before"
  /\ phase' = "poll"
  /\ wait' = IF list = << >> THEN NoTimeout
             ELSE IF Nearest > now THEN Nearest - now ELSE 0
  /\ UNCHANGED <<fileVars, timerVars, now, fired, stage, invert, any,
                 callback, te, finalized, owed, spent>>

\* What the kernel reports for a descriptor: some of the events it is asked
\* for, or both for an error or a hang-up.
Reports(fd) ==
  IF poll[fd] = NoPoll THEN {} ELSE ((SUBSET poll[fd]) \ {{}}) \cup {Kinds}

\* Orders in which some descriptors can be reported.
Orders == {q \in UNION {[1..n -> Fds] : n \in 0..MaxFired} :
             \A i, j \in DOMAIN q : q[i] = q[j] => i = j}

StartFiring(f) ==
  /\ phase = "poll"
  /\ phase' = "fire"
  /\ fired' = f
  /\ wait' = 0
  /\ UNCHANGED <<fileVars, timerVars, now, stage, invert, any, callback, te,
                 finalized, owed, spent>>

\* epoll_wait returns with events, or with none because of a signal.
PollReturns ==
  \E q \in Orders : \E m \in [DOMAIN q -> SUBSET Kinds] :
    /\ \A i \in DOMAIN q : m[i] \in Reports(q[i])
    /\ StartFiring([i \in DOMAIN q |-> [fd |-> q[i], mask |-> m[i]]])

PollTimesOut == wait = 0 /\ StartFiring(<< >>)

-----------------------------------------------------------------------------
(* aeProcessEvents: file events.                                           *)

\* Mutant: only the fired mask is looked at.
WantsFired(kind) == kind \in Head(fired).mask

\* fe->mask & mask & kind, looked at anew before each of the two calls.
Wants(kind) == kind \in mask[Head(fired).fd] \cap Head(fired).mask

\* The second call is left out if it would be the same function again.
Again ==
  LET p == proc[Head(fired).fd] IN ~any \/ p["w"] # p["r"]

FireStep(from, kind, condition, to) ==
  /\ phase = "fire" /\ callback = "none" /\ fired # << >>
  /\ stage = from
  /\ callback' = IF condition THEN kind ELSE "none"
  /\ any' = (condition \/ any)
  /\ stage' = to
  /\ UNCHANGED <<fileVars, timerVars, now, phase, wait, fired, te, finalized,
                 owed, spent>>

FireReadable ==
  LET inverted == "b" \in mask[Head(fired).fd]
  IN  /\ FireStep("first", "r", ~inverted /\ Wants("r"), "second")
      /\ invert' = inverted

FireWritable ==
  FireStep("second", "w", Wants("w") /\ Again, "last") /\ UNCHANGED invert

FireReadableLast ==
  FireStep("last", "r", invert /\ Wants("r") /\ Again, "next") /\ UNCHANGED invert

FireNext ==
  /\ phase = "fire" /\ callback = "none" /\ fired # << >>
  /\ stage = "next"
  /\ fired' = Tail(fired)
  /\ stage' = "first" /\ invert' = FALSE /\ any' = FALSE
  /\ UNCHANGED <<fileVars, timerVars, now, phase, wait, callback, te,
                 finalized, owed, spent>>

FileCallbackReturns ==
  /\ callback \in Kinds
  /\ callback' = "none"
  /\ UNCHANGED <<fileVars, fireVars, timerVars, now, phase, te, finalized,
                 owed, spent>>

-----------------------------------------------------------------------------
(* processTimeEvents.                                                      *)

First(s) == IF s = << >> THEN 0 ELSE Head(s)

Position(t) == CHOOSE i \in DOMAIN list : list[i] = t

\* te->next
After(t) == IF Position(t) = Len(list) THEN 0 ELSE list[Position(t) + 1]

\* A clock that was set back makes every time event due.  (The seconds of its
\* time become 0, which no clock shows any more.)
StartTimers ==
  /\ phase = "fire" /\ fired = << >>
  /\ phase' = "timers"
  /\ LET skewed == now \div Second < lastTime IN
     /\ when' = [t \in Timers |->
                   IF skewed /\ t \in ToSet(list) THEN 0 ELSE when[t]]
     /\ owed' = {t \in ToSet(list) : live[t] /\ (skewed \/ when[t] <= now)}
  /\ lastTime' = now \div Second
  /\ te' = First(list)
  /\ UNCHANGED <<fileVars, fireVars, now, list, live, nextId, callback,
                 finalized, spent>>

InPass == phase = "timers" /\ callback = "none" /\ te # 0

Without(t) == RemoveAt(list, Position(t))

\* A deleted event is unlinked, its finalizer called, and it is freed.
RemoveTimeEvent ==
  /\ InPass /\ ~live[te]
  /\ list' = Without(te)
  /\ finalized' = [finalized EXCEPT ![te] = @ + 1]
  /\ callback' = "finalizer"
  /\ te' = After(te)
  /\ UNCHANGED <<fileVars, fireVars, now, when, live, nextId, lastTime, phase,
                 owed, spent>>

FinalizerReturns ==
  /\ callback = "finalizer"
  /\ callback' = "none"
  /\ UNCHANGED <<fileVars, fireVars, timerVars, now, phase, te, finalized,
                 owed, spent>>

CallTimeEvent ==
  /\ InPass /\ live[te] /\ when[te] <= now
  /\ callback' = "timer"
  /\ owed' = owed \ {te}
  /\ UNCHANGED <<fileVars, fireVars, timerVars, now, phase, te, finalized, spent>>

SkipTimeEvent ==
  /\ InPass /\ live[te] /\ when[te] > now
  /\ te' = After(te)
  /\ UNCHANGED <<fileVars, fireVars, timerVars, now, phase, callback,
                 finalized, owed, spent>>

\* timeProc returns the delay to its next call (0 is one, too) or AE_NOMORE.
TimerReturns ==
  /\ callback = "timer"
  /\ callback' = "none"
  /\ te' = After(te)
  /\ \/ \E d \in Delays :
          /\ now + d <= MaxTime
          /\ when' = [when EXCEPT ![te] = now + d]
          /\ UNCHANGED live
     \/ live' = [live EXCEPT ![te] = FALSE] /\ UNCHANGED when
  /\ UNCHANGED <<fileVars, fireVars, now, list, nextId, lastTime, phase,
                 finalized, owed, spent>>

EndPass ==
  /\ phase = "timers" /\ callback = "none" /\ te = 0
  /\ phase' = "before"
  /\ UNCHANGED <<fileVars, fireVars, timerVars, now, callback, te, finalized,
                 owed, spent>>

-----------------------------------------------------------------------------
\* The clock is not read between two file events (only aeCreateTimeEvent would):
\* what they take of it passes after the last.
ClockMoves == phase # "fire" \/ fired = << >>

Tick ==
  /\ ClockMoves /\ now < MaxTime
  /\ now' = now + 1
  /\ wait' = IF wait \in {0, NoTimeout} THEN wait ELSE wait - 1
  /\ UNCHANGED <<fileVars, timerVars, fired, stage, invert, any, phase,
                 callback, te, finalized, owed, spent>>

\* The system clock is set back; a pass under way owes nothing any more.
SetClockBack ==
  /\ ClockMoves /\ now > 0
  /\ Spend("back")
  /\ \E n \in 0..(now - 1) : now' = n
  /\ owed' = {}
  /\ UNCHANGED <<fileVars, fireVars, timerVars, phase, callback, te, finalized>>

Fire == FireReadable \/ FireWritable \/ FireReadableLast \/ FireNext \/ FileCallbackReturns
Pass == StartTimers \/ RemoveTimeEvent \/ FinalizerReturns \/ CallTimeEvent
        \/ SkipTimeEvent \/ TimerReturns \/ EndPass

Next ==
  \/ Operations \/ StartPoll \/ PollReturns \/ PollTimesOut \/ Fire \/ Pass
  \/ Tick \/ SetClockBack

Spec == Init /\ [][Next]_vars

\* The thread runs, callbacks return and time passes (strongly fair because it
\* stands still between two file events); no descriptor has to become ready.
FairSpec ==
  /\ Spec
  /\ WF_vars(StartPoll \/ PollTimesOut \/ Fire \/ Pass)
  /\ SF_vars(Tick)

-----------------------------------------------------------------------------
\* The kernel watches every descriptor for exactly what the table says, and
\* nothing that is closed, through merged registrations, partial removals and
\* reused numbers; the choice between EPOLL_CTL_ADD and MOD rests on it
\* (ae_epoll.c:76, 100-114).
EpollAgrees ==
  \A fd \in Fds :
    /\ fd < setsize => poll[fd] = EpollEvents(mask[fd])
    /\ fd >= setsize \/ fd \notin open => poll[fd] = NoPoll

\* maxfd is the largest descriptor with events and lies inside the arrays: what
\* aeResizeSetSize cuts off was not in use, and what it adds is clean
\* (ae.c:97-108, 155, 184-191).
MaxFdIsLargest ==
  /\ maxfd < setsize
  /\ maxfd = Max({fd \in 0..(setsize - 1) : mask[fd] # {}})

\* The loop's tables, maxfd and the kernel's interest list are three records of
\* the same registrations; no sequence of calls lets them differ.
TablesAgree == TypeOK /\ EpollAgrees /\ MaxFdIsLargest

\* No callback is called for a descriptor that is closed or an event that was
\* removed, by whatever callback of the same iteration (ae.c:551-578).
NoDeadCallback ==
  [][\A kind \in Kinds : (callback' = kind /\ callback # kind) =>
       Head(fired).fd \in open /\ kind \in poll[Head(fired).fd]]_vars

\* A time event is in the list once until its finalizer has been called once,
\* though callbacks add and delete events during the walk (ae.c:268-273,
\* 363-381).
OneLifePerTimer ==
  \A t \in Timers :
    Cardinality({i \in DOMAIN list : list[i] = t}) + finalized[t]
      = IF t < nextId THEN 1 ELSE 0

\* The loop never sleeps past a time event, even if the clock is set back while
\* it sleeps, and never for ever while there is one (ae.c:467-496).
WaitCoversTimers ==
  phase = "poll" =>
    \A t \in ToSet(list) :
      /\ wait # NoTimeout
      /\ live[t] => wait <= IF when[t] > now THEN when[t] - now ELSE 0

\* A pass leaves no time event behind that was due when it began (all of them, if
\* the second is an earlier one than at the last pass), unless a callback deleted
\* it or the clock was set back meanwhile (ae.c:332-348, 358-415).
DueTimersRun == phase = "before" => owed = {}

\* A time event is neither lost nor called late nor freed twice, whatever the
\* callbacks do to the list and whatever happens to the clock.
TimersAreKept == OneLifePerTimer /\ WaitCoversTimers /\ DueTimersRun

\* Every time event that is not deleted is called, whether descriptors become
\* ready or not.
TimersFire ==
  \A t \in Timers : live[t] ~> (~live[t] \/ (callback = "timer" /\ te = t))

=============================================================================
