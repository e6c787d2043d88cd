----------------------------- MODULE Coroutine -----------------------------
(***************************************************************************)
(* src/coroutine/coroutine_3/src: sched.c, call.c, event.c and syscall.c.  *)
(* Coroutines of one thread take turns in a ring through the main thread;  *)
(* they sleep in a tree of timers, wait for edge-triggered events of the   *)
(* descriptor they were created for, call others, and kill each other.     *)
(*                                                                         *)
(* Only the current coroutine acts.  A step is what it does until it is    *)
(* switched away, or one operation that does not switch.                   *)
(***************************************************************************)
EXTENDS Naturals, FiniteSets, FiniteSetsExt, SequencesExt

CONSTANTS MaxCo,        \* bound: coroutines and calls ever made
          Fds, None,
          Delays,       \* what cosleep is called with, in ticks
          MaxTime,      \* bound: the clock
          MaxPolling,   \* MAX_POLLING
          MaxOps        \* bound: operations of user code

ASSUME CoroutineAssumption ==
  /\ MaxCo \in Nat /\ None \notin Nat /\ None \notin Fds
  /\ Delays \subseteq Nat /\ {MaxTime, MaxPolling, MaxOps} \subseteq Nat

VARIABLES
  ring,     \* the run queue from the main thread's node (0) on
  current,
  made,     \* the last id
  at,       \* where a coroutine is, or will go on when it is switched to
  exit,     \* created coroutines that were killed or ended, destroyed ones too
  parent, child, top,   \* cocall: caller, callee, the created coroutine
  when,     \* sleep_info.t
  tree,     \* the sleepers in sleep_info_root
  sleeper,  \* specific[key_sleep]
  fd,       \* coevent_info.fd
  watch,    \* events_tree: whose coevent_info a descriptor is registered with
  data,     \* descriptors with something to read
  room,     \* descriptors with room to write
  edge,     \* descriptors epoll has to report
  polling, now, ops

callVars == <<parent, child, top>>
eventVars == <<watch, data, edge, fd>>
vars == <<ring, current, made, at, exit, callVars, when, tree, sleeper,
          eventVars, room, polling, now, ops>>

Cos == 1..MaxCo
Blocked == {"wait", "sleep", "read", "write"}
Alive == {n \in Cos : at[n] \notin {"unused", "dead"}}
Created == {n \in Alive : parent[n] = None}  \* co_root

TypeOK ==
  /\ ring \in Seq(0..MaxCo) /\ current \in 0..MaxCo /\ made \in 0..MaxCo
  /\ at \in [0..MaxCo -> Blocked \cup
       {"unused", "new", "user", "call", "dead", "poll", "wakeup", "end"}]
  /\ exit \subseteq Cos
  /\ parent \in [Cos -> Cos \cup {None}] /\ child \in [Cos -> Cos \cup {None}]
  /\ top \in [Cos -> Cos]
  /\ when \in [Cos -> 0..MaxTime] /\ tree \subseteq Cos
  /\ sleeper \in [Cos -> Cos \cup {None}]
  /\ fd \in [Cos -> Fds \cup {None}] /\ watch \in [Fds -> Cos \cup {None}]
  /\ data \subseteq Fds /\ room \subseteq Fds /\ edge \subseteq Fds
  /\ polling \in 0..MaxPolling /\ now \in 0..MaxTime /\ ops \in 0..MaxOps

Init ==
  /\ ring = <<0>> /\ current = 0 /\ made = 0
  /\ at = [n \in 0..MaxCo |-> IF n = 0 THEN "user" ELSE "unused"]
  /\ exit = {}
  /\ parent = [n \in Cos |-> None] /\ child = [n \in Cos |-> None]
  /\ top = [n \in Cos |-> n]
  /\ when = [n \in Cos |-> 0] /\ tree = {} /\ sleeper = [n \in Cos |-> None]
  /\ fd = [n \in Cos |-> None] /\ watch = [f \in Fds |-> None]
  /\ data = {} /\ room = Fds /\ edge = {}
  /\ polling = MaxPolling /\ now = 0 /\ ops = 0

-----------------------------------------------------------------------------
(* Switching.                                                              *)

PositionOf(r, n) == CHOOSE i \in DOMAIN r : r[i] = n

\* list_next_entry in the ring r
NextOf(r) ==
  LET i == PositionOf(r, current)
  IN  IF i = Len(r) THEN r[1] ELSE r[i + 1]

\* list_del_init: a node that is in no list stays so.
Unlinked(r, n) == IF Contains(r, n) THEN RemoveAt(r, PositionOf(r, n)) ELSE r

\* list_replace_init
Replaced(n, m) == [i \in DOMAIN ring |-> IF ring[i] = n THEN m ELSE ring[i]]

\* Mutant: whether the coroutine is in the queue already is not asked.
WokenTwice(r, n) == IF child[n] = None THEN Append(r, n) ELSE r

\* __cowakeup: the main thread's node is the first, so its tail is the end.
Woken(r, n) == IF child[n] = None /\ ~Contains(r, n) THEN Append(r, n) ELSE r

\* Mutant: the destructor of the sleep key is not called.
EraseTimerNot(t, s) == tree' = t /\ sleeper' = s

\* sleep_info_cleanup
EraseTimer(t, s) ==
  tree' = t \ {s[current]} /\ sleeper' = [s EXCEPT ![current] = None]

\* coevent_cleanup, by a handler's end or as a destructor: the descriptor is
\* unregistered and closed.
EventCleanup(f) ==
  /\ watch' = [g \in Fds |-> IF g = f THEN None ELSE watch[g]]
  /\ data' = data \ {f} /\ edge' = edge \ {f}
  /\ fd' = [fd EXCEPT ![current] = None]

\* switch_to: from here on next runs.  r, e, a, t and s are the ring, the exit
\* flags, the places, the timers and sleep keys that the caller leaves behind.
\* A coroutine with its exit flag set is destroyed now that its stack is free.
SwitchTo(next, r, e, a, t, s) ==
  /\ current' = next /\ exit' = e
  /\ IF current \in e
     THEN /\ ring' = Unlinked(r, current)
          /\ at' = [a EXCEPT ![current] = "dead"]
          /\ EraseTimer(t, s)
          /\ EventCleanup(fd[current])
     ELSE /\ ring' = r /\ at' = a
          /\ tree' = t /\ sleeper' = s
          /\ UNCHANGED eventVars

\* __schedule(true): the next one is looked up before the node is unlinked.
BlockIn(place, t, s) ==
  /\ SwitchTo(NextOf(ring), Unlinked(ring, current), exit,
              [at EXCEPT ![current] = place], t, s)
  /\ UNCHANGED <<made, callVars, room, polling, now>>

User == at[current] = "user" /\ ops < MaxOps /\ ops' = ops + 1
UserOr(place) == User \/ (at[current] = place /\ UNCHANGED ops)
UserCoroutine == User /\ current # 0
Top == top[current]

-----------------------------------------------------------------------------
(* Operations of the current coroutine.                                    *)

\* cocreate; register_coevent, if f is a descriptor (a new one).
Create(f) ==
  /\ User
  /\ made < MaxCo
  /\ f # None => \A n \in Cos : fd[n] # f
  /\ made' = made + 1
  /\ at' = [at EXCEPT ![made'] = "new"]
  /\ ring' = Append(ring, made')
  /\ fd' = [fd EXCEPT ![made'] = f]
  /\ UNCHANGED <<current, exit, callVars, when, tree, sleeper, watch, data,
                 edge, room, polling, now>>

\* A coroutine begins; coevent_routine registers its descriptor, and epoll
\* reports at once what is there already.
Start ==
  /\ at[current] = "new"
  /\ at' = [at EXCEPT ![current] = "user"]
  /\ watch' = [f \in Fds |-> IF f = fd[current] THEN current ELSE watch[f]]
  /\ edge' = edge \cup (data \cap {fd[current]})
  /\ UNCHANGED <<ring, current, made, exit, callVars, when, tree, sleeper, data,
                 fd, room, polling, now, ops>>

Yield ==
  /\ UserCoroutine
  /\ SwitchTo(NextOf(ring), ring, exit, at, tree, sleeper)
  /\ UNCHANGED <<made, callVars, when, room, polling, now>>

Wait == UserCoroutine /\ BlockIn("wait", tree, sleeper) /\ UNCHANGED when

WaitReturns ==
  /\ at[current] = "wait"
  /\ at' = [at EXCEPT ![current] = "user"]
  /\ UNCHANGED <<ring, current, made, exit, callVars, when, tree, sleeper,
                 eventVars, room, polling, now, ops>>

\* cowakeup; the ids it finds are those of created coroutines.
Wakeup(n) ==
  /\ User
  /\ n \in Created /\ Woken(ring, n) # ring
  /\ ring' = Woken(ring, n)
  /\ UNCHANGED <<current, made, at, exit, callVars, when, tree, sleeper,
                 eventVars, room, polling, now>>

\* Mutant: a sleeping coroutine is only marked.
NextInRingNot(n) == ring

\* A sleeping coroutine comes next.
NextInRing(n) ==
  IF child[n] = None /\ ~Contains(ring, n)
  THEN InsertAt(ring, PositionOf(ring, current) + 1, n)
  ELSE ring

\* cokill: the killed coroutine goes on until it is switched away itself.
Kill(n) ==
  /\ User
  /\ n \in Created
  /\ LET r == NextInRing(n)
     IN  SwitchTo(NextOf(r), r, exit \cup {n}, at, tree, sleeper)
  /\ UNCHANGED <<made, callVars, when, room, polling, now>>

\* __new after the function has returned
Finish ==
  /\ at[current] = "user" /\ current # 0 /\ parent[current] = None
  /\ SwitchTo(NextOf(ring), ring, exit \cup {current}, at, tree, sleeper)
  /\ UNCHANGED <<made, callVars, when, room, polling, now, ops>>

\* cocall on a stack of its own: the callee takes its caller's place in the
\* ring.  A caller whose exit flag is set is destroyed by __switch_to.
Call ==
  /\ UserCoroutine
  /\ made < MaxCo
  /\ made' = made + 1
  /\ parent' = [parent EXCEPT ![made'] = current]
  /\ child' = [child EXCEPT ![current] = made']
  /\ top' = [top EXCEPT ![made'] = Top]
  /\ SwitchTo(made', Replaced(current, made'), exit,
              [at EXCEPT ![made'] = "user", ![current] = "call"], tree, sleeper)
  /\ UNCHANGED <<when, room, polling, now>>

\* __call after the function has returned
Return ==
  /\ at[current] = "user" /\ current # 0 /\ parent[current] # None
  /\ LET p == parent[current]
     IN  /\ child' = [child EXCEPT ![p] = None]
         /\ ring' = Replaced(current, p)
         /\ at' = [at EXCEPT ![p] = "user", ![current] = "dead"]
         /\ current' = p
  /\ UNCHANGED <<made, exit, parent, top, when, tree, sleeper, eventVars, room,
                 polling, now, ops>>

\* rb_insert: a key that is in the tree already is not inserted.
Inserted(n, w) == IF \E m \in tree : when[m] = w THEN tree ELSE tree \cup {n}

\* cosleep, cousleep, conanosleep
Sleep(d) ==
  /\ UserCoroutine
  /\ now + d <= MaxTime
  /\ when' = [when EXCEPT ![current] = now + d]
  /\ BlockIn("sleep", Inserted(current, now + d), [sleeper EXCEPT ![Top] = current])

SleepReturns ==
  /\ at[current] = "sleep"
  /\ sleeper' = [sleeper EXCEPT ![Top] = None]
  /\ tree' = tree \ {current}
  /\ at' = [at EXCEPT ![current] = "user"]
  /\ UNCHANGED <<ring, current, made, exit, callVars, when, eventVars, room,
                 polling, now, ops>>

\* Mutant: coread waits before it looks for data.
ReadableLater == fd[Top] \in data /\ at[current] = "read"

Readable == fd[Top] \in data

\* coread, coread1 and coaccept of the coroutine's descriptor, tried again each
\* time it is switched to.  modify_event changes nothing: its comparison
\* (event.c:110) is always true.
Read ==
  /\ UserOr("read")
  /\ current # 0 /\ fd[Top] # None
  /\ IF Readable
     THEN /\ data' = data \ {fd[Top]}
          /\ at' = [at EXCEPT ![current] = "user"]
          /\ UNCHANGED <<ring, current, made, exit, callVars, tree, sleeper, fd,
                         watch, edge, room, polling, now>>
     ELSE BlockIn("read", tree, sleeper)
  /\ UNCHANGED when

\* cowrite; it may fill the buffer.
Write ==
  /\ UserOr("write")
  /\ current # 0 /\ fd[Top] # None
  /\ \/ /\ fd[Top] \in room
        /\ room' \in {room, room \ {fd[Top]}}
        /\ at' = [at EXCEPT ![current] = "user"]
        /\ UNCHANGED <<ring, current, made, exit, callVars, tree, sleeper,
                       eventVars, polling, now>>
     \/ fd[Top] \notin room /\ BlockIn("write", tree, sleeper)
  /\ UNCHANGED when

-----------------------------------------------------------------------------
(* The main thread's coloop.                                               *)

Main(from, to) ==
  /\ current = 0 /\ at[0] = from
  /\ at' = [at EXCEPT ![0] = to]
  /\ UNCHANGED <<current, made, exit, callVars, when, tree, sleeper, watch, data,
                 fd, room, now, ops>>

\* while (schedule()): as long as anybody can run
MainSchedules ==
  /\ current = 0 /\ at[0] = "user" /\ Len(ring) > 1
  /\ current' = ring[2]
  /\ UNCHANGED <<ring, made, at, exit, callVars, when, tree, sleeper, eventVars,
                 room, polling, now, ops>>

MainIdle == Len(ring) = 1 /\ Main("user", "poll") /\ UNCHANGED <<ring, edge, polling>>

Watched == {f \in Fds : watch[f] # None}

\* Those of ns that __cowakeup puts in the queue.
Asleep(ns) == {n \in ns : Woken(ring, n) # ring}

\* event_loop: epoll_wait reports every edge, in any order, and __cowakeup wakes
\* the coroutine of each.
PollEvents ==
  /\ edge # {}
  /\ Main("poll", "wakeup")
  /\ \E q \in SetToSeqs(Asleep({watch[f] : f \in edge})) : ring' = ring \o q
  /\ edge' = {}
  /\ polling' = MaxPolling

\* Mutant: the timers are forgotten once a descriptor is registered.
DoesNotWaitAlone ==
  IF tree # {} /\ Watched = {} THEN Min({when[n] : n \in tree}) <= now
                               ELSE Watched = {} \/ (tree = {} /\ polling > 0)

\* epoll_wait returns without an event: the first timer is due, or there is no
\* timer and this is one of the rounds that do not wait, or there is nothing to
\* wait for.
DoesNotWait ==
  IF tree # {} THEN Min({when[n] : n \in tree}) <= now
               ELSE Watched = {} \/ polling > 0

PollNothing ==
  /\ edge = {}
  /\ Main("poll", "wakeup")
  /\ polling' = IF Watched = {} THEN polling
                ELSE IF tree # {} THEN MaxPolling ELSE polling - 1
  /\ DoesNotWait
  /\ UNCHANGED <<ring, edge>>

Due == {n \in tree : when[n] <= now}

\* co_wakeup, in the order of the tree, whose keys are all different.  coloop ends
\* when nobody is left.
WakeSleepers ==
  /\ Main("wakeup", IF Created = {} THEN "end" ELSE "user")
  /\ \E q \in SetToSeqs(Asleep(Due)) :
       /\ \A i, j \in DOMAIN q : i < j => when[q[i]] < when[q[j]]
       /\ ring' = ring \o q
  /\ UNCHANGED <<edge, polling>>

-----------------------------------------------------------------------------
(* Others.                                                                 *)

Other == UNCHANGED <<ring, current, made, at, exit, callVars, when, tree,
                     sleeper, watch, fd, polling, ops>>

PeerSends(f) ==
  /\ f \in {fd[n] : n \in Cos} \ data
  /\ data' = data \cup {f}
  /\ edge' = edge \cup ({f} \cap Watched)
  /\ Other /\ UNCHANGED <<room, now>>

\* No edge: descriptors are registered for EPOLLIN only.
PeerReads(f) ==
  /\ f \notin room
  /\ room' = room \cup {f}
  /\ Other /\ UNCHANGED <<data, edge, now>>

Tick ==
  /\ now < MaxTime /\ now' = now + 1
  /\ Other /\ UNCHANGED <<data, edge, room>>

Ends == Finish \/ Return
Resumes == Start \/ WaitReturns \/ SleepReturns \/ Read \/ Write
Loops == MainSchedules \/ MainIdle \/ PollEvents \/ PollNothing \/ WakeSleepers

\* A killed coroutine has called and is destroyed.  Its callee runs, but the
\* callee's co_t was on the freed stack: what the program does next is undefined.
CallerFreed == \E n \in Alive : parent[n] # None /\ parent[n] \notin Alive

Step ==
  \/ \E f \in Fds \cup {None} : Create(f)
  \/ \E n \in Cos : Wakeup(n) \/ Kill(n)
  \/ \E d \in Delays : Sleep(d)
  \/ Yield \/ Wait \/ Call \/ Ends \/ Resumes \/ Loops
  \/ \E f \in Fds : PeerSends(f) \/ PeerReads(f)
  \/ Tick

\* The program is followed until its behaviour is undefined.
Next == ~CallerFreed /\ Step

Spec == Init /\ [][Next]_vars

\* The thread runs and time passes; a coroutine does not run for ever (MaxOps
\* also bounds its yields: while anybody can run, coloop does not poll).
FairSpec == /\ Spec
            /\ WF_vars(~CallerFreed /\ (Ends \/ Resumes \/ Loops))
            /\ WF_vars(~CallerFreed /\ Tick)

-----------------------------------------------------------------------------
(* Properties.                                                             *)

\* The run queue of sched.c: everyone has one node.  A coroutine that can go on
\* is in it, whatever calls, kills and wake-ups came before; one that called
\* another is not, its callee stands for it.
RingIsRunnable ==
  /\ TypeOK
  /\ \A i, j \in DOMAIN ring : ring[i] = ring[j] => i = j
  /\ ring[1] = 0 /\ Contains(ring, current)
  /\ \A n \in Alive :
       IF child[n] # None
       THEN at[n] = "call" /\ ~Contains(ring, n)
       ELSE Contains(ring, n) \/ at[n] \in Blocked
  /\ \A i \in DOMAIN ring : ring[i] # 0 => ring[i] \in Alive

\* A coroutine can be destroyed while it sleeps and while its descriptor is
\* registered: the destructors of its keys (syscall.c:22, event.c:76) take it out
\* of the timer tree and the event tree before its memory is freed.
NothingDangles ==
  /\ \A n \in tree : n \in Alive /\ at[n] = "sleep" /\ sleeper[top[n]] = n
  /\ \A f \in Watched : watch[f] \in Alive /\ fd[watch[f]] = f
  /\ \A n \in Cos : sleeper[n] # None => n \in Alive /\ sleeper[n] \in Alive

\* Timers and events never name a coroutine whose memory is freed.  A callee that
\* runs is its caller's one callee, and only a caller that was killed and called
\* all the same is freed before its call returns; one that is killed while its
\* call runs is not, whatever wakes, kills and switches come in between.
NobodyIsFreedEarly ==
  /\ NothingDangles
  /\ \A n \in Alive : parent[n] # None =>
       child[parent[n]] = n /\ (parent[n] \in Alive \/ parent[n] \in exit)

\* cokill: a killed coroutine that called nobody is gone before long, wherever it
\* waited; or it calls.
KilledEnd == \A n \in Cos : (n \in exit /\ child[n] = None) ~>
                              (n \notin Alive \/ child[n] # None \/ CallerFreed)

\* A coroutine in the timer tree comes out of cosleep.
SleepersWake == \A n \in Cos : n \in tree ~> (n \notin tree \/ CallerFreed)

\* Not only one that is in the tree: "wakes the coroutines whose sleep is over"
\* (syscall.c:185).
SleepersAllWake == \A n \in Cos : at[n] = "sleep" ~> (at[n] # "sleep" \/ CallerFreed)

\* Data that arrives, before or after the coroutine looks for it, wakes the
\* coroutine that reads: no edge is lost between coread and epoll_wait.
ReadersWake == \A n \in Cos :
  (parent[n] = None /\ at[n] = "read" /\ fd[n] \in data) ~>
    (at[n] # "read" \/ CallerFreed)
=============================================================================
