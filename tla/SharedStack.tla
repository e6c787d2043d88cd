---------------------------- MODULE SharedStack ----------------------------
(***************************************************************************)
(* src/coroutine/coroutine_1/coroutine.c: coroutines that run one at a     *)
(* time on the one stack of their schedule, and keep a copy of what they   *)
(* had there while they do not run.                                        *)
(***************************************************************************)
EXTENDS Integers, FiniteSetsExt, SequencesExt

CONSTANTS FirstCap,  \* DEFAULT_COROUTINE
          MaxMade,   \* bound: coroutines made
          StackSize, \* slots of S->stack
          NoCo       \* NULL

ASSUME StackAssumption ==
  /\ FirstCap \in Nat \ {0} /\ MaxMade \in Nat \ {0} /\ StackSize \in Nat \ {0}
  /\ NoCo \notin [who : Nat, status : Nat, ctx : Nat, cap : Nat, saved : Seq(Nat \X {0, 1})]

VARIABLES co,      \* S->co: 0..cap - 1 to a coroutine or NULL
          nco, running,
          stack,   \* S->stack, from its top down
          sp,      \* how much of it is in use
          made,    \* history: coroutines made, each is a number
          mine     \* history: what each coroutine has put on its stack

stackVars == <<co, nco, running, stack, sp, made, mine>>

READY == 1
RUNNING == 2
SUSPEND == 3

Cells == (1..MaxMade) \X {0, 1}
S_cap == Cardinality(DOMAIN co)
Used == {id \in DOMAIN co : co[id] # NoCo}

StackTypeOK ==
  /\ DOMAIN co = 0..S_cap - 1 /\ nco \in 0..S_cap /\ running \in -1..S_cap - 1
  /\ \A id \in Used : co[id] \in [who : 1..made, status : Nat, ctx : 0..StackSize,
                                  cap : 0..StackSize, saved : Seq(Cells)]
  /\ Len(stack) = StackSize /\ sp \in 0..StackSize
  /\ made \in 0..MaxMade /\ DOMAIN mine = 1..made

StackInit ==
  /\ co = [id \in 0..FirstCap - 1 |-> NoCo] /\ nco = 0 /\ running = -1
  /\ stack = [i \in 1..StackSize |-> <<1, 0>>] /\ sp = 0
  /\ made = 0 /\ mine = << >>

-----------------------------------------------------------------------------

\* the first free slot from nco on, around the array
FreeSlot ==
  LET i == Min({j \in 0..S_cap - 1 : co[(j + nco) % S_cap] = NoCo})
  IN  (i + nco) % S_cap

\* coroutine_new, called from the main context or from a coroutine
New ==
  /\ made < MaxMade
  /\ LET full == nco >= S_cap
         id == IF full THEN S_cap ELSE FreeSlot
         slots == IF full THEN 0..2 * S_cap - 1 ELSE DOMAIN co
         C == [who |-> made + 1, status |-> READY, ctx |-> 0, cap |-> 0, saved |-> << >>]
     IN  co' = [j \in slots |-> IF j = id THEN C ELSE IF j \in DOMAIN co THEN co[j] ELSE NoCo]
  /\ nco' = nco + 1 /\ made' = made + 1 /\ mine' = Append(mine, << >>)
  /\ UNCHANGED <<running, stack, sp>>

\* coroutine_resume of a new one: it starts at the top of the stack, and its
\* status becomes its id (line 159)
ResumeReady(id) ==
  /\ running = -1 /\ co[id] # NoCo /\ co[id].status = READY
  /\ running' = id /\ co' = [co EXCEPT ![id].status = id] /\ sp' = 0
  /\ UNCHANGED <<nco, stack, made, mine>>

\* of a suspended one: its copy goes back to the top of the stack
ResumeSuspended(id) ==
  /\ running = -1 /\ co[id] # NoCo /\ co[id].status = SUSPEND
  /\ running' = id /\ co' = [co EXCEPT ![id].status = RUNNING] /\ sp' = co[id].ctx
  /\ stack' = [i \in 1..StackSize |->
                 IF i <= Len(co[id].saved) THEN co[id].saved[i] ELSE stack[i]]
  /\ UNCHANGED <<nco, made, mine>>

\* The coroutine works: it calls, with an argument, and returns.
CallsWith(v) ==
  LET t == co[running].who
  IN  /\ running # -1 /\ sp < StackSize
      /\ sp' = sp + 1 /\ stack' = [stack EXCEPT ![sp + 1] = <<t, v>>]
      /\ mine' = [mine EXCEPT ![t] = Append(@, <<t, v>>)]
      /\ UNCHANGED <<co, nco, running, made>>

ReturnsFrom ==
  /\ running # -1 /\ sp > 0
  /\ sp' = sp - 1 /\ mine' = [mine EXCEPT ![co[running].who] = SubSeq(@, 1, sp - 1)]
  /\ UNCHANGED <<co, nco, running, stack, made>>

\* Mutant: the copy is taken only when the buffer had to grow.
SaveGrown(C) ==
  IF C.cap < sp THEN [C EXCEPT !.cap = sp, !.saved = SubSeq(stack, 1, sp)] ELSE C

\* _save_stack, of a stack that fits
SaveStack(C) ==
  [C EXCEPT !.cap = IF C.cap < sp THEN sp ELSE C.cap, !.saved = SubSeq(stack, 1, sp)]

\* coroutine_yield
Yield ==
  /\ running # -1
  /\ co' = [co EXCEPT ![running] = [SaveStack(@) EXCEPT !.status = SUSPEND, !.ctx = sp]]
  /\ running' = -1
  /\ UNCHANGED <<nco, stack, sp, made, mine>>

\* mainfunc, after func returned: _co_delete
Ends ==
  /\ running # -1 /\ sp = 0
  /\ co' = [co EXCEPT ![running] = NoCo] /\ nco' = nco - 1 /\ running' = -1
  /\ UNCHANGED <<stack, sp, made, mine>>

StackNext ==
  \/ New \/ Yield \/ Ends \/ ReturnsFrom
  \/ \E id \in DOMAIN co : ResumeReady(id) \/ ResumeSuspended(id)
  \/ \E v \in {0, 1} : CallsWith(v)

StackSpec == StackInit /\ [][StackNext]_stackVars

-----------------------------------------------------------------------------

\* Whoever runs finds on the shared stack what it had there, whatever ran in
\* between, however much deeper (coroutine.c:168 and 192).
StackIsOwn == running # -1 => SubSeq(stack, 1, sp) = mine[co[running].who]

\* nco counts the slots in use, so that a slot is found when nco < cap, and the
\* assert(0) of coroutine_new (line 124) is not reached; and no coroutine is
\* ever in two slots.
SlotsAreCounted ==
  /\ nco = Cardinality(Used)
  /\ \A i, j \in Used : co[i].who = co[j].who => i = j

\* Coroutines that take turns keep their stacks and their slots.
StacksAreKept == StackTypeOK /\ StackIsOwn /\ SlotsAreCounted
=============================================================================
