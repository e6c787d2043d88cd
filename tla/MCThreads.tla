----------------------------- MODULE MCThreads -----------------------------
(***************************************************************************)
(* Three components in which several actors take turns, for TLC, in one    *)
(* run: the skip list, the coroutines on one stack, and the chat server.   *)
(* They have nothing to do with each other: which says whose behaviours    *)
(* these are, and the variables of the others stay as they are.            *)
(***************************************************************************)
EXTENDS Skiplist, SharedStack, LiveChat

CONSTANT MaxEvents  \* bound: logins, registrations, messages and read events together

VARIABLE which

Symmetry == Permutations(Users) \cup Permutations(Sockets)

Events == MapThenSumSet(LAMBDA s : asks[s], Sockets) + sent + reads

\* A component that is not run has one initial state.
ThreadsInit ==
  /\ which \in {"skip", "stack", "chat"}
  /\ SkipInit /\ StackInit /\ ChatInit
  /\ which # "chat" => \A u \in Users : accounts[u] = NoAccount

SkipRuns == which = "skip" /\ SkipNext /\ UNCHANGED <<stackVars, chatVars>>
StackRuns == which = "stack" /\ StackNext /\ UNCHANGED <<skipVars, chatVars>>
ChatRuns == which = "chat" /\ ChatNext /\ Events' <= MaxEvents /\ UNCHANGED <<skipVars, stackVars>>

ThreadsNext == (SkipRuns \/ StackRuns \/ ChatRuns) /\ UNCHANGED which

ThreadsSpec == ThreadsInit /\ [][ThreadsNext]_<<skipVars, stackVars, chatVars, which>>
=============================================================================
