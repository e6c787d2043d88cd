------------------------------ MODULE LiveChat ------------------------------
(***************************************************************************)
(* src/LiveChat/src/backend/server.js. Every handler of a socket event     *)
(* asks redis and goes on in a callback. The server has one connection to  *)
(* redis and is its only client: a command sees what the commands sent     *)
(* before it did, and replies come in the order of the commands, with      *)
(* other events in between. An exception ends its callback and nothing     *)
(* else (line 13).                                                         *)
(***************************************************************************)
EXTENDS Integers, FiniteSets, SequencesExt

CONSTANTS Users, Sockets,
          MaxAsks,    \* bound: registrations and logins of a socket, of any names
          MaxSent,    \* bound: messages sent
          MaxReads,   \* bound: read events
          NoAccount   \* what hgetall gives of a user who is not registered

ASSUME ChatAssumption ==
  /\ MaxAsks \in Nat /\ MaxSent \in Nat /\ MaxReads \in Nat
  /\ \A m \in SUBSET [id : 1..MaxSent, peer : Users, read : BOOLEAN] : NoAccount # m

VARIABLES accounts,   \* redis: the messages of the sessions of each user
          room,       \* redis: the set 'room'
          online,     \* loginNameMapSocket
          replies,    \* of redis, with the callbacks that wait for them
          ended,      \* the sockets that were disconnected
          asks, answers, sent, reads,
          stranded,   \* history: who came in on a socket that had ended, or was
                      \* not the name that the end of its socket took out
          saved,      \* history: the messages written into each account
          overlapped  \* history: who was written over by a callback that had
                      \* read the account before its last change

chatVars ==
  <<accounts, room, online, replies, ended, asks, answers, sent, reads, stranded, saved, overlapped>>

Messages == [id : 1..MaxSent, peer : Users, read : BOOLEAN]
Asking == {"registerUser", "registerRoom", "loginUser", "loginRoom"}

ChatTypeOK ==
  /\ \A u \in Users : accounts[u] = NoAccount \/ accounts[u] \subseteq Messages
  /\ room \subseteq Users /\ DOMAIN online \subseteq Users
  /\ \A u \in DOMAIN online : online[u] \in Sockets
  /\ ended \subseteq Sockets /\ stranded \subseteq Users
  /\ \A i \in DOMAIN replies :
       replies[i].cb \in Asking \cup {"sendFrom", "sendTo", "read", "leave"}
  /\ \A u \in Users : saved[u] \subseteq 1..MaxSent

ChatInit ==
  /\ accounts \in [Users -> {NoAccount, {}}] /\ room = {} /\ online = << >> /\ replies = << >>
  /\ ended = {} /\ stranded = {}
  /\ asks = [s \in Sockets |-> 0] /\ answers = [s \in Sockets |-> 0]
  /\ sent = 0 /\ reads = 0 /\ saved = [u \in Users |-> {}] /\ overlapped = {}

-----------------------------------------------------------------------------
(* Events of the sockets.                                                  *)

\* hgetall of a user, smembers of the room: what they will reply
UserReply(cb, s, u) == [cb |-> cb, s |-> s, u |-> u, info |-> accounts'[u]]
RoomReply(cb, s, u) == [cb |-> cb, s |-> s, u |-> u, info |-> room]
SendReply(cb, u, peer, id) ==
  [cb |-> cb, u |-> u, info |-> accounts'[u], peer |-> peer, id |-> id]
ReadReply(u, peer) == [cb |-> "read", u |-> u, info |-> accounts'[u], peer |-> peer]

Kept == UNCHANGED <<accounts, room, saved, overlapped>>

\* onRegister with the right code, and onLogin, up to their hgetall.  Neither looks
\* whether the socket has a name already.
Ask(s, cb, u) ==
  /\ s \notin ended /\ asks[s] < MaxAsks
  /\ asks' = [asks EXCEPT ![s] = @ + 1] /\ Kept
  /\ replies' = Append(replies, UserReply(cb, s, u))
  /\ UNCHANGED <<online, ended, answers, sent, reads, stranded>>

\* onSendMsg, up to its hgetall.  The message says who it is from, and any socket
\* may send it, logged in or not.
SendMsg(from, to) ==
  /\ ended # Sockets /\ sent < MaxSent /\ to # from
  /\ sent' = sent + 1 /\ Kept
  /\ replies' = Append(replies, SendReply("sendFrom", from, to, sent + 1))
  /\ UNCHANGED <<online, ended, asks, answers, reads, stranded>>

\* onRead, of any socket: two hgetalls, each with its callback
ReadAll(from, to) ==
  /\ ended # Sockets /\ reads < MaxReads /\ to # from
  /\ reads' = reads + 1 /\ Kept
  /\ replies' = Append(Append(replies, ReadReply(to, from)), ReadReply(from, to))
  /\ UNCHANGED <<online, ended, asks, answers, sent, stranded>>

\* onDisconnected: one entry with the id of the socket goes, the first; which of
\* several names that is depends on their order of insertion, which is left open.
Disconnect(s) ==
  /\ s \notin ended /\ ended' = ended \cup {s}
  /\ LET names == {u \in DOMAIN online : online[u] = s}
     IN  \E gone \in IF names = {} THEN {{}} ELSE {{u} : u \in names} :
           /\ online' = [u \in DOMAIN online \ gone |-> online[u]]
           /\ replies' = Append(replies, [cb |-> "leave", u |-> gone, info |-> room])
           /\ stranded' = stranded \cup (names \ gone)
  /\ Kept /\ UNCHANGED <<asks, answers, sent, reads>>

-----------------------------------------------------------------------------
(* Callbacks.                                                              *)

Reply(cb) == replies # << >> /\ Head(replies).cb = cb
R == Head(replies)

\* the callback of the first reply ends, and may have sent another command
Done == replies' = Tail(replies)
GoesOn(reply) == replies' = Append(Tail(replies), reply)

\* emit('register') or emit('login')
Answer(s) == answers' = [answers EXCEPT ![s] = @ + 1]

Refuse(s) == Done /\ Answer(s)

Writes(u, messages, ids) ==
  /\ accounts' = [accounts EXCEPT ![u] = messages]
  /\ saved' = [saved EXCEPT ![u] = @ \cup ids]

Overlaps(u, info) ==
  overlapped' = IF accounts[u] # info THEN overlapped \cup {u} ELSE overlapped

RegisterUser ==
  /\ Reply("registerUser")
  /\ IF R.info # NoAccount THEN Refuse(R.s)
     ELSE GoesOn(RoomReply("registerRoom", R.s, R.u)) /\ UNCHANGED answers
  /\ Kept /\ UNCHANGED <<online, ended, asks, sent, reads, stranded>>

\* Nobody looks whether the socket is still there.
ComesIn ==
  /\ room' = room \cup {R.u}
  /\ online' = [u \in DOMAIN online \cup {R.u} |-> IF u = R.u THEN R.s ELSE online[u]]
  /\ stranded' = IF R.s \in ended THEN stranded \cup {R.u} ELSE stranded \ {R.u}
  /\ Answer(R.s) /\ Done

\* stored without asking again, with no sessions
RegisterRoom ==
  /\ Reply("registerRoom")
  /\ Writes(R.u, {}, {}) /\ Overlaps(R.u, NoAccount) /\ ComesIn
  /\ UNCHANGED <<ended, asks, sent, reads>>

\* a wrong password is refused like a user who is not there
LoginUser ==
  /\ Reply("loginUser")
  /\ \/ Refuse(R.s)
     \/ /\ R.info # NoAccount
        /\ GoesOn(RoomReply("loginRoom", R.s, R.u)) /\ UNCHANGED answers
  /\ Kept /\ UNCHANGED <<online, ended, asks, sent, reads, stranded>>

LoginRoom ==
  /\ Reply("loginRoom")
  /\ IF R.u \in R.info THEN Refuse(R.s) /\ UNCHANGED <<room, online, stranded>> ELSE ComesIn
  /\ UNCHANGED <<accounts, saved, overlapped, ended, asks, sent, reads>>

\* Mutant: a session that is there is not found and is replaced by a new one.
PushedAlone(messages, m) == {x \in messages : x.peer # m.peer} \cup {m}

\* the session of the peer, found or made, gets the message
Pushed(messages, m) == messages \cup {m}

\* Whoever has no account makes the callback throw.
SaveMessage ==
  IF R.info = NoAccount THEN UNCHANGED <<accounts, saved, overlapped>>
  ELSE /\ Writes(R.u, Pushed(R.info, [id |-> R.id, peer |-> R.peer, read |-> FALSE]), {R.id})
       /\ Overlaps(R.u, R.info)

SendFrom ==
  /\ Reply("sendFrom") /\ SaveMessage
  /\ IF R.info = NoAccount THEN Done
     ELSE GoesOn(SendReply("sendTo", R.peer, R.u, R.id))
  /\ UNCHANGED <<room, online, ended, asks, answers, sent, reads, stranded>>

\* the notice that ends it changes nothing, nor does the exception without a socket
SendTo ==
  /\ Reply("sendTo") /\ SaveMessage /\ Done
  /\ UNCHANGED <<room, online, ended, asks, answers, sent, reads, stranded>>

\* No account, no session, or an unread message with nobody to tell: it throws.
MarkRead ==
  /\ Reply("read") /\ Done
  /\ LET session == {m \in R.info : m.peer = R.peer}
         told == R.u \in DOMAIN online \/ \A m \in session : m.read
     IN  IF R.info # NoAccount /\ session # {} /\ told
         THEN /\ Writes(R.u, {IF m \in session THEN [m EXCEPT !.read = TRUE] ELSE m : m \in R.info}, {})
              /\ Overlaps(R.u, R.info)
         ELSE UNCHANGED <<accounts, saved, overlapped>>
  /\ UNCHANGED <<room, online, ended, asks, answers, sent, reads, stranded>>

\* Mutant: nobody is taken out of the room.
LeftByNobody(gone) == room

\* srem of the user with the name of the socket, if the room had one
LeftBy(gone) == room \ (gone \cap R.info)

Leave ==
  /\ Reply("leave") /\ room' = LeftBy(R.u) /\ Done
  /\ UNCHANGED <<accounts, online, ended, asks, answers, sent, reads, stranded, saved, overlapped>>

Callback ==
  \/ RegisterUser \/ RegisterRoom \/ LoginUser \/ LoginRoom
  \/ SendFrom \/ SendTo \/ MarkRead \/ Leave

ChatNext ==
  \/ \E s \in Sockets, cb \in {"registerUser", "loginUser"}, u \in Users : Ask(s, cb, u)
  \/ \E from, to \in Users : SendMsg(from, to) \/ ReadAll(from, to)
  \/ \E s \in Sockets : Disconnect(s)
  \/ Callback

ChatSpec == ChatInit /\ [][ChatNext]_chatVars

-----------------------------------------------------------------------------

\* Every registration and login is answered once, or its callback still waits.
OneAnswerEach ==
  \A s \in Sockets :
    asks[s] = answers[s]
              + Cardinality({i \in DOMAIN replies : replies[i].cb \in Asking /\ replies[i].s = s})

IsLeaving(u) ==
  \E i \in DOMAIN replies : replies[i].cb = "leave" /\ u \in replies[i].u \cap replies[i].info

\* Who is in the room, and so cannot log in (line 168), has an entry in the
\* registry of a socket whose end will find it, or is about to leave, whatever
\* registrations, logins and disconnects overlap: but for two ways to stay in the
\* room for good, with the entry of a socket that is gone.  They are to be
\* answered after the end of the socket, and to be another name of a socket than
\* the one that its end took out.
RoomIsAccountedFor ==
  \A u \in room :
    \/ IsLeaving(u)
    \/ u \in DOMAIN online /\ (online[u] \in ended => u \in stranded)

\* Nobody is kept waiting for an answer, and nobody but the stranded is kept in
\* the room after the end of a socket.
LoginsAreAccountedFor == ChatTypeOK /\ OneAnswerEach /\ RoomIsAccountedFor

\* The sessions of an account keep every message that was saved, unless a
\* callback wrote back what it had read before another one wrote.
MessagesAreKept ==
  \A u \in Users : accounts[u] # NoAccount /\ u \notin overlapped
    => saved[u] = {m.id : m \in accounts[u]}
=============================================================================
