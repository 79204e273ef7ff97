----------------------------- MODULE TcpServer -----------------------------
(***************************************************************************)
(* A TcpServer (muduo/TcpServer.cpp) with its Acceptor, its pool of loops  *)
(* and their functors, from start() to the end of its destructor: who      *)
(* refers to a connection, and on which loop it is established, closed,    *)
(* removed and destroyed.  The inside of a connection is TcpConnection's;  *)
(* that loops wake up and startLoop returns is EventLoop's and             *)
(* EventLoopThread's.  Loop 0 is the main loop, the pool's are 1, 2, ...   *)
(*                                                                         *)
(* The main thread owns the server and destroys it outside loop().         *)
(***************************************************************************)
EXTENDS Naturals, Sequences

CONSTANTS
  MaxThreads,   \* bound: the most loops setThreadNum asks for
  MaxConns      \* bound: how many clients connect

ASSUME BoundAssumption == MaxThreads \in Nat /\ MaxConns \in Nat

VARIABLES
  place,        \* where the thread of each loop is
  quit,         \* quit_
  pending,      \* pendingFunctors_
  batch,        \* the vector doPendingFunctors has swapped out, kept whole
  done          \* how many functors of the batch have been run

loopVars == <<place, quit, pending, batch, done>>

VARIABLES
  numThreads,   \* numThreads_ at start()
  server,       \* where the server is in its life
  next_,        \* the pool's next_, from 1
  ending,       \* the loop whose EventLoopThread the pool is destroying
  listening,    \* the acceptor's channel is enabled
  connections,  \* connections_: the ids of its names
  conns,        \* every TcpConnection made, by the id in its name
  dropped,      \* history: connections whose functors died with a loop
  crashed       \* a callback has used the destroyed server

serverVars == <<numThreads, server, next_, ending, listening, connections>>
vars == <<loopVars, serverVars, conns, dropped, crashed>>

(* loop(): "test" of quit_, "events" of one poll, "functors".  A loop of    *)
(* the pool is "outside" from its publication to loop()'s first line.       *)
Places == {"none", "outside", "test", "events", "functors", "dead"}

(* The destructor: its body, then the pool's threads, "quit" and "join".    *)
ServerPlaces == {"constructed", "started", "destroying", "quit", "join", "gone"}

Loops == 0 .. numThreads
Ids == 1 .. Len(conns)
Alive(l) == place[l] \notin {"none", "dead"}

Functors == {"established", "destroyed", "remove"} \X Ids \cup {<<"listen", 0>>}

NewConn(l) == [loop |-> l, state |-> "kConnecting", polled |-> FALSE, ended |-> 0]

Init ==
  /\ numThreads \in 0 .. MaxThreads
  /\ place = [l \in Loops |-> IF l = 0 THEN "outside" ELSE "none"]
  /\ quit = [l \in Loops |-> FALSE]
  /\ pending = [l \in Loops |-> <<>>]
  /\ batch = [l \in Loops |-> <<>>]
  /\ done = [l \in Loops |-> 0]
  /\ server = "constructed"
  /\ next_ = 1
  /\ ending = 1
  /\ listening = FALSE
  /\ connections = {}
  /\ conns = <<>>
  /\ dropped = {}
  /\ crashed = FALSE

(* The functors of loop l, those already run included until their vector    *)
(* dies; established, destroyed and remove are bound to a shared_ptr.       *)
Holds(l, c) ==
  \E q \in {pending[l], batch[l]} : \E i \in 1 .. Len(q) : q[i][2] = c

Referenced(c) == c \in connections \/ \E l \in Loops : Holds(l, c)

Queue(l, f) == pending' = [pending EXCEPT ![l] = Append(@, f)]

-----------------------------------------------------------------------------
(* What is done to a connection, on its own loop.                           *)

Established(c) == [c EXCEPT !.state = "kConnected", !.polled = TRUE]

PolledAfterDestroyed_Still == TRUE
PolledAfterDestroyed == FALSE

(* conneectDestroyed.                                                       *)
Destroyed(c) ==
  [c EXCEPT !.state = IF @ = "kConnected" THEN "kDisconnected" ELSE @,
            !.polled = PolledAfterDestroyed,
            !.ended = IF @ = 0 THEN 1 ELSE 2]

Erased_Kept(c) == connections
Erased(c) == connections \ {c}

Home_Main(c) == 0
Home(c) == conns[c].loop

RemoveConnectionInLoop(c) ==
  /\ connections' = Erased(c)
  /\ Queue(Home(c), <<"destroyed", c>>)

-----------------------------------------------------------------------------
(* start() and the acceptor.                                                *)

(* The pool's loops are running when its start returns.                     *)
PoolStarted == [l \in Loops |-> IF l = 0 THEN place[0] ELSE "outside"]

(* listen() is run at once by the main thread, here outside loop(), and     *)
(* else queued.  A second start() changes nothing.                          *)
Start(inMain) ==
  /\ server = "constructed"
  /\ inMain => place[0] = "outside"
  /\ server' = "started"
  /\ place' = PoolStarted
  /\ listening' = inMain
  /\ IF inMain THEN UNCHANGED pending ELSE Queue(0, <<"listen", 0>>)
  /\ UNCHANGED <<quit, batch, done, numThreads, next_, ending, connections,
                 conns, dropped, crashed>>

NextIndex_Stays == next_
NextIndex == (next_ % numThreads) + 1

(* getNextLoop.                                                             *)
NextLoop == IF numThreads = 0 THEN 0 ELSE next_

NewConnection ==
  LET c == Len(conns) + 1
  IN  /\ next_' = IF numThreads = 0 THEN next_ ELSE NextIndex
      /\ connections' = connections \cup {c}
      /\ IF NextLoop = 0
         THEN /\ conns' = Append(conns, Established(NewConn(0)))
              /\ UNCHANGED pending
         ELSE /\ conns' = Append(conns, NewConn(NextLoop))
              /\ Queue(NextLoop, <<"established", c>>)

(* The acceptor's handleRead.  An accept that fails is logged and changes   *)
(* nothing here.                                                            *)
Accept ==
  /\ place[0] = "events" /\ listening
  /\ Len(conns) < MaxConns
  /\ NewConnection
  /\ UNCHANGED <<place, quit, batch, done, numThreads, server, ending,
                 listening, dropped, crashed>>

-----------------------------------------------------------------------------
(* A connection closes, on its own loop: handleClose, and through the close *)
(* callback removeConnection, which uses the server.                        *)

CanClose(c) ==
  /\ Alive(conns[c].loop)
  /\ conns[c].polled /\ conns[c].state = "kConnected"

HandleClose(c) ==
  /\ CanClose(c) /\ place[conns[c].loop] = "events"
  /\ ~crashed
  /\ crashed' = (server = "gone")
  /\ conns' = [conns EXCEPT ![c].state = "kDisconnected"]
  /\ IF conns[c].loop = 0
     THEN RemoveConnectionInLoop(c)
     ELSE Queue(0, <<"remove", c>>) /\ UNCHANGED connections
  /\ UNCHANGED <<place, quit, batch, done, numThreads, server, next_, ending,
                 listening, dropped>>

-----------------------------------------------------------------------------
(* EventLoop::loop of every loop.                                           *)

(* A use of the destroyed server is undefined: the run ends there.          *)
Go(l, from, to) ==
  ~crashed /\ place[l] = from /\ place' = [place EXCEPT ![l] = to]

EnterLoop(l) ==
  /\ l = 0 => server \notin {"destroying", "quit", "join"}
  /\ Go(l, "outside", "test")
  /\ quit' = [quit EXCEPT ![l] = FALSE]
  /\ UNCHANGED <<pending, batch, done, serverVars, conns, dropped, crashed>>

Poll(l) ==
  /\ ~quit[l]
  /\ Go(l, "test", "events")
  /\ UNCHANGED <<quit, pending, batch, done, serverVars, conns, dropped, crashed>>

SwapFunctors(l) ==
  /\ Go(l, "events", "functors")
  /\ batch' = [batch EXCEPT ![l] = pending[l]]
  /\ pending' = [pending EXCEPT ![l] = <<>>]
  /\ UNCHANGED <<quit, done, serverVars, conns, dropped, crashed>>

RunFunctor(l) ==
  LET f == batch[l][done[l] + 1]
      c == f[2]
  IN  /\ ~crashed
      /\ place[l] = "functors" /\ done[l] < Len(batch[l])
      /\ done' = [done EXCEPT ![l] = @ + 1]
      /\ \/ /\ f[1] = "established"
            /\ conns' = [conns EXCEPT ![c] = Established(@)]
            /\ UNCHANGED <<pending, listening, connections, crashed>>
         \/ /\ f[1] = "destroyed"
            /\ conns' = [conns EXCEPT ![c] = Destroyed(@)]
            /\ UNCHANGED <<pending, listening, connections, crashed>>
         \/ /\ f[1] = "remove" /\ server # "gone"
            /\ RemoveConnectionInLoop(c)
            /\ UNCHANGED <<conns, listening, crashed>>
         \/ /\ f[1] = "listen" /\ server # "gone"
            /\ listening' = TRUE
            /\ UNCHANGED <<pending, conns, connections, crashed>>
         \/ /\ f[1] \in {"remove", "listen"} /\ server = "gone"
            /\ crashed' = TRUE
            /\ UNCHANGED <<pending, conns, listening, connections>>
      /\ UNCHANGED <<place, quit, batch, numThreads, server, next_, ending, dropped>>

EndFunctors(l) ==
  /\ done[l] = Len(batch[l])
  /\ Go(l, "functors", "test")
  /\ batch' = [batch EXCEPT ![l] = <<>>]
  /\ done' = [done EXCEPT ![l] = 0]
  /\ UNCHANGED <<quit, pending, serverVars, conns, dropped, crashed>>

(* An EventLoop dies with the functors it has not run.                      *)
Discard(l) ==
  /\ dropped' = dropped \cup {c \in Ids : Holds(l, c)}
  /\ pending' = [pending EXCEPT ![l] = <<>>]

(* loop() returns: to the user, or to threadFunc, whose local loop dies.    *)
LeaveLoop(l) ==
  /\ quit[l]
  /\ IF l = 0
     THEN Go(l, "test", "outside") /\ UNCHANGED <<pending, dropped>>
     ELSE Go(l, "test", "dead") /\ Discard(l)
  /\ UNCHANGED <<quit, batch, done, serverVars, conns, crashed>>

(* The user's code ends the main loop, from any thread.                     *)
QuitMain ==
  /\ Alive(0) /\ server \in {"constructed", "started"}
  /\ quit' = [quit EXCEPT ![0] = TRUE]
  /\ UNCHANGED <<place, pending, batch, done, serverVars, conns, dropped, crashed>>

(* The main EventLoop is destroyed after the server that uses it.           *)
DestroyMain ==
  /\ server = "gone"
  /\ Go(0, "outside", "dead")
  /\ Discard(0)
  /\ UNCHANGED <<quit, batch, done, serverVars, conns, crashed>>

-----------------------------------------------------------------------------
(* ~TcpServer.                                                              *)

ServerGo(from, to) == server = from /\ server' = to

(* The pool has a thread left to destroy, or else the acceptor dies.        *)
Started == \E l \in Loops \ {0} : place[l] # "none"
AfterThread(k) == IF Started /\ k <= numThreads THEN "quit" ELSE "gone"

Destroy ==
  /\ server \in {"constructed", "started"} /\ place[0] = "outside"
  /\ server' = "destroying"
  /\ UNCHANGED <<loopVars, numThreads, next_, ending, listening, connections,
                 conns, dropped, crashed>>

LastFunctors_None(c) == <<>>

(* What the destructor hands to the loop of a connection.                   *)
LastFunctors(c) == << <<"destroyed", c>> >>

(* connections_ is a hash map: its order is any.                            *)
DestroyConnection(c) ==
  /\ server = "destroying" /\ c \in connections
  /\ connections' = connections \ {c}
  /\ IF Home(c) = 0
     THEN conns' = [conns EXCEPT ![c] = Destroyed(@)] /\ UNCHANGED pending
     ELSE /\ pending' = [pending EXCEPT ![Home(c)] = @ \o LastFunctors(c)]
          /\ UNCHANGED conns
  /\ UNCHANGED <<place, quit, batch, done, numThreads, server, next_, ending,
                 listening, dropped, crashed>>

(* The acceptor is the last member to go, and leaves the main poller.       *)
AcceptorDies == listening' = (listening /\ server' # "gone")

(* The pool is destroyed first.                                             *)
DestroyMembers ==
  /\ connections = {}
  /\ ServerGo("destroying", AfterThread(1))
  /\ AcceptorDies
  /\ UNCHANGED <<loopVars, numThreads, next_, ending, connections, conns,
                 dropped, crashed>>

QuitThread ==
  /\ ServerGo("quit", "join")
  /\ quit' = [quit EXCEPT ![ending] = TRUE]
  /\ UNCHANGED <<place, pending, batch, done, numThreads, next_, ending,
                 listening, connections, conns, dropped, crashed>>

MayJoin_Detached(l) == TRUE

(* EventLoopThread's destructor joins (EventLoopThread.tla).                *)
MayJoin(l) == place[l] = "dead"

JoinThread ==
  /\ ServerGo("join", AfterThread(ending + 1))
  /\ MayJoin(ending)
  /\ ending' = ending + 1
  /\ AcceptorDies
  /\ UNCHANGED <<loopVars, numThreads, next_, connections, conns, dropped, crashed>>

-----------------------------------------------------------------------------

LoopStep(l) ==
  Poll(l) \/ SwapFunctors(l) \/ RunFunctor(l) \/ EndFunctors(l) \/ LeaveLoop(l)

ServerStep ==
  \/ \E inMain \in BOOLEAN : Start(inMain)
  \/ Accept
  \/ Destroy
  \/ \E c \in connections : DestroyConnection(c)
  \/ DestroyMembers
  \/ QuitThread
  \/ JoinThread

Next ==
  \/ ServerStep
  \/ \E c \in Ids : HandleClose(c)
  \/ \E l \in Loops : EnterLoop(l) \/ LoopStep(l)
  \/ QuitMain
  \/ DestroyMain

(* A thread inside loop() goes on: EventLoop shows that it wakes up for a   *)
(* queued functor.  Nobody has to call anything.                            *)
Fairness == \A l \in 0 .. MaxThreads : WF_vars(l \in Loops /\ LoopStep(l))

Spec == Init /\ [][Next]_vars /\ Fairness

-----------------------------------------------------------------------------
(* Properties.                                                              *)

(* Types, and: what is queued on a loop is for a connection of that loop,   *)
(* except for removals, which are for the main loop; nothing is queued on a *)
(* loop that is dead or not yet started (TcpServer.cpp:42,88,91,97).        *)
TypeOK ==
  /\ place \in [Loops -> Places] /\ quit \in [Loops -> BOOLEAN]
  /\ server \in ServerPlaces /\ listening \in BOOLEAN /\ crashed \in BOOLEAN
  /\ next_ \in 1 .. numThreads + 1 /\ ending \in 1 .. numThreads + 1
  /\ connections \subseteq Ids /\ dropped \subseteq Ids
  /\ \A l \in Loops :
       /\ done[l] \in 0 .. Len(batch[l])
       /\ pending[l] \in Seq(Functors) /\ batch[l] \in Seq(Functors)
       /\ ~Alive(l) => pending[l] = <<>> /\ batch[l] = <<>>
       /\ \A q \in {pending[l], batch[l]} : \A i \in 1 .. Len(q) :
            l = IF q[i][1] \in {"established", "destroyed"}
                THEN conns[q[i][2]].loop ELSE 0

(* conneectDestroyed is called at most once, however the peer's close, the  *)
(* removal on the main loop and the server's destructor overlap             *)
(* (TcpServer.cpp:42,97).                                                   *)
DestroyedOnce == \A c \in Ids : conns[c].ended <= 1

(* The life of each connection; nothing has happened to one not yet made.   *)
Life(c) == INSTANCE ConnectionLife WITH
  state <- IF c \in Ids THEN conns[c].state ELSE "kConnecting",
  told <- IF c \in Ids /\ conns[c].state = "kDisconnected" THEN 1 ELSE 0,
  ended <- IF c \in Ids THEN conns[c].ended ELSE 0

(* Every connection is established, closed and destroyed as one life of     *)
(* ConnectionLife, the one that TcpConnection implements, however the       *)
(* peers' closes, the removals on the main loop and the server's destructor *)
(* overlap (TcpServer.cpp:42,86-98).                                        *)
LivesOnce ==
  /\ \A c \in 1 .. MaxConns : Life(c)!Init
  /\ [][\A c \in 1 .. MaxConns : [Life(c)!Next]_(Life(c)!lifeVars)]_vars

(* The assertion of ~TcpConnection (TcpConnection.cpp:44), over all the     *)
(* places that may hold the last reference.  For connections that nobody    *)
(* shuts down, as all are here, the one exception is functors that die with *)
(* a loop, which only the server's end can bring about, and                 *)
(* conneectDestroyed among them.  (For what a shutdown() adds see           *)
(* EndsDisconnected in TcpConnection.)                                      *)
FreedDisconnected ==
  \A c \in Ids : ~Referenced(c) =>
    \/ conns[c].state = "kDisconnected"
    \/ c \in dropped /\ server \in {"quit", "join", "gone"}

(* The poller of a live loop never keeps the channel of a connection that   *)
(* has been freed: the functor that removes the channel holds a reference   *)
(* (TcpServer.cpp:97, TcpConnection.cpp:79).                                *)
RegisteredIsAlive ==
  \A c \in Ids : conns[c].polled /\ Alive(conns[c].loop) => Referenced(c)

(* Once ~TcpServer has returned, no connection can call the server's close  *)
(* callback, bound to a bare this (TcpServer.cpp:86): those of the main     *)
(* loop have been destroyed, and the threads of the others joined.  What    *)
(* can still reach it are functors queued before, if the main loop is run   *)
(* again: exactly these crash.                                              *)
CloseCallbacksEnd ==
  /\ server = "gone" => \A c \in Ids : ~CanClose(c)
  /\ crashed => \E i \in 1 .. Len(batch[0]) : batch[0][i][1] \in {"remove", "listen"}

(* As many consecutive connections as the pool has loops are on as many     *)
(* loops, and none on the main loop (EventLoopThreadPool.cpp:37-44).        *)
RoundRobin ==
  numThreads > 0 =>
    /\ \A c \in Ids : conns[c].loop # 0
    /\ \A c, d \in Ids : c < d /\ d < c + numThreads => conns[c].loop # conns[d].loop

(* A connection that its peer closes is forgotten and freed, as long as the *)
(* main loop goes on: erased on the main loop, its channel removed on its   *)
(* own, its last reference dropped (TcpServer.cpp:90-98).                   *)
ClosedIsForgotten ==
  \A c \in 1 .. MaxConns :
    (c \in Ids /\ conns[c].state = "kDisconnected")
      ~> (~Referenced(c) \/ place[0] \in {"outside", "dead"} \/ crashed)
=============================================================================
