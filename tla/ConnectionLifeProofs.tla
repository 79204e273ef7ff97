------------------------ MODULE ConnectionLifeProofs ------------------------
(***************************************************************************)
(* TcpConnection implements ConnectionLife, for any callers, strings,      *)
(* string length, high-water mark, uses and masks.                         *)
(***************************************************************************)
EXTENDS TcpConnectionProofs

(* How many calls of conneectDestroyed are queued.                          *)
Due(queue) == Queued("conneectDestroyed", queue)

(* The server lets go of the connection once, by one queued call, and is    *)
(* told of the end before that; until the connection begins to end, the     *)
(* call is still to come.                                                   *)
LetGo ==
  /\ server = "holds" => Due(pending) = 0
  /\ server = "erased" => removals = 0 /\ "closeCallback" \notin StepsIn(work)
  /\ Due(pending) <= 1
  /\ state \in {"kConnecting", "kConnected"} /\ server # "holds" => Due(pending) = 1

(* What a step has to show.                                                 *)
Lives == LetGo' /\ [Life!Next]_(Life!lifeVars)

-----------------------------------------------------------------------------
(* What the queue does to the count.                                        *)

LEMMA DueNat ==
  ASSUME NEW q \in Seq(Functors)
  PROVE  Due(q) \in Nat
BY QueuedNat DEF Due

(* Queueing another functor leaves the count as it is.                      *)
LEMMA DueAppend ==
  ASSUME NEW q \in Seq(Functors), NEW f \in Functors
  PROVE  Due(Append(q, f)) = IF f.kind = "conneectDestroyed" THEN Due(q) + 1 ELSE Due(q)
<1> DEFINE r == Append(q, f)
           n == Due(q)
           m == Due(r)
<1>1. m = n + (IF f.kind = "conneectDestroyed" THEN 1 ELSE 0)
  BY QueuedAppend DEF Due
<1>2. n \in Nat
  BY DueNat
<1> HIDE DEF n, m, r
<1>3. m = IF f.kind = "conneectDestroyed" THEN n + 1 ELSE n
  BY <1>1, <1>2
<1> QED BY <1>3 DEF n, m, r

LEMMA DueTail ==
  ASSUME NEW q \in Seq(Functors), q # <<>>
  PROVE  Due(Tail(q)) = IF Head(q).kind = "conneectDestroyed" THEN Due(q) - 1 ELSE Due(q)
<1> DEFINE n == Due(q)
           m == Due(Tail(q))
<1>1. n = m + (IF Head(q).kind = "conneectDestroyed" THEN 1 ELSE 0)
  BY QueuedTail DEF Due
<1>2. n \in Nat /\ m \in Nat
  BY DueNat, KindsOfTail
<1> HIDE DEF n, m
<1>3. m = IF Head(q).kind = "conneectDestroyed" THEN n - 1 ELSE n
  BY <1>1, <1>2
<1> QED BY <1>3 DEF n, m

(* At most one functor of the user's is queued behind q.                    *)
LEMMA DueFew ==
  ASSUME NEW q \in Seq(Functors), NEW kind \in UserKinds,
         NEW w \in {<<>>, <<Functor(kind)>>}
  PROVE  q \o w \in Seq(Functors) /\ Due(q \o w) = Due(q)
<1>1. /\ Functor(kind) \in Functors /\ Functor(kind).kind = kind
      /\ kind # "conneectDestroyed"
  BY FunctorFacts DEF AllKinds, UserKinds, Owning
<1>2. CASE w = <<>>
  <2>1. q \o w = q
    BY <1>2, ConcatEmptySeq
  <2> QED BY <2>1
<1>3. CASE w = <<Functor(kind)>>
  <2>1. q \o w = Append(q, Functor(kind))
    BY <1>1, <1>3, AppendIsConcat
  <2>2. Append(q, Functor(kind)) \in Seq(Functors)
    BY <1>1, KindsOfAppend
  <2>3. Due(Append(q, Functor(kind))) = Due(q)
    BY <1>1, DueAppend
  <2> QED BY <2>1, <2>2, <2>3, Zenon
<1> QED BY <1>2, <1>3

(* sendInLoop queues the user's callbacks only.                             *)
LEMMA DueSend ==
  ASSUME NEW bytes \in Seq(Units), NEW queue \in Seq(Functors),
         NEW n, NEW fault, Sent(bytes, queue, n, fault)
  PROVE  Due(pending') = Due(queue)
<1> DEFINE rest == IF fault THEN <<>> ELSE SubSeq(bytes, n + 1, Len(bytes))
           h == HighWater(Len(rest))
           c == IF n = Len(bytes) THEN <<Functor("writeComplete")>> ELSE <<>>
<1>1. pending' = (queue \o h) \o c
  BY DEF Sent
<1>2. h \in {<<>>, <<Functor("highWaterMark")>>}
  BY DEF HighWater
<1>3. c \in {<<>>, <<Functor("writeComplete")>>}
  OBVIOUS
<1> HIDE DEF h, c
<1> DEFINE qh == queue \o h
<1>4. qh \in Seq(Functors) /\ Due(qh) = Due(queue)
  BY <1>2, DueFew DEF UserKinds
<1> HIDE DEF qh
<1>5. Due(qh \o c) = Due(qh)
  BY <1>3, <1>4, DueFew DEF UserKinds
<1> QED BY <1>1, <1>4, <1>5 DEF qh

-----------------------------------------------------------------------------
(* The steps.                                                               *)

(* Steps that take no part in the life, nor in the server's side of it.     *)
LEMMA LifeIdle ==
  ASSUME LetGo, UNCHANGED <<state, downs, server, removals>>,
         Due(pending') = Due(pending),
         "closeCallback" \in StepsIn(work') => "closeCallback" \in StepsIn(work)
  PROVE  Lives
<1>1. LetGo'
  BY DEF LetGo, Due, Queued
<1>2. Ended' = Ended
  BY DEF Ended, Due, Queued
<1> QED BY <1>1, <1>2 DEF Lives, Life!lifeVars

(* Whether the end has come, by the count.                                  *)
LEMMA EndedByDue ==
  /\ Ended = IF server # "holds" /\ Due(pending) = 0 THEN 1 ELSE 0
  /\ Ended' = IF server' # "holds" /\ Due(pending') = 0 THEN 1 ELSE 0
BY DEF Ended, Due

(* conneectEstableished.                                                    *)
LEMMA LifeEstablished ==
  ASSUME ConnInv, LetGo, Established
  PROVE  Lives
<1> DEFINE n == Due(pending)
           m == Due(pending')
<1>1. /\ NextIs("conneectEstableished") /\ pending' = Tail(pending)
      /\ state' = "kConnected" /\ work' = <<"user">>
      /\ UNCHANGED <<downs, server, removals>>
  BY DEF Established, serverVars
<1>2. pending \in Seq(Functors) /\ pending # <<>> /\ "conneectEstableished" \in Kinds(pending)
      /\ Head(pending).kind = "conneectEstableished"
  BY <1>1, AtFunctor DEF NextIs
<1>3. state = "kConnecting" /\ server # "erased"
  BY <1>2 DEF ConnInv, EstablishedOnce, Fresh
<1>4. m = n
  BY <1>1, <1>2, DueTail
<1>5. /\ Ended = (IF server # "holds" /\ n = 0 THEN 1 ELSE 0)
      /\ Ended' = (IF server' # "holds" /\ m = 0 THEN 1 ELSE 0)
  BY EndedByDue
<1>6. /\ server = "holds" => n = 0
      /\ n <= 1
      /\ server # "holds" => n = 1
  BY <1>3 DEF LetGo
<1> HIDE DEF n, m
<1>7. Ended = 0 /\ Ended' = 0
  BY <1>1, <1>4, <1>5, <1>6
<1>8. LetGo'
  <2>1. m = Due(pending')
    BY DEF m
  <2> QED BY <1>1, <1>3, <1>4, <1>6, <2>1 DEF LetGo, Due, Queued
<1>9. Life!Establish
  BY <1>1, <1>3, <1>7 DEF Life!Establish
<1> QED BY <1>8, <1>9 DEF Lives, Life!Next

(* conneectDestroyed.                                                       *)
LEMMA LifeDestroyed ==
  ASSUME ConnInv, LetGo, ~late, Destroyed
  PROVE  Lives
<1> DEFINE n == Due(pending)
           m == Due(pending')
<1>1. /\ NextIs("conneectDestroyed") /\ pending' = Tail(pending)
      /\ UNCHANGED <<server, removals>>
      /\ IF state = "kConnected"
         THEN /\ state' = "kDisconnected" /\ downs' = downs + 1 /\ work' = <<"user", "remove">>
         ELSE UNCHANGED <<state, downs, work>>
  BY DEF Destroyed, EndsHere, serverVars
<1>2. /\ pending \in Seq(Functors) /\ pending # <<>> /\ state # "kConnecting"
      /\ Head(pending).kind = "conneectDestroyed" /\ Tail(pending) \in Seq(Functors)
  BY <1>1, AtFunctor DEF NextIs
<1>3. m = n - 1 /\ n \in Nat /\ m \in Nat
  BY <1>1, <1>2, DueTail, DueNat
<1>4. /\ Ended = (IF server # "holds" /\ n = 0 THEN 1 ELSE 0)
      /\ Ended' = (IF server' # "holds" /\ m = 0 THEN 1 ELSE 0)
  BY EndedByDue
<1>5. n <= 1 /\ (server = "holds" => n = 0)
      /\ (server = "erased" => removals = 0 /\ "closeCallback" \notin StepsIn(work))
  BY DEF LetGo
<1> HIDE DEF n, m
<1>6. n = 1 /\ m = 0 /\ server # "holds" /\ server' # "holds"
  BY <1>1, <1>3, <1>5
<1>7. Ended = 0 /\ Ended' = 1
  BY <1>4, <1>6
<1>8. state' \notin {"kConnecting", "kConnected"}
  BY <1>1, <1>2
<1>9. "closeCallback" \in StepsIn(work') => "closeCallback" \in StepsIn(work)
  <2>1. StepsIn(<<"user", "remove">>) \subseteq {"user", "remove"}
    BY OrderedFew
  <2> QED BY <1>1, <2>1
<1>10. LetGo'
  <2>1. Due(pending') = 0
    BY <1>6 DEF m
  <2>2. server' = "erased" => removals' = 0 /\ "closeCallback" \notin StepsIn(work')
    BY <1>1, <1>5, <1>9
  <2>3. 0 <= 1
    OBVIOUS
  <2> QED BY <1>6, <1>8, <2>1, <2>2, <2>3, Zenon DEF LetGo, Due, Queued
<1>11. Life!End
  BY <1>1, <1>2, <1>7 DEF Life!End
<1> QED BY <1>10, <1>11 DEF Lives, Life!Next

(* handleClose.                                                             *)
LEMMA LifeClosed ==
  ASSUME ConnInv, LetGo, ~late, HandlePeerClose
  PROVE  Lives
<1>1. PICK step \in {"read", "close"} : Doing(step)
  BY DEF HandlePeerClose
<1>2. step \in StepsIn(work)
  BY <1>1, AtWork
<1>3. added /\ Open
  BY <1>1, <1>2 DEF ConnInv, Registration, Closers
<1>4. /\ state' = "kDisconnected" /\ downs' = downs + 1
      /\ UNCHANGED <<pending, server, removals>>
  <2>1. HandleClose /\ UNCHANGED <<pending, server, removals>>
    BY DEF HandlePeerClose, serverVars
  <2> QED BY <1>3, <2>1 DEF Open, HandleClose, AfterClose, StateAfterClose
<1>5. server # "erased"
  BY <1>3 DEF ConnInv, AfterTheEnd, Over, Open
<1>6. Ended' = Ended
  BY <1>4 DEF Ended, Queued
<1>7. LetGo'
  BY <1>4, <1>5 DEF LetGo, Due, Queued
<1>8. Life!Close
  BY <1>3, <1>4, <1>6 DEF Life!Close, Open
<1> QED BY <1>7, <1>8 DEF Lives, Life!Next

(* shutdown, on the loop's thread or another, in time.                      *)
LEMMA LifeAskedToEnd ==
  ASSUME LetGo, UserShutdown \/ \E t \in Callers : SetDisconnecting(t), ~late'
  PROVE  Lives
<1>1. /\ state = "kConnected" /\ state' = "kDisconnecting"
      /\ UNCHANGED <<downs, server, removals, pending, work>>
  BY DEF UserShutdown, SetDisconnecting, serverVars
<1>2. /\ server = "holds" => Due(pending) = 0
      /\ server # "holds" => Due(pending) = 1
  BY <1>1 DEF LetGo
<1>3. Ended = 0
  BY <1>2, EndedByDue
<1>4. Ended' = Ended
  BY <1>1 DEF Ended, Queued
<1>5. LetGo'
  BY <1>1 DEF LetGo, Due, Queued
<1>6. Life!AskToEnd
  BY <1>1, <1>3, <1>4 DEF Life!AskToEnd
<1> QED BY <1>5, <1>6 DEF Lives, Life!Next

(* The close callback finds that the server has not let go.                 *)
LEMMA LifeCloseCallback ==
  ASSUME ConnInv, LetGo, CloseCallback
  PROVE  Lives
<1>1. "closeCallback" \in StepsIn(work) /\ StepsIn(Tail(work)) \subseteq StepsIn(work)
  BY AtWork DEF CloseCallback
<1>2. /\ work' = Tail(work) /\ UNCHANGED <<state, downs, server, pending>>
  BY DEF CloseCallback
<1>3. server # "erased"
  BY <1>1 DEF LetGo
<1>4. LetGo'
  BY <1>2, <1>3 DEF LetGo, Due, Queued
<1>5. Ended' = Ended
  BY <1>2 DEF Ended, Queued
<1> QED BY <1>2, <1>4, <1>5 DEF Lives, Life!lifeVars

(* The server lets go: on the main loop, or when it ends.                   *)
LEMMA LifeLetGo ==
  ASSUME ConnInv, LetGo, ~late, RemoveConnectionInLoop \/ ServerDestructs
  PROVE  Lives
<1> DEFINE n == Due(pending)
           m == Due(pending')
<1>1. pending \in Seq(Functors) /\ n \in Nat /\ server \in {"holds", "erased", "gone"}
      /\ removals \in Nat
  BY DueNat DEF ConnInv, Typed
<1>2. /\ Functor("conneectDestroyed") \in Functors
      /\ Functor("conneectDestroyed").kind = "conneectDestroyed"
  BY FunctorFacts DEF AllKinds, Owning
<1>3. Due(Append(pending, Functor("conneectDestroyed"))) = n + 1
  BY <1>1, <1>2, DueAppend
<1>4. UNCHANGED <<state, downs, work>>
  BY DEF RemoveConnectionInLoop, ServerDestructs
<1>5. /\ server = "holds" => n = 0
      /\ server = "erased" => removals = 0 /\ "closeCallback" \notin StepsIn(work)
      /\ n <= 1
      /\ state \in {"kConnecting", "kConnected"} /\ server # "holds" => n = 1
  BY DEF LetGo
<1>6. \/ server = "holds" /\ server' \in {"erased", "gone"} /\ m = n + 1
      \/ server' = server /\ m = n /\ server # "erased"
      \/ server = "erased" /\ server' = "gone" /\ m = n
  <2>1. CASE RemoveConnectionInLoop
    <3>1. removals > 0
      BY <2>1 DEF RemoveConnectionInLoop
    <3>2. server # "erased"
      BY <1>1, <1>5, <3>1
    <3>3. CASE server = "gone"
      BY <2>1, <3>3 DEF RemoveConnectionInLoop
    <3>4. CASE server = "holds"
      BY <1>3, <2>1, <3>4 DEF RemoveConnectionInLoop
    <3> QED BY <1>1, <3>2, <3>3, <3>4
  <2>2. CASE ServerDestructs
    BY <1>1, <1>3, <2>2 DEF ServerDestructs
  <2> QED BY <2>1, <2>2
<1>7. server' = "erased" => removals' = 0 /\ "closeCallback" \notin StepsIn(work')
  <2> SUFFICES ASSUME server' = "erased"
               PROVE  removals' = 0 /\ "closeCallback" \notin StepsIn(work')
    OBVIOUS
  <2>1. RemoveConnectionInLoop
    BY DEF ServerDestructs
  <2>2. removals > 0 /\ removals' = removals - 1
    BY <2>1 DEF RemoveConnectionInLoop
  <2>3. removals <= 1 /\ ("closeCallback" \in StepsIn(work) => removals = 0)
    BY DEF ConnInv, AfterTheEnd
  <2> QED BY <1>1, <1>4, <2>2, <2>3
<1>8. /\ Ended = (IF server # "holds" /\ n = 0 THEN 1 ELSE 0)
      /\ Ended' = (IF server' # "holds" /\ m = 0 THEN 1 ELSE 0)
  BY EndedByDue
<1> HIDE DEF n, m
<1>9. /\ server' = "holds" => m = 0
      /\ m <= 1
      /\ state \in {"kConnecting", "kConnected"} /\ server' # "holds" => m = 1
      /\ Ended' = Ended
  BY <1>1, <1>5, <1>6, <1>8
<1>10. LetGo'
  <2>1. m = Due(pending')
    BY DEF m
  <2> QED BY <1>4, <1>7, <1>9, <2>1 DEF LetGo, Due, Queued
<1> QED BY <1>4, <1>9, <1>10 DEF Lives, Life!lifeVars

(* Handlers and user code that only use up work, or run the message         *)
(* callback.                                                                *)
LEMMA LifeHandlers ==
  ASSUME ConnInv, LetGo,
         HandleReadData \/ HandleError \/ WriteNothing \/ UserReturn \/ Remove
  PROVE  Lives
<1>1. UNCHANGED <<state, downs, server, removals, pending>>
  BY DEF HandleReadData, HandleError, WriteNothing, UserReturn, Remove, serverVars
<1>2. PICK step \in Steps : Doing(step)
  BY DEF HandleReadData, HandleError, WriteNothing, UserReturn, Remove, Steps
<1>3. StepsIn(Tail(work)) \subseteq StepsIn(work)
  BY <1>2, AtWork
<1>4. "closeCallback" \in StepsIn(work') => "closeCallback" \in StepsIn(work)
  <2>1. CASE HandleReadData
    <3>1. Doing("read") /\ work' = <<"user">> \o Tail(work)
      BY <2>1 DEF HandleReadData
    <3>2. Tail(work) \in Seq(Steps) /\ StepsIn(Tail(work)) \subseteq {"error", "write", "user"}
      BY <3>1, AtWork
    <3> DEFINE w == <<"user">> \o Tail(work)
    <3>3. "closeCallback" \notin StepsIn(w)
      BY <3>2, OrderedPush
    <3> HIDE DEF w
    <3>4. w = work'
      BY <3>1 DEF w
    <3> QED BY <3>3, <3>4
  <2>2. CASE HandleError \/ WriteNothing \/ UserReturn \/ Remove
    <3>1. work' = Tail(work)
      BY <2>2 DEF HandleError, WriteNothing, UserReturn, Remove
    <3> QED BY <1>3, <3>1
  <2> QED BY <2>1, <2>2
<1>5. Due(pending') = Due(pending)
  BY <1>1
<1> QED BY <1>1, <1>4, <1>5, LifeIdle

(* send from the loop's thread, and a send queued from another.             *)
LEMMA LifeSends ==
  ASSUME ConnInv, LetGo, (\E m \in Msgs : UserSend(m)) \/ SendFunctorRuns
  PROVE  Lives
<1>1. UNCHANGED <<state, downs, server, removals, work>> /\ pending \in Seq(Functors)
  BY DEF UserSend, SendFunctorRuns, serverVars, ConnInv, Typed
<1>2. ASSUME NEW m \in Msgs, NEW queue \in Seq(Functors), SendInLoop(Payload(m), queue)
      PROVE  Due(pending') = Due(queue)
  <2>1. Payload(m) \in Seq(Units) /\ Len(Payload(m)) = Size
    BY PayloadTyped
  <2>2. CASE state = "kDisconnected"
    <3>1. pending' = queue
      BY <1>2, <2>2 DEF SendInLoop
    <3> QED BY <3>1
  <2>3. CASE state # "kDisconnected"
    <3>1. PICK n \in 0 .. Len(Payload(m)), fault \in BOOLEAN : Sent(Payload(m), queue, n, fault)
      BY <1>2, <2>1, <2>3, SendParts
    <3> QED BY <2>1, <3>1, DueSend
  <2> QED BY <2>2, <2>3
<1>3. Due(pending') = Due(pending)
  <2>1. ASSUME NEW m \in Msgs, UserSend(m) PROVE Due(pending') = Due(pending)
    BY <1>1, <1>2, <2>1 DEF UserSend
  <2>2. ASSUME SendFunctorRuns PROVE Due(pending') = Due(pending)
    <3>1. NextIs("send") /\ SendInLoop(Payload(Head(pending).msg), Tail(pending))
      BY <2>2 DEF SendFunctorRuns
    <3>2. /\ pending # <<>> /\ Head(pending).kind = "send" /\ Head(pending) \in Functors
          /\ Tail(pending) \in Seq(Functors)
      BY <3>1, AtFunctor DEF NextIs
    <3>3. Head(pending).msg \in Msgs
      BY <3>2 DEF Functors
    <3>4. Due(pending') = Due(Tail(pending))
      BY <1>2, <3>1, <3>2, <3>3
    <3>5. Due(Tail(pending)) = Due(pending)
      BY <1>1, <3>2, DueTail
    <3> QED BY <3>4, <3>5
  <2> QED BY <2>1, <2>2
<1> QED BY <1>1, <1>3, LifeIdle

(* handleWrite.                                                             *)
LEMMA LifeWrites ==
  ASSUME ConnInv, LetGo, WriteSome
  PROVE  Lives
<1>1. /\ UNCHANGED <<state, downs, server, removals>> /\ work' = Tail(work)
      /\ pending' = pending \/ pending' = Append(pending, Functor("writeComplete"))
  BY DEF WriteSome, serverVars
<1>2. StepsIn(Tail(work)) \subseteq StepsIn(work)
  BY AtWork DEF WriteSome
<1>3. /\ Functor("writeComplete") \in Functors
      /\ Functor("writeComplete").kind # "conneectDestroyed"
  BY FunctorFacts DEF AllKinds, Owning
<1>4. pending \in Seq(Functors)
  BY DEF ConnInv, Typed
<1>5. Due(pending') = Due(pending)
  BY <1>1, <1>3, <1>4, DueAppend
<1> QED BY <1>1, <1>2, <1>5, LifeIdle

(* The user's functors, and what is bound to this.                          *)
LEMMA LifeFunctors ==
  ASSUME ConnInv, LetGo, UserFunctor \/ ShutdownFunctorRuns \/ RunsOnDead
  PROVE  Lives
<1>1. /\ UNCHANGED <<state, downs, server, removals>>
      /\ work' = work \/ work' = <<"user">>
      /\ pending' = pending \/ pending' = Tail(pending)
  BY DEF UserFunctor, ShutdownFunctorRuns, RunsOnDead, serverVars
<1>2. PICK kind \in {"writeComplete", "highWaterMark", "send", "shutdown"} : NextIs(kind)
  BY DEF UserFunctor, ShutdownFunctorRuns, RunsOnDead
<1>3. pending \in Seq(Functors) /\ pending # <<>> /\ Head(pending).kind = kind
  BY <1>2, AtFunctor DEF NextIs
<1>4. Due(Tail(pending)) = Due(pending)
  BY <1>3, DueTail
<1>5. Due(pending') = Due(pending)
  BY <1>1, <1>4
<1>6. "closeCallback" \in StepsIn(work') => "closeCallback" \in StepsIn(work)
  BY <1>1, OrderedFew
<1> QED BY <1>1, <1>5, <1>6, LifeIdle

(* What the poll, the peer and the other threads do.                        *)
LEMMA LifeAround ==
  ASSUME ConnInv, LetGo,
         \/ \E revents : HandleEvent(revents)
         \/ \E t \in Callers : \/ \E m \in Msgs : CallSend(t, m)
                               \/ CallShutdown(t) \/ QueueSend(t) \/ QueueShutdown(t)
         \/ PeerCloses \/ Destruct
  PROVE  Lives
<1>1. UNCHANGED <<state, downs, server, removals>>
  BY DEF HandleEvent, CallSend, CallShutdown, QueueSend, QueueShutdown, PeerCloses,
         Destruct, serverVars
<1>2. pending \in Seq(Functors)
  BY DEF ConnInv, Typed
<1>3. Due(pending') = Due(pending)
  <2>1. ASSUME NEW m \in Msgs, pending' = Append(pending, SendFunctor(m))
        PROVE  Due(pending') = Due(pending)
    <3>1. SendFunctor(m) \in Functors /\ SendFunctor(m).kind # "conneectDestroyed"
      BY FunctorFacts
    <3> QED BY <1>2, <2>1, <3>1, DueAppend
  <2>2. ASSUME pending' = Append(pending, Functor("shutdown"))
        PROVE  Due(pending') = Due(pending)
    <3>1. Functor("shutdown") \in Functors /\ Functor("shutdown").kind # "conneectDestroyed"
      BY FunctorFacts DEF AllKinds
    <3> QED BY <1>2, <2>2, <3>1, DueAppend
  <2>3. \/ pending' = pending
        \/ \E m \in Msgs : pending' = Append(pending, SendFunctor(m))
        \/ pending' = Append(pending, Functor("shutdown"))
    BY DEF HandleEvent, CallSend, CallShutdown, QueueSend, QueueShutdown, PeerCloses, Destruct
  <2> QED BY <2>1, <2>2, <2>3
<1>4. "closeCallback" \in StepsIn(work') => "closeCallback" \in StepsIn(work)
  <2>1. CASE \E revents : HandleEvent(revents)
    <3>1. PICK revents : work' = Callbacks(revents)
      BY <2>1 DEF HandleEvent
    <3> QED BY <3>1, OrderedCallbacks
  <2>2. CASE ~\E revents : HandleEvent(revents)
    BY <2>2 DEF CallSend, CallShutdown, QueueSend, QueueShutdown, PeerCloses, Destruct
  <2> QED BY <2>1, <2>2
<1> QED BY <1>1, <1>3, <1>4, LifeIdle

-----------------------------------------------------------------------------
(* Any step but a late store.                                               *)
LEMMA LifeStep ==
  ConnInv /\ (late \/ LetGo) /\ [Next]_vars
    => (late \/ LetGo)' /\ (late' \/ [Life!Next]_(Life!lifeVars))
<1> SUFFICES ASSUME ConnInv, LetGo, [Next]_vars, ~late, ~late' PROVE Lives
  BY LateStays DEF Lives
<1>2. CASE UNCHANGED vars
  BY <1>2, LifeIdle DEF vars
<1>3. CASE WorkStep
  BY <1>3, LifeHandlers, LifeClosed, LifeWrites, LifeCloseCallback DEF WorkStep
<1>4. CASE (\E m \in Msgs : UserSend(m)) \/ SendFunctorRuns
  BY <1>4, LifeSends
<1>5. CASE UserShutdown
  BY <1>5, LifeAskedToEnd
<1>6. CASE RunFunctor
  BY <1>4, <1>6, LifeEstablished, LifeDestroyed, LifeFunctors DEF RunFunctor
<1>7. ASSUME NEW t \in Callers,
             (\E m \in Msgs : CallSend(t, m)) \/ CallShutdown(t) \/ CallerStep(t)
      PROVE  Lives
  BY <1>7, LifeAskedToEnd, LifeAround DEF CallerStep
<1>8. CASE RemoveConnectionInLoop \/ ServerDestructs
  BY <1>8, LifeLetGo
<1>9. CASE (\E revents : HandleEvent(revents)) \/ PeerCloses \/ Destruct
  BY <1>9, LifeAround
<1> QED BY <1>2, <1>3, <1>4, <1>5, <1>6, <1>7, <1>8, <1>9 DEF Next

LEMMA LifeInitially ==
  Init => LetGo /\ Life!Init
<1> SUFFICES ASSUME Init PROVE LetGo /\ Life!Init
  OBVIOUS
<1> DEFINE f == Functor("conneectEstableished")
<1>1. f \in Functors /\ f.kind = "conneectEstableished"
  BY FunctorFacts DEF AllKinds, Owning
<1> HIDE DEF f
<1>2. <<f>> \in Seq(Functors) /\ <<f>> # <<>> /\ Head(<<f>>) = f /\ Tail(<<f>>) = <<>>
  BY <1>1
<1>3. Due(<<>>) = 0
  <2>1. {i \in DOMAIN <<>> : <<>>[i].kind = "conneectDestroyed"} = {}
    OBVIOUS
  <2> QED BY <2>1, FS_EmptySet DEF Due, Queued
<1>4. Due(pending) = 0
  <2>1. pending = <<f>>
    BY DEF Init, f
  <2> DEFINE q == <<f>>
  <2>2. q \in Seq(Functors) /\ q # <<>> /\ Head(q).kind # "conneectDestroyed" /\ Due(Tail(q)) = 0
    BY <1>1, <1>2, <1>3
  <2> HIDE DEF q
  <2>3. Due(q) = 0
    BY <2>2, DueTail
  <2> QED BY <2>1, <2>3 DEF q
<1>5. server = "holds" /\ state = "kConnecting" /\ downs = 0
  BY DEF Init
<1>6. LetGo
  BY <1>4, <1>5 DEF LetGo
<1>7. Life!Init
  BY <1>5, EndedByDue DEF Life!Init
<1> QED BY <1>6, <1>7

(* The inductive invariant, up to a late store.                             *)
LEMMA LetGoInvariant == SafeSpec => [](ConnInv /\ (late \/ LetGo))
<1>1. Init => late \/ LetGo
  BY LifeInitially
<1>2. ConnInv /\ (late \/ LetGo) /\ [Next]_vars => (late \/ LetGo)'
  BY LifeStep
<1> QED BY <1>1, <1>2, ConnInvariant, PTL DEF SafeSpec

-----------------------------------------------------------------------------
(* Results.                                                                 *)

(* When nothing refers to a connection, its end has begun.                  *)
LEMMA UnreferencedHasEnded ==
  ASSUME ConnInv, late \/ LetGo, Unreferenced
  PROVE  state \in {"kDisconnecting", "kDisconnected"}
<1>1. CASE late
  BY <1>1 DEF ConnInv, AfterTheEnd
<1>2. CASE LetGo
  <2>1. {i \in DOMAIN pending : pending[i].kind = "conneectDestroyed"} = {}
    BY DEF Unreferenced, Owning
  <2>2. Due(pending) = 0
    BY <2>1, FS_EmptySet DEF Due, Queued
  <2> QED BY <1>2, <2>2 DEF LetGo, Unreferenced, ConnInv, Typed, States
<1> QED BY <1>1, <1>2

(* Whatever ended the process, nothing moves after it.                      *)
LEMMA StoppedStays ==
  ~Running /\ [Next]_vars => UNCHANGED vars
BY DEF Running, Next, WorkStep, RunFunctor, CallerStep, HandleEvent, HandleReadData,
       HandleError, HandlePeerClose, WriteSome, WriteNothing, UserReturn, CloseCallback,
       Remove, UserSend, UserShutdown, Established, Destroyed, UserFunctor,
       SendFunctorRuns, ShutdownFunctorRuns, RunsOnDead, CallSend, CallShutdown,
       QueueSend, SetDisconnecting, QueueShutdown, RemoveConnectionInLoop,
       ServerDestructs, PeerCloses, Destruct, Doing, NextIs, CallerGo

(* The assertion of ~TcpConnection fails only on a kDisconnecting           *)
(* connection, and only after the server was destroyed or a store was late: *)
(* no connection is destroyed while it still counts as connected            *)
(* (TcpConnection.cpp:42-45, 74).                                           *)
THEOREM AssertionFailsHalfClosed == SafeSpec => []EndsDisconnected
<1>1. Init => EndsDisconnected
  BY DEF Init, EndsDisconnected
<1>2. ConnInv /\ ConnInv' /\ (late \/ LetGo) /\ EndsDisconnected /\ [Next]_vars
        => EndsDisconnected'
  <2> SUFFICES ASSUME ConnInv, ConnInv', late \/ LetGo, EndsDisconnected, [Next]_vars,
                      stopped' = "destructor_assertion"
               PROVE  state' = "kDisconnecting"
    BY DEF EndsDisconnected, ConnInv, Stops
  <2>1. CASE ~Running
    BY <2>1, StoppedStays DEF EndsDisconnected, vars
  <2>2. CASE Running
    <3>1. stopped # "destructor_assertion"
      BY <2>2 DEF Running
    <3>2. Destruct
      BY <3>1
         DEF Next, vars, WorkStep, RunFunctor, CallerStep, HandleEvent, HandleReadData,
         HandleError, HandlePeerClose, HandleClose, WriteSome, WriteNothing, UserReturn,
         CloseCallback, Remove, UserSend, UserShutdown, Established, Destroyed, UserFunctor,
         SendFunctorRuns, ShutdownFunctorRuns, RunsOnDead, CallSend, CallShutdown,
         QueueSend, SetDisconnecting, QueueShutdown, RemoveConnectionInLoop,
         ServerDestructs, PeerCloses
    <3>3. Unreferenced /\ state # "kDisconnected" /\ state' = state
      BY <3>2 DEF Destruct
    <3> QED BY <3>3, UnreferencedHasEnded
  <2> QED BY <2>1, <2>2
<1> QED BY <1>1, <1>2, ConnInvariant, LetGoInvariant, PTL DEF SafeSpec

(* A connection lives one life of ConnectionLife, up to a late store        *)
(* (TcpConnection.cpp:63-80, 121-129).                                      *)
THEOREM ConnectionLivesOnce == SafeSpec => LivesOnce
<1>1. Init => Life!Init
  BY LifeInitially
<1>2. ConnInv /\ (late \/ LetGo) /\ [Next]_vars
        => [late' \/ [Life!Next]_(Life!lifeVars)]_vars
  BY LifeStep
<1> QED BY <1>1, <1>2, LetGoInvariant, PTL DEF SafeSpec, LivesOnce

(* Without a late store the whole of it is such a life.                     *)
THEOREM ConnectionIsALife == SafeSpec /\ []~late => Life!Spec
<1>1. ConnInv /\ (late \/ LetGo) /\ [Next]_vars /\ ~late'
        => [Life!Next]_(Life!lifeVars)
  BY LifeStep
<1>2. Init => Life!Init
  BY LifeInitially
<1> QED BY <1>1, <1>2, LetGoInvariant, PTL DEF SafeSpec, Life!Spec
=============================================================================
