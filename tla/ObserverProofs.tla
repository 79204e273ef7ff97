--------------------------- MODULE ObserverProofs ---------------------------
(***************************************************************************)
(* Theorems about Observer, for every set of users, observers and messages *)
(* and every bound.                                                        *)
(***************************************************************************)
EXTENDS Observer, SequenceTheorems, WellFoundedInduction, TLAPS

Ending(t) == user[t] \in {"dying", "join", "gone"}

(* The types the arguments below rest on.                                   *)
Typed ==
  /\ user \in [Users -> UserPlaces]
  /\ owners \subseteq Users
  /\ ready \in BOOLEAN /\ shutdown \in BOOLEAN
  /\ worker \in WorkerPlaces
  /\ queue \in Seq(Msgs \cup {Empty})
  /\ taken \in Seq(Msgs \cup {Empty})
  /\ current \in Msgs \cup {Empty}

(* A user in create_message holds the Subject, and inside ~Subject nobody   *)
(* does, not for the time of a detach either, the callbacks included.       *)
InsideHolds == \A t \in Users : user[t] = "noting" => t \in owners
NobodyHolds == \A t \in Users : Ending(t) => Holders = {} /\ worker # "calling"

(* Before the constructor returns nobody calls, and the worker can at most  *)
(* wait or take what is in shutdown_ for true.                              *)
BeforeReady ==
  ~ready => /\ \A t \in Users : user[t] = "idle"
            /\ queue = <<>>
            /\ worker \in {"check", "asleep", "never"}

(* shutdown_ is raised by the destructor alone; the worker returns at that, *)
(* with nothing left, and the destructor returns after the worker.          *)
RaisedAtEnd == ready /\ shutdown => \E t \in Users : user[t] \in {"join", "gone"}
ReturnedEmpty == worker = "done" => ready /\ shutdown /\ queue = <<>>
GoneAfterWorker ==
  \A t \in Users : user[t] = "gone" => worker \in {"done", "never"}

(* msg_mutex_ has one holder.                                               *)
OneNoting == \A t, u \in Users : user[t] = "noting" /\ user[u] = "noting" => t = u

EndInv ==
  /\ Typed /\ InsideHolds /\ NobodyHolds /\ BeforeReady
  /\ RaisedAtEnd /\ ReturnedEmpty /\ GoneAfterWorker

-----------------------------------------------------------------------------
(* Before the constructor returns nobody is anywhere yet.                   *)
LEMMA EndInitially == Init => EndInv
<1> SUFFICES ASSUME Init PROVE EndInv
  OBVIOUS
<1>1. /\ ~ready /\ ready \in BOOLEAN /\ shutdown \in BOOLEAN
      /\ worker = "check" /\ queue = <<>> /\ taken = <<>> /\ current = Empty
      /\ owners = Users /\ user = [t \in Users |-> "idle"]
  BY Zenon DEF Init
<1>2. \A t \in Users : user[t] = "idle"
  BY <1>1
<1>3. user \in [Users -> UserPlaces] /\ worker \in WorkerPlaces
  BY <1>1 DEF UserPlaces, WorkerPlaces
<1>4. queue \in Seq(Msgs \cup {Empty}) /\ taken \in Seq(Msgs \cup {Empty})
      /\ current \in Msgs \cup {Empty}
  BY <1>1
<1>5. Typed
  BY <1>1, <1>3, <1>4, Zenon DEF Typed
<1>6. InsideHolds /\ NobodyHolds /\ GoneAfterWorker /\ ReturnedEmpty
  BY <1>1, <1>2 DEF InsideHolds, NobodyHolds, Ending, GoneAfterWorker, ReturnedEmpty
<1>7. worker \in {"check", "asleep", "never"}
  BY <1>1
<1>8. BeforeReady /\ RaisedAtEnd
  BY <1>1, <1>2, <1>7, Zenon DEF BeforeReady, RaisedAtEnd
<1> QED BY <1>5, <1>6, <1>8 DEF EndInv

(* Thread t may call, or remove an observer while lock() finds the Subject. *)
Reaches(t) == MayCall(t) \/ (MayRemove(t) /\ Locks)

(* Who reaches the Subject finds its constructor returned and nobody in     *)
(* ~Subject.                                                                *)
LEMMA CallerHolds ==
  ASSUME EndInv, NEW t \in Users \cup {Worker}, Reaches(t)
  PROVE  /\ ready
         /\ \A u \in Users : ~Ending(u)
         /\ worker # "done"
         /\ t # Worker => user[t] = "idle"
         /\ t # Worker /\ MayCall(t) => t \in owners
<1> USE DEF EndInv, Typed, MayCall, MayRemove, Locks, Reaches
<1>1. ready
  OBVIOUS
<1>2. ASSUME NEW u \in Users PROVE ~Ending(u)
  <2>1. Holders # {} \/ worker = "calling"
    BY DEF Holders
  <2> QED BY <2>1 DEF NobodyHolds
<1>3. worker # "done"
  BY <1>1, <1>2 DEF ReturnedEmpty, RaisedAtEnd, Ending
<1>4. t # Worker => user[t] = "idle"
  BY <1>2 DEF Ending
<1> QED BY <1>1, <1>2, <1>3, <1>4

(* notify() by whoever may call it.                                         *)
LEMMA NotifyKeepsEnd ==
  ASSUME EndInv, NEW msg \in Msgs \cup {Empty}, Notify(msg), ready,
         \A u \in Users : ~Ending(u), worker # "done",
         Typed', InsideHolds', \A u \in Users : ~Ending(u)',
         UNCHANGED <<shutdown, ready, owners>>
  PROVE  EndInv'
<1> USE DEF EndInv, Typed, Notify, Woken
<1>1. NobodyHolds' /\ BeforeReady' /\ GoneAfterWorker'
  BY DEF NobodyHolds, BeforeReady, GoneAfterWorker, Ending
<1>2. RaisedAtEnd' /\ ReturnedEmpty'
  BY DEF RaisedAtEnd, ReturnedEmpty, Ending
<1> QED BY <1>1, <1>2

(* A step of a caller that leaves alone what the Subject's end is about.    *)
LEMMA CallKeepsEnd ==
  ASSUME EndInv, NEW t \in Users \cup {Worker}, Reaches(t),
         NEW to \in {"noting", "listing", "walking"}, UserGo(t, to),
         to = "noting" => MayCall(t),
         current' \in Msgs \cup {Empty},
         UNCHANGED <<queue, shutdown, ready, worker, owners, taken>>
  PROVE  EndInv'
<1>1. /\ ready /\ worker # "done"
      /\ \A u \in Users : ~Ending(u)
      /\ t # Worker => user[t] = "idle"
      /\ t # Worker /\ to = "noting" => t \in owners
  BY CallerHolds
<1> USE DEF EndInv
<1>2. user' \in [Users -> UserPlaces]
  BY DEF Typed, UserGo, UserPlaces
<1>3. Typed'
  BY <1>2 DEF Typed
<1>4. InsideHolds' /\ \A u \in Users : ~Ending(u)'
  BY <1>1 DEF Typed, UserGo, InsideHolds, Ending
<1>5. NobodyHolds' /\ BeforeReady' /\ GoneAfterWorker'
  BY <1>1, <1>4 DEF NobodyHolds, BeforeReady, GoneAfterWorker, Ending
<1>6. RaisedAtEnd' /\ ReturnedEmpty'
  BY <1>1 DEF RaisedAtEnd, ReturnedEmpty, Ending, Typed
<1> QED BY <1>3, <1>4, <1>5, <1>6

(* A step that leaves alone everything the Subject's end is about.          *)
LEMMA UnchangedKeepsEnd ==
  ASSUME EndInv,
         UNCHANGED <<current, queue, shutdown, ready, worker, owners, user, taken>>
  PROVE  EndInv'
BY DEF EndInv, Typed, InsideHolds, NobodyHolds, Holders, BeforeReady,
       RaisedAtEnd, ReturnedEmpty, GoneAfterWorker, Ending

(* The operations users and callbacks call.                                 *)
LEMMA CallsKeepEnd ==
  ASSUME EndInv, NEW t \in Users \cup {Worker},
         \/ NotifyAgain(t)
         \/ \E o \in Observers : SetCallback(t, o) \/ RemoveSelf(t, o)
         \/ t \in Users /\ \E msg \in Msgs : CreateMessage(t, msg)
         \/ t = Worker /\ \E msg \in Msgs : CreateInCallback(msg)
  PROVE  EndInv'
<1> USE DEF EndInv
<1> Reaches(t)
  BY DEF NotifyAgain, SetCallback, RemoveSelf, CreateMessage, CreateInCallback,
     Reaches
<1>0. /\ ready /\ worker # "done"
      /\ \A u \in Users : ~Ending(u)
  BY CallerHolds
<1>1. CASE NotifyAgain(t)
  <2>1. CASE MsgMutexFree
    <3>1. Typed'
      <4>1. /\ queue' = Append(queue, current) /\ worker' = Woken
            /\ UNCHANGED <<current, shutdown, ready, owners, user, taken>>
        BY <1>1, <2>1 DEF NotifyAgain, Notify, userVars
      <4> QED BY <4>1 DEF Typed, Woken, WorkerPlaces
    <3>2. InsideHolds' /\ \A u \in Users : ~Ending(u)'
      BY <1>0, <1>1 DEF NotifyAgain, userVars, InsideHolds, Ending
    <3>3. Notify(current) /\ UNCHANGED <<shutdown, ready, owners>>
      BY <1>1, <2>1 DEF NotifyAgain, userVars
    <3>4. current \in Msgs \cup {Empty}
      BY DEF Typed
    <3> QED BY <1>0, <3>1, <3>2, <3>3, <3>4, NotifyKeepsEnd
  <2>2. CASE ~MsgMutexFree
    BY <1>1, <2>2, UnchangedKeepsEnd DEF NotifyAgain, userVars
  <2> QED BY <2>1, <2>2
<1>2. ASSUME NEW o \in Observers, SetCallback(t, o) PROVE EndInv'
  <2>1. CASE Race(t)
    BY <2>1, UnchangedKeepsEnd DEF Race, subjectVars, workerVars, userVars, historyVars
  <2>2. CASE ~Race(t)
    BY <1>2, <2>2, CallKeepsEnd DEF SetCallback, workerVars, Typed
  <2> QED BY <2>1, <2>2
<1>3. ASSUME NEW o \in Observers, RemoveSelf(t, o) PROVE EndInv'
  <2>1. CASE Race(t)
    BY <2>1, UnchangedKeepsEnd DEF Race, subjectVars, workerVars, userVars, historyVars
  <2>2. CASE ~Race(t)
    BY <1>3, <2>2, CallKeepsEnd DEF RemoveSelf, Typed
  <2> QED BY <2>1, <2>2
<1>4. ASSUME t \in Users, NEW msg \in Msgs, CreateMessage(t, msg) PROVE EndInv'
  BY <1>4, CallKeepsEnd DEF CreateMessage, workerVars, Reaches
<1>5. ASSUME NEW msg \in Msgs, CreateInCallback(msg) PROVE EndInv'
  <2>1. Typed'
    BY <1>5 DEF CreateInCallback, Notify, Woken, Typed, userVars, WorkerPlaces
  <2>2. InsideHolds' /\ \A u \in Users : ~Ending(u)'
    BY <1>0, <1>5 DEF CreateInCallback, userVars, InsideHolds, Ending
  <2> QED
    BY <1>0, <1>5, <2>1, <2>2, NotifyKeepsEnd DEF CreateInCallback, userVars
<1> QED BY <1>1, <1>2, <1>3, <1>4, <1>5

(* What users do once inside an operation or the destructor.                *)
LEMMA UsersKeepEnd ==
  ASSUME EndInv, NEW t \in Users, UserStep(t) \/ DropSubject(t)
  PROVE  EndInv'
<1> USE DEF EndInv
<1> t # Worker /\ user \in [Users -> UserPlaces]
  BY WorkerAssumption DEF Typed
<1>1. CASE NotifyCreated(t)
  <2>1. user' = [user EXCEPT ![t] = "idle"] /\ user[t] = "noting"
        /\ Notify(current) /\ UNCHANGED <<current, shutdown, ready, owners, taken>>
    BY <1>1 DEF NotifyCreated, UserGo, historyVars
  <2>2. t \in owners /\ ready /\ \A u \in Users : ~Ending(u)
    BY <2>1 DEF InsideHolds, BeforeReady, NobodyHolds, Holders, Typed
  <2>3. worker # "done"
    BY <2>2 DEF ReturnedEmpty, RaisedAtEnd, Ending
  <2>4. user' \in [Users -> UserPlaces]
    BY <2>1 DEF UserPlaces
  <2>5. Typed'
    BY <2>1, <2>4 DEF Typed, Notify, Woken, WorkerPlaces
  <2>6. InsideHolds' /\ \A u \in Users : ~Ending(u)'
    BY <2>1, <2>2 DEF InsideHolds, Ending
  <2> QED BY <2>1, <2>2, <2>3, <2>5, <2>6, NotifyKeepsEnd DEF Typed
<1>2. CASE EndListing(t)
  <2> DEFINE last == t \notin owners /\ IsLast(t)
  <2>1. /\ user' = [user EXCEPT ![t] = IF last THEN "dying" ELSE "idle"]
        /\ user[t] \in {"listing", "walking"}
        /\ UNCHANGED <<current, queue, shutdown, ready, worker, owners, taken>>
    BY <1>2, Zenon DEF EndListing, UserGo, subjectVars, workerVars, historyVars
  <2>2. t \in Holders /\ ready /\ \A u \in Users : ~Ending(u)
    BY <2>1 DEF Holders, BeforeReady, NobodyHolds
  <2>3. user' \in [Users -> UserPlaces]
    BY <2>1 DEF UserPlaces
  <2>4. worker # "done" /\ ~shutdown
    BY <2>2 DEF ReturnedEmpty, RaisedAtEnd, Ending, Typed
  <2>5. Typed' /\ BeforeReady'
    BY <2>1, <2>2, <2>3 DEF Typed, BeforeReady
  <2>6. last => Holders' = {} /\ worker' # "calling"
    BY <2>1 DEF Holders, IsLast, Typed
  <2>7. \A u \in Users : Ending(u)' => last
    BY <2>1, <2>2 DEF Ending
  <2>8. NobodyHolds'
    BY <2>6, <2>7 DEF NobodyHolds
  <2>9. InsideHolds' /\ GoneAfterWorker'
    BY <2>1, <2>2 DEF InsideHolds, GoneAfterWorker, Ending
  <2>10. RaisedAtEnd' /\ ReturnedEmpty'
    BY <2>1, <2>4 DEF RaisedAtEnd, ReturnedEmpty
  <2> QED BY <2>5, <2>8, <2>9, <2>10
<1>3. CASE DropSubject(t)
  <2>1. /\ ready /\ worker # "done"
        /\ \A u \in Users : ~Ending(u)
        /\ user[t] = "idle" /\ t \in owners
    BY <1>3, CallerHolds DEF DropSubject, Reaches
  <2>2. /\ owners' = owners \ {t}
        /\ user' = [user EXCEPT ![t] = IF IsLast(t) THEN "dying" ELSE "idle"]
        /\ UNCHANGED <<current, queue, shutdown, ready, worker, taken>>
    BY <1>3 DEF DropSubject, UserGo, subjectVars, workerVars, historyVars
  <2>3. user' \in [Users -> UserPlaces]
    BY <2>2 DEF UserPlaces
  <2>4. Typed' /\ BeforeReady'
    BY <2>1, <2>2, <2>3 DEF Typed, BeforeReady
  <2>5. IsLast(t) => Holders' = {} /\ worker' # "calling"
    BY <2>1, <2>2 DEF Holders, IsLast, Typed
  <2>6. \A u \in Users : Ending(u)' => IsLast(t)
    BY <2>1, <2>2 DEF Ending
  <2>7. NobodyHolds'
    BY <2>5, <2>6 DEF NobodyHolds
  <2>8. InsideHolds' /\ GoneAfterWorker'
    BY <2>1, <2>2 DEF InsideHolds, GoneAfterWorker, Ending
  <2>9. RaisedAtEnd' /\ ReturnedEmpty'
    BY <2>1, <2>2 DEF RaisedAtEnd, ReturnedEmpty, Ending, Typed
  <2> QED BY <2>4, <2>7, <2>8, <2>9
<1>4. CASE Shutdown(t)
  <2>1. /\ user[t] = "dying" /\ shutdown' /\ shutdown' \in BOOLEAN
        /\ worker' = Woken
        /\ user' = [user EXCEPT ![t] = "join"]
        /\ UNCHANGED <<current, queue, ready, owners, taken>>
    BY <1>4, Zenon DEF Shutdown, UserGo, historyVars
  <2>2. user' \in [Users -> UserPlaces]
    BY <2>1 DEF UserPlaces
  <2>3. Typed'
    BY <2>1, <2>2 DEF Typed, Woken, WorkerPlaces
  <2>4. InsideHolds' /\ NobodyHolds' /\ GoneAfterWorker' /\ BeforeReady'
    BY <2>1 DEF InsideHolds, NobodyHolds, Holders, GoneAfterWorker, BeforeReady,
       Ending, Woken
  <2>5. RaisedAtEnd' /\ ReturnedEmpty'
    BY <2>1 DEF RaisedAtEnd, ReturnedEmpty, Woken, BeforeReady, Typed
  <2> QED BY <2>3, <2>4, <2>5
<1>5. CASE Join(t)
  <2>1. /\ user[t] = "join" /\ worker \in {"done", "never"}
        /\ user' = [user EXCEPT ![t] = "gone"]
        /\ UNCHANGED <<current, queue, shutdown, ready, worker, owners, taken>>
    BY <1>5 DEF Join, UserGo, subjectVars, workerVars, historyVars
  <2>2. user' \in [Users -> UserPlaces]
    BY <2>1 DEF UserPlaces
  <2>3. Typed'
    BY <2>1, <2>2 DEF Typed
  <2>4. InsideHolds' /\ NobodyHolds' /\ GoneAfterWorker' /\ BeforeReady'
    BY <2>1 DEF InsideHolds, NobodyHolds, Holders, GoneAfterWorker, BeforeReady,
       Ending
  <2>5. RaisedAtEnd' /\ ReturnedEmpty'
    BY <2>1 DEF RaisedAtEnd, ReturnedEmpty, Typed
  <2> QED BY <2>3, <2>4, <2>5
<1> QED BY <1>1, <1>2, <1>3, <1>4, <1>5 DEF UserStep

(* notification_worker.                                                     *)
LEMMA WorkerKeepsEnd == ASSUME EndInv, WorkerStep PROVE EndInv'
<1> USE DEF EndInv
<1>1. CASE WorkerSleeps
  BY <1>1 DEF WorkerSleeps, subjectVars, userVars, historyVars, Typed, WorkerPlaces,
     InsideHolds, NobodyHolds, Holders, BeforeReady, RaisedAtEnd, ReturnedEmpty,
     GoneAfterWorker, Ending
<1>2. CASE WorkerReturns
  <2>1. /\ worker = "check" /\ shutdown /\ queue = <<>>
        /\ worker' = IF ready THEN "done" ELSE "never"
        /\ UNCHANGED <<current, queue, shutdown, ready, owners, user, taken>>
    BY <1>2 DEF WorkerReturns, MustReturn, subjectVars, userVars, historyVars
  <2>2. ready \in BOOLEAN /\ shutdown \in BOOLEAN
    BY DEF Typed
  <2> QED
    BY <2>1, <2>2 DEF Typed, WorkerPlaces, InsideHolds, NobodyHolds,
       Holders, BeforeReady, RaisedAtEnd, ReturnedEmpty, GoneAfterWorker, Ending
<1>3. CASE WorkerTakes
  <2>1. /\ worker = "check" /\ queue # <<>>
        /\ queue' = Tail(queue) /\ taken' = Append(taken, Head(queue))
        /\ worker' \in {"check", "deliver"}
        /\ UNCHANGED <<current, shutdown, ready, owners, user>>
    BY <1>3 DEF WorkerTakes, userVars
  <2>2. Typed'
    BY <2>1 DEF Typed, WorkerPlaces
  <2>3. ready
    BY <2>1 DEF BeforeReady
  <2> QED
    BY <2>1, <2>2, <2>3 DEF InsideHolds, NobodyHolds, Holders, BeforeReady, RaisedAtEnd,
       ReturnedEmpty, GoneAfterWorker, Ending
<1>4. CASE WorkerVisits
  <2>1. /\ worker = "deliver"
        /\ worker' = "deliver" \/ (worker' = "calling" /\ Holders # {})
        /\ UNCHANGED <<current, queue, shutdown, ready, owners, user, taken>>
    BY <1>4 DEF WorkerVisits, userVars
  <2> QED
    BY <2>1 DEF Typed, WorkerPlaces, InsideHolds, NobodyHolds, Holders, BeforeReady,
       RaisedAtEnd, ReturnedEmpty, GoneAfterWorker, Ending
<1>5. CASE UpdateReturns \/ WorkerDelivered
  <2>1. /\ worker \in {"deliver", "calling"} /\ worker' \in {"deliver", "check"}
        /\ UNCHANGED <<current, queue, shutdown, ready, owners, user, taken>>
    BY <1>5 DEF UpdateReturns, WorkerDelivered, subjectVars, userVars, historyVars
  <2> QED
    BY <2>1 DEF Typed, WorkerPlaces, InsideHolds, NobodyHolds, Holders, BeforeReady,
       RaisedAtEnd, ReturnedEmpty, GoneAfterWorker, Ending
<1> QED BY <1>1, <1>2, <1>3, <1>4, <1>5 DEF WorkerStep

(* A thread lets an observer go, or the run ends.                           *)
LEMMA DropKeepsEnd ==
  ASSUME EndInv, NEW t \in Users \cup {Worker}, NEW o \in Observers,
         RemoveUnmapped(t, o) \/ DropObserver(t, o)
  PROVE  EndInv'
<1>1. CASE RemoveUnmapped(t, o)
  BY <1>1, UnchangedKeepsEnd
  DEF RemoveUnmapped, subjectVars, workerVars, userVars, historyVars
<1>2. CASE DropObserver(t, o)
  <2> DEFINE walks == /\ o \in mapped /\ Locks
                      /\ ~(worker = "calling" /\ observers[at] = o)
  <2>1. /\ MayRemove(t)
        /\ UserGo(t, IF walks THEN "walking" ELSE user[t])
        /\ UNCHANGED <<current, queue, shutdown, ready, worker, owners, taken>>
    BY <1>2, Zenon DEF DropObserver, subjectVars, workerVars
  <2>2. current \in Msgs \cup {Empty} /\ user \in [Users -> UserPlaces]
    BY DEF EndInv, Typed
  <2>3. CASE walks
    <3>1. Reaches(t) /\ UserGo(t, "walking")
      BY <2>1, <2>3 DEF Reaches
    <3>2. "walking" # "noting"
      OBVIOUS
    <3> QED BY <2>1, <2>2, <3>1, <3>2, CallKeepsEnd
  <2>4. CASE ~walks
    <3>1. UserGo(t, user[t])
      BY <2>1, <2>4
    <3>2. user' = user
      BY <2>2, <3>1 DEF UserGo
    <3> QED BY <2>1, <3>2, UnchangedKeepsEnd
  <2> QED BY <2>3, <2>4
<1> QED BY <1>1, <1>2

(* Every step keeps EndInv.                                                 *)
LEMMA EndStep == EndInv /\ [Next]_vars => EndInv'
<1> SUFFICES ASSUME EndInv, [Next]_vars PROVE EndInv'
  OBVIOUS
<1>1. CASE UNCHANGED vars
  BY <1>1, UnchangedKeepsEnd DEF vars, subjectVars, workerVars, userVars, historyVars
<1>2. CASE Constructed
  <2>1. /\ ~ready /\ ready' = TRUE /\ shutdown' = FALSE
        /\ UNCHANGED <<current, queue, worker, owners, user, taken>>
    BY <1>2 DEF Constructed, workerVars, userVars, historyVars
  <2> USE DEF EndInv
  <2>2. Typed'
    BY <2>1 DEF Typed
  <2>3. /\ \A t \in Users : user[t] = "idle"
        /\ worker \in {"check", "asleep", "never"}
    BY <2>1 DEF BeforeReady
  <2>4. InsideHolds' /\ NobodyHolds' /\ GoneAfterWorker' /\ ReturnedEmpty'
    BY <2>1, <2>3 DEF InsideHolds, NobodyHolds, GoneAfterWorker, ReturnedEmpty, Ending
  <2>5. BeforeReady' /\ RaisedAtEnd'
    BY <2>1, Zenon DEF BeforeReady, RaisedAtEnd
  <2> QED BY <2>2, <2>4, <2>5
<1>3. ASSUME NEW t \in Users, UserStep(t) \/ DropSubject(t) PROVE EndInv'
  BY <1>3, UsersKeepEnd
<1>4. ASSUME NEW t \in Users \cup {Worker},
             \/ NotifyAgain(t)
             \/ \E o \in Observers : SetCallback(t, o) \/ RemoveSelf(t, o)
             \/ t \in Users /\ \E msg \in Msgs : CreateMessage(t, msg)
             \/ t = Worker /\ \E msg \in Msgs : CreateInCallback(msg)
      PROVE  EndInv'
  BY <1>4, CallsKeepEnd
<1>5. ASSUME NEW t \in Users \cup {Worker}, NEW o \in Observers,
             RemoveUnmapped(t, o) \/ DropObserver(t, o)
      PROVE  EndInv'
  BY <1>5, DropKeepsEnd
<1>6. CASE WorkerStep
  BY <1>6, WorkerKeepsEnd
<1>7. CASE SpuriousWakeup
  BY <1>7 DEF SpuriousWakeup, subjectVars, userVars, historyVars, EndInv, Typed,
     WorkerPlaces, InsideHolds, NobodyHolds, Holders, BeforeReady, RaisedAtEnd,
     ReturnedEmpty, GoneAfterWorker, Ending
<1> QED BY <1>1, <1>2, <1>3, <1>4, <1>5, <1>6, <1>7 DEF Next

(* EndInv holds always.                                                     *)
LEMMA EndInvariant == Spec => []EndInv
BY EndInitially, EndStep, PTL DEF Spec

(* When ~Subject has returned nothing waits in the queue, unless the worker *)
(* took the uninitialised shutdown_ for true (observer.h:31-39,64-100).     *)
THEOREM QueueIsDrained == Spec => []DrainedAtEnd
<1>1. EndInv => DrainedAtEnd
  BY DEF EndInv, GoneAfterWorker, ReturnedEmpty, DrainedAtEnd
<1> QED BY <1>1, EndInvariant, PTL

-----------------------------------------------------------------------------
(* The order of notifications.                                              *)

(* An append to the second of two joined sequences.                         *)
LEMMA AppendToConcat ==
  ASSUME NEW S, NEW s \in Seq(S), NEW q \in Seq(S), NEW m \in S
  PROVE  /\ s \o Append(q, m) = Append(s \o q, m)
         /\ (s \o q) \o <<m>> = Append(s \o q, m)
<1> DEFINE a == s \o Append(q, m)
           b == Append(s \o q, m)
<1>1. a \in Seq(S) /\ b \in Seq(S) /\ Len(a) = Len(b)
  OBVIOUS
<1>2. ASSUME NEW i \in 1 .. Len(a) PROVE a[i] = b[i]
  OBVIOUS
<1> HIDE DEF a, b
<1>3. a = b
  BY <1>1, <1>2, SeqEqual
<1> QED BY <1>3 DEF a, b

(* The head of the second of two joined sequences moves to the first.       *)
LEMMA HeadMoves ==
  ASSUME NEW S, NEW s \in Seq(S), NEW q \in Seq(S), q # <<>>
  PROVE  Append(s, Head(q)) \o Tail(q) = s \o q
<1> DEFINE a == Append(s, Head(q)) \o Tail(q)
           b == s \o q
<1>1. a \in Seq(S) /\ b \in Seq(S) /\ Len(a) = Len(b)
  OBVIOUS
<1>2. ASSUME NEW i \in 1 .. Len(a) PROVE a[i] = b[i]
  OBVIOUS
<1> HIDE DEF a, b
<1>3. a = b
  BY <1>1, <1>2, SeqEqual
<1> QED BY <1>3 DEF a, b

OrderInv == OneNoting /\ NotificationOrder

(* Nobody enters or leaves create_message, and nothing is notified.         *)
LEMMA OrderKept ==
  ASSUME OrderInv,
         \A t \in Users : user'[t] = "noting" <=> user[t] = "noting",
         UNCHANGED <<posted, taken, queue, current>>
  PROVE  OrderInv'
<1>1. OneNoting'
  BY DEF OrderInv, OneNoting
<1>2. NotificationOrder'
  <2>1. (\E t \in Users : user[t] = "noting")' <=> \E t \in Users : user[t] = "noting"
    OBVIOUS
  <2> QED BY <2>1, Zenon DEF OrderInv, NotificationOrder
<1> QED BY <1>1, <1>2 DEF OrderInv

(* notify() while nobody is in create_message.                              *)
LEMMA OrderNotified ==
  ASSUME EndInv, OrderInv, MsgMutexFree, NEW msg \in Msgs \cup {Empty},
         posted' = Append(posted, msg), queue' = Append(queue, msg),
         UNCHANGED <<user, taken>>
  PROVE  OrderInv'
<1>1. \A t \in Users : user[t] # "noting" /\ user'[t] # "noting"
  BY DEF MsgMutexFree
<1>2. taken \in Seq(Msgs \cup {Empty}) /\ queue \in Seq(Msgs \cup {Empty})
  BY DEF EndInv, Typed
<1>3. posted = taken \o queue
  <2>1. posted = (taken \o queue) \o <<>>
    BY <1>1 DEF OrderInv, NotificationOrder
  <2> QED BY <1>2, <2>1
<1>4. posted' = (taken' \o queue') \o <<>>
  <2>1. taken \o Append(queue, msg) = Append(taken \o queue, msg)
    BY <1>2, AppendToConcat
  <2>2. taken' \o queue' = taken \o Append(queue, msg) /\ posted' = Append(posted, msg)
    OBVIOUS
  <2>3. posted' = taken' \o queue'
    BY <1>3, <2>1, <2>2, Zenon
  <2>4. taken \o Append(queue, msg) \in Seq(Msgs \cup {Empty})
    BY <1>2
  <2>5. (taken \o Append(queue, msg)) \o <<>> = taken \o Append(queue, msg)
    BY <2>4
  <2> QED BY <2>2, <2>3, <2>5, Zenon
<1>5. NotificationOrder'
  BY <1>1, <1>4 DEF NotificationOrder
<1> QED BY <1>1, <1>5 DEF OrderInv, OneNoting

(* Every step keeps the order of notifications.                             *)
LEMMA OrderStep == EndInv /\ OrderInv /\ [Next]_vars => OrderInv'
<1> SUFFICES ASSUME EndInv, OrderInv, [Next]_vars PROVE OrderInv'
  OBVIOUS
<1>0. /\ taken \in Seq(Msgs \cup {Empty}) /\ queue \in Seq(Msgs \cup {Empty})
      /\ current \in Msgs \cup {Empty} /\ user \in [Users -> UserPlaces]
  BY DEF EndInv, Typed
<1>1. CASE UNCHANGED vars
  BY <1>1, OrderKept DEF vars, subjectVars, userVars, historyVars
<1>2. CASE Constructed
  BY <1>2, OrderKept DEF Constructed, userVars, historyVars
<1>3. ASSUME NEW t \in Users, NEW msg \in Msgs, CreateMessage(t, msg)
      PROVE  OrderInv'
  <2>1. /\ user' = [user EXCEPT ![t] = "noting"] /\ current' = msg
        /\ posted' = Append(posted, msg) /\ UNCHANGED <<queue, taken>>
        /\ \A u \in Users : user[u] # "noting"
    BY <1>3 DEF CreateMessage, UserGo, MsgMutexFree
  <2>2. posted = taken \o queue
    <3>1. posted = (taken \o queue) \o <<>>
      BY <2>1 DEF OrderInv, NotificationOrder
    <3> QED BY <1>0, <3>1
  <2>3. posted' = (taken' \o queue') \o <<msg>>
    BY <1>0, <2>1, <2>2, AppendToConcat
  <2>4. OneNoting' /\ \E u \in Users : user'[u] = "noting"
    BY <1>0, <2>1 DEF OneNoting
  <2>5. NotificationOrder'
    BY <2>1, <2>3, <2>4, Zenon DEF NotificationOrder
  <2> QED BY <2>4, <2>5 DEF OrderInv
<1>4. ASSUME NEW t \in Users, NotifyCreated(t) PROVE OrderInv'
  <2>1. /\ user' = [user EXCEPT ![t] = "idle"] /\ user[t] = "noting"
        /\ queue' = Append(queue, current) /\ UNCHANGED <<current, taken, posted>>
    BY <1>4, WorkerAssumption DEF NotifyCreated, Notify, UserGo, historyVars
  <2>2. \A u \in Users : user'[u] # "noting"
    BY <1>0, <2>1 DEF OrderInv, OneNoting
  <2>3. posted = (taken \o queue) \o <<current>>
    BY <2>1, Zenon DEF OrderInv, NotificationOrder
  <2>4. /\ taken \o Append(queue, current) = (taken \o queue) \o <<current>>
        /\ taken \o Append(queue, current) \in Seq(Msgs \cup {Empty})
    BY <1>0, AppendToConcat
  <2>5. posted' = (taken' \o queue') \o <<>>
    BY <2>1, <2>3, <2>4
  <2>6. NotificationOrder'
    BY <2>2, <2>5 DEF NotificationOrder
  <2> QED BY <2>2, <2>6 DEF OrderInv, OneNoting
<1>5. ASSUME NEW msg \in Msgs, CreateInCallback(msg) PROVE OrderInv'
  BY <1>5, OrderNotified DEF CreateInCallback, Notify, userVars
<1>6. ASSUME NEW t \in Users \cup {Worker}, NotifyAgain(t) PROVE OrderInv'
  <2>1. CASE MsgMutexFree
    <3>1. /\ posted' = Append(posted, current) /\ queue' = Append(queue, current)
          /\ UNCHANGED <<user, taken>>
      BY <1>6, <2>1 DEF NotifyAgain, Notify, userVars
    <3> QED BY <1>0, <2>1, <3>1, OrderNotified
  <2>2. CASE ~MsgMutexFree
    BY <1>6, <2>2, OrderKept DEF NotifyAgain, userVars
  <2> QED BY <2>1, <2>2
<1>7. ASSUME NEW t \in Users \cup {Worker}, NEW o \in Observers,
             SetCallback(t, o) \/ RemoveSelf(t, o)
      PROVE  OrderInv'
  <2>1. CASE Race(t)
    BY <2>1, OrderKept DEF Race, subjectVars, userVars, historyVars
  <2>2. CASE ~Race(t)
    <3>1. /\ UserGo(t, "listing") /\ (MayCall(t) \/ MayRemove(t))
          /\ UNCHANGED <<posted, taken, queue, current>>
      BY <1>7, <2>2 DEF SetCallback, RemoveSelf
    <3>2. \A u \in Users : user'[u] = "noting" <=> user[u] = "noting"
      BY <1>0, <3>1 DEF UserGo, MayCall, MayRemove
    <3> QED BY <3>1, <3>2, OrderKept
  <2> QED BY <2>1, <2>2
<1>8. ASSUME NEW t \in Users,
             EndListing(t) \/ Shutdown(t) \/ Join(t) \/ DropSubject(t)
      PROVE  OrderInv'
  <2>1. /\ \E to \in UserPlaces \ {"noting"} : user' = [user EXCEPT ![t] = to]
        /\ user[t] # "noting"
    BY <1>8, WorkerAssumption DEF EndListing, Shutdown, Join, DropSubject,
       MayCall, UserGo, UserPlaces
  <2>2. UNCHANGED <<posted, taken, queue, current>>
    BY <1>8 DEF EndListing, Shutdown, Join, DropSubject, subjectVars, historyVars
  <2>3. \A u \in Users : user'[u] = "noting" <=> user[u] = "noting"
    BY <1>0, <2>1
  <2> QED BY <2>2, <2>3, OrderKept
<1>9. ASSUME NEW t \in Users \cup {Worker}, NEW o \in Observers,
             RemoveUnmapped(t, o) \/ DropObserver(t, o)
      PROVE  OrderInv'
  <2>1. UNCHANGED <<posted, taken, queue, current>>
    BY <1>9, Zenon DEF RemoveUnmapped, DropObserver, subjectVars, historyVars
  <2>2. CASE RemoveUnmapped(t, o)
    BY <2>1, <2>2, OrderKept DEF RemoveUnmapped, userVars
  <2>3. CASE DropObserver(t, o)
    <3>1. PICK to \in {"walking", user[t]} : UserGo(t, to) /\ MayRemove(t)
      BY <2>3, Zenon DEF DropObserver
    <3>2. \A u \in Users : user'[u] = "noting" <=> user[u] = "noting"
      BY <1>0, <3>1 DEF UserGo, MayRemove
    <3> QED BY <2>1, <3>2, OrderKept
  <2> QED BY <1>9, <2>2, <2>3
<1>10. CASE WorkerTakes
  <2>1. /\ queue # <<>> /\ queue' = Tail(queue)
        /\ taken' = Append(taken, Head(queue)) /\ UNCHANGED <<current, user, posted>>
    BY <1>10 DEF WorkerTakes, userVars
  <2>2. taken' \o queue' = taken \o queue
    BY <1>0, <2>1, HeadMoves
  <2>3. NotificationOrder'
    BY <2>1, <2>2, Zenon DEF OrderInv, NotificationOrder
  <2> QED BY <2>1, <2>3 DEF OrderInv, OneNoting
<1>11. CASE WorkerSleeps \/ WorkerReturns \/ WorkerVisits \/ UpdateReturns
            \/ WorkerDelivered \/ SpuriousWakeup
  BY <1>11, OrderKept DEF WorkerSleeps, WorkerReturns, WorkerVisits,
     UpdateReturns, WorkerDelivered, SpuriousWakeup, subjectVars, userVars,
     historyVars
<1> QED
  BY <1>1, <1>2, <1>3, <1>4, <1>5, <1>6, <1>7, <1>8, <1>9, <1>10, <1>11
  DEF Next, UserStep, WorkerStep

(* Nothing is notified yet.                                                 *)
LEMMA OrderInitially == Init => OrderInv
<1> SUFFICES ASSUME Init PROVE OrderInv
  OBVIOUS
<1>1. posted = <<>> /\ taken = <<>> /\ queue = <<>>
      /\ user = [t \in Users |-> "idle"]
  BY Zenon DEF Init
<1>2. \A t \in Users : user[t] # "noting"
  BY <1>1
<1>3. posted = (taken \o queue) \o <<>>
  BY <1>1
<1> QED BY <1>2, <1>3 DEF OrderInv, OneNoting, NotificationOrder

(* Every message is notified once and taken in the order of creation,       *)
(* whichever threads and callbacks create messages (observer.h:51-61).      *)
THEOREM NotifiedInOrder == Spec => []NotificationOrder
<1>1. Spec => []OrderInv
  BY EndInvariant, OrderInitially, OrderStep, PTL DEF Spec
<1> QED BY <1>1, PTL DEF OrderInv

-----------------------------------------------------------------------------
(* The list of observers, the worker's way through it, and what it showed.  *)

(* The run has not ended.                                                   *)
Going == end = ""

ListTyped ==
  /\ observers \in Seq(Observers) /\ given \in Seq(Msgs) /\ at \in Int
  /\ held \subseteq Observers /\ mapped \subseteq Observers
  /\ since \in [Observers -> Nat] /\ seen \in [Observers -> Seq(Msgs)]
  /\ Iterating => given # <<>>

(* The worker stands in the list, or behind it between two entries.         *)
IteratorInside ==
  Going => /\ worker = "deliver" => at \in 1 .. Len(observers) + 1
           /\ worker = "calling" => at \in 1 .. Len(observers)

(* An observer that is alive and never attached while attached has one      *)
(* entry while it is attached and none otherwise.                           *)
OneEntry(o) ==
  /\ o \in mapped => \E i \in 1 .. Len(observers) : observers[i] = o
  /\ o \notin mapped => \A i \in 1 .. Len(observers) : observers[i] # o
  /\ \A i, j \in 1 .. Len(observers) : observers[i] = o /\ observers[j] = o => i = j

ListedOnce == Going => \A o \in held \ twice : OneEntry(o)

(* How many messages have come past entry i: all that were given, but for   *)
(* the one that is being delivered and has not come to i yet.               *)
Reached(i) ==
  Len(given) - (IF \/ worker = "deliver" /\ at <= i
                   \/ worker = "calling" /\ at < i THEN 1 ELSE 0)

(* A user or a callback holds the Subject.                                  *)
Lives == Holders # {} \/ worker = "calling"

(* Of the first n messages, o was shown those since it attached; of a       *)
(* Subject that nobody holds, the beginning of them.                        *)
Shown(o, n) ==
  /\ since[o] + Len(seen[o]) <= n
  /\ Lives => since[o] + Len(seen[o]) = n
  /\ \A k \in 1 .. Len(seen[o]) : seen[o][k] = given[since[o] + k]

AllShown ==
  Going => \A i \in 1 .. Len(observers) :
    observers[i] \in (held \cap mapped) \ twice => Shown(observers[i], Reached(i))

SeenInv == ListTyped /\ IteratorInside /\ ListedOnce /\ AllShown

(* RemoveAt of SequencesExt closes the gap.                                 *)
LEMMA RemoveAtProperties ==
  ASSUME NEW S, NEW s \in Seq(S), NEW n \in 1 .. Len(s)
  PROVE  /\ RemoveAt(s, n) \in Seq(S)
         /\ Len(RemoveAt(s, n)) = Len(s) - 1
         /\ \A i \in 1 .. Len(s) - 1 :
              RemoveAt(s, n)[i] = IF i < n THEN s[i] ELSE s[i + 1]
<1> DEFINE a == SubSeq(s, 1, n - 1)
           b == SubSeq(s, n + 1, Len(s))
<1>1. /\ a \in Seq(S) /\ Len(a) = n - 1
      /\ \A i \in 1 .. n - 1 : a[i] = s[i]
  OBVIOUS
<1>2. /\ b \in Seq(S) /\ Len(b) = Len(s) - n
      /\ \A i \in 1 .. Len(s) - n : b[i] = s[n + i]
  OBVIOUS
<1>3. RemoveAt(s, n) = a \o b
  BY DEF RemoveAt
<1> HIDE DEF a, b
<1>4. /\ a \o b \in Seq(S) /\ Len(a \o b) = Len(s) - 1
      /\ \A i \in 1 .. Len(s) - 1 :
           (a \o b)[i] = IF i <= n - 1 THEN a[i] ELSE b[i - (n - 1)]
  BY <1>1, <1>2, ConcatProperties
<1>5. ASSUME NEW i \in 1 .. Len(s) - 1
      PROVE  (a \o b)[i] = IF i < n THEN s[i] ELSE s[i + 1]
  <2>1. CASE i < n
    BY <1>1, <1>4, <2>1
  <2>2. CASE ~(i < n)
    <3>1. i - (n - 1) \in 1 .. Len(s) - n /\ n + (i - (n - 1)) = i + 1
      BY <2>2
    <3>2. b[i - (n - 1)] = s[n + (i - (n - 1))]
      BY <1>2, <3>1
    <3> QED BY <1>4, <2>2, <3>1, <3>2, SMTT(60)
  <2> QED BY <2>1, <2>2
<1> QED BY <1>3, <1>4, <1>5

(* Nobody is attached yet.                                                  *)
LEMMA SeenInitially == Init => SeenInv
<1> SUFFICES ASSUME Init PROVE SeenInv
  OBVIOUS
<1>1. /\ observers = <<>> /\ given = <<>> /\ at = 1 /\ held = Observers /\ mapped = {}
      /\ since = [o \in Observers |-> 0] /\ seen = [o \in Observers |-> <<>>]
      /\ worker = "check"
  BY Zenon DEF Init
<1>2. ListTyped
  BY <1>1 DEF ListTyped, Iterating
<1>3. IteratorInside /\ ListedOnce /\ AllShown
  BY <1>1 DEF IteratorInside, ListedOnce, OneEntry, AllShown
<1> QED BY <1>2, <1>3 DEF SeenInv

(* A step that leaves alone the list, what was shown and the worker's way.  *)
LEMMA QuietKeepsSeen ==
  ASSUME SeenInv,
         UNCHANGED <<observers, at, held, mapped, given, since, seen, twice>>,
         Lives' => Lives,
         worker' = worker \/ (~Iterating /\ ~Iterating'),
         Going' => Going
  PROVE  SeenInv'
<1> USE DEF SeenInv
<1>1. ListTyped' /\ IteratorInside'
  BY DEF ListTyped, IteratorInside, Iterating
<1>2. ListedOnce'
  BY DEF ListedOnce, OneEntry
<1>3. ASSUME Going', NEW i \in 1 .. Len(observers'),
             observers'[i] \in (held' \cap mapped') \ twice'
      PROVE  Shown(observers[i], Reached(i))'
  <2>1. Shown(observers[i], Reached(i))
    BY <1>3 DEF AllShown
  <2>2. Reached(i)' = Reached(i)
    BY DEF Reached, Iterating
  <2> QED BY <2>1, <2>2 DEF Shown
<1>4. AllShown'
  BY <1>3 DEF AllShown
<1> QED BY <1>1, <1>2, <1>4

(* A step that ends the run says nothing more of it.                        *)
LEMMA EndingKeepsSeen == ASSUME ListTyped', ~Going' PROVE SeenInv'
BY DEF SeenInv, IteratorInside, ListedOnce, AllShown

(* A race ends the run and changes nothing else.                            *)
LEMMA RaceKeepsSeen ==
  ASSUME SeenInv, NEW t, Race(t) PROVE SeenInv'
<1>1. ~Going'
  BY Zenon DEF Race, Going
<1>2. UNCHANGED <<observers, at, worker, owners, user, held, mapped, given, since,
                  seen, twice>>
  BY Zenon DEF Race, subjectVars, workerVars, userVars, observerVars,
     historyVars
<1>3. Lives' => Lives
  BY <1>2 DEF Lives, Holders
<1> QED BY <1>1, <1>2, <1>3, QuietKeepsSeen

(* A user goes where it holds nothing for the time of an operation.         *)
LEMMA HoldersShrink ==
  ASSUME Typed, NEW t \in Users, NEW to, to \notin {"listing", "walking"},
         user' = [user EXCEPT ![t] = to], owners' \subseteq owners
  PROVE  Holders' \subseteq Holders
BY DEF Typed, Holders

(* notify() and the steps of the users that attach and detach nothing.      *)
LEMMA QuietSteps ==
  ASSUME EndInv, SeenInv, NEW t \in Users \cup {Worker}, NEW msg,
         \/ t \in Users /\ UserStep(t)
         \/ DropSubject(t) \/ NotifyAgain(t) \/ CreateMessage(t, msg)
         \/ CreateInCallback(msg) \/ Constructed \/ WorkerSleeps \/ WorkerReturns
         \/ SpuriousWakeup \/ UNCHANGED vars
  PROVE  SeenInv'
<1>1. UNCHANGED <<observers, at, held, mapped, given, since, seen, twice>>
  <2>1. CASE UserStep(t)
    BY <2>1, Zenon DEF UserStep, NotifyCreated, EndListing, Shutdown, Join,
       subjectVars, workerVars, observerVars, historyVars
  <2>2. CASE DropSubject(t) \/ NotifyAgain(t)
    BY <2>2, Zenon DEF DropSubject, NotifyAgain, subjectVars, workerVars,
       observerVars, historyVars
  <2>3. CASE CreateMessage(t, msg) \/ CreateInCallback(msg)
    BY <2>3, Zenon DEF CreateMessage, CreateInCallback, workerVars, observerVars
  <2>4. CASE \/ Constructed \/ WorkerSleeps \/ WorkerReturns
             \/ SpuriousWakeup \/ UNCHANGED vars
    BY <2>4, Zenon DEF Constructed, WorkerSleeps, WorkerReturns, SpuriousWakeup,
       vars, subjectVars, workerVars, observerVars, historyVars
  <2> QED BY <2>1, <2>2, <2>3, <2>4
<1>2. Holders' \subseteq Holders
  <2>1. CASE t \in Users /\ (UserStep(t) \/ DropSubject(t) \/ CreateMessage(t, msg))
    <3>1. t # Worker
      BY <2>1, WorkerAssumption
    <3>2. \E to \in {"idle", "dying", "join", "gone", "noting"} : UserGo(t, to)
      BY <2>1, Zenon DEF UserStep, NotifyCreated, EndListing, Shutdown, Join,
         DropSubject, CreateMessage
    <3>3. PICK to \in {"idle", "dying", "join", "gone", "noting"} :
            user' = [user EXCEPT ![t] = to]
      BY <3>1, <3>2 DEF UserGo
    <3>4. owners' = owners \/ owners' = owners \ {t}
      BY <2>1, Zenon DEF UserStep, NotifyCreated, EndListing, Shutdown, Join,
         DropSubject, CreateMessage
    <3>5. Typed /\ to \notin {"listing", "walking"} /\ owners' \subseteq owners
      BY <3>4 DEF EndInv
    <3> QED BY <2>1, <3>3, <3>5, HoldersShrink
  <2>2. CASE \/ NotifyAgain(t) \/ CreateInCallback(msg)
             \/ Constructed \/ WorkerSleeps \/ WorkerReturns
             \/ SpuriousWakeup \/ UNCHANGED vars
    <3>1. user' = user /\ owners' = owners
      BY <2>2, Zenon DEF NotifyAgain, CreateInCallback, Constructed, WorkerSleeps,
         WorkerReturns, SpuriousWakeup, vars, userVars
    <3> QED BY <3>1 DEF Holders
  <2>3. DropSubject(t) \/ CreateMessage(t, msg) => t \in Users
    BY DEF DropSubject, CreateMessage
  <2> QED BY <2>1, <2>2, <2>3
<1>4. \/ worker' = worker \/ worker' = Woken
      \/ WorkerSleeps \/ WorkerReturns \/ SpuriousWakeup
  BY Zenon DEF UserStep, NotifyCreated, EndListing, Shutdown, Join, DropSubject,
     NotifyAgain, CreateMessage, CreateInCallback, Constructed, vars, workerVars, Notify
<1>5. worker' = worker \/ (~Iterating /\ ~Iterating')
  <2>1. CASE worker' = Woken
    BY <2>1 DEF Woken, Iterating
  <2>2. CASE WorkerSleeps \/ WorkerReturns \/ SpuriousWakeup
    <3>1. worker \in {"check", "asleep"} /\ worker' \in {"asleep", "done", "never", "check"}
      BY <2>2, Zenon DEF WorkerSleeps, WorkerReturns, SpuriousWakeup
    <3> QED BY <3>1 DEF Iterating
  <2> QED BY <1>4, <2>1, <2>2
<1>3. Lives' => Lives
  BY <1>2, <1>5 DEF Lives, Iterating
<1>6. end' = end \/ NotifyAgain(t)
  BY Zenon DEF UserStep, NotifyCreated, EndListing, Shutdown, Join, DropSubject,
     CreateMessage, CreateInCallback, Constructed, WorkerSleeps, WorkerReturns,
     SpuriousWakeup, vars
<1>7. Going' => Going
  BY <1>6, Zenon DEF NotifyAgain, MayCall, Going
<1> QED BY <1>1, <1>3, <1>5, <1>7, QuietKeepsSeen

(* set_callback: the new entry is behind the worker, and what is being      *)
(* delivered is the first message it is to be shown.                        *)
LEMMA SetCallbackKeepsSeen ==
  ASSUME EndInv, SeenInv, NEW t \in Users \cup {Worker}, NEW o \in Observers,
         SetCallback(t, o), ~Race(t)
  PROVE  SeenInv'
<1> USE DEF SeenInv
<1>1. /\ o \in held /\ observers' = Append(observers, o) /\ mapped' = mapped \cup {o}
      /\ twice' = IF o \in Range(observers) THEN twice \cup {o} ELSE twice
      /\ since' = [since EXCEPT ![o] = Len(given) - (IF Iterating THEN 1 ELSE 0)]
      /\ seen' = [seen EXCEPT ![o] = <<>>]
      /\ UNCHANGED <<at, worker, held, given>>
      /\ Going /\ Going' = Going
  BY Zenon DEF SetCallback, MayCall, workerVars, Going
<1>0. Lives
  BY DEF SetCallback, MayCall, Lives, Holders
<1>2. Iterating => worker = "calling"
  BY Zenon DEF SetCallback, MayCall, Races
<1>3. /\ Len(observers') = Len(observers) + 1 /\ observers' \in Seq(Observers)
      /\ observers'[Len(observers) + 1] = o
      /\ \A i \in 1 .. Len(observers) : observers'[i] = observers[i]
  BY <1>1, AppendProperties DEF ListTyped
<1>4. Len(given) \in Nat /\ (Iterating => Len(given) \in Nat \ {0})
  BY EmptySeq, LenProperties DEF ListTyped
<1>5. ListTyped'
  <2>1. since' \in [Observers -> Nat]
    BY <1>1, <1>4 DEF ListTyped
  <2>2. seen' \in [Observers -> Seq(Msgs)]
    BY <1>1 DEF ListTyped
  <2> QED BY <1>1, <1>3, <2>1, <2>2 DEF ListTyped, Iterating
<1>6. IteratorInside'
  BY <1>1, <1>2, <1>3 DEF IteratorInside, ListTyped, Iterating
<1>7. Len(observers) \in Nat /\ DOMAIN observers = 1 .. Len(observers)
  BY LenProperties DEF ListTyped
<1>8. ASSUME NEW i \in 1 .. Len(observers), observers[i] = o PROVE o \in twice'
  BY <1>1, <1>7, <1>8 DEF Range
<1>9. twice \subseteq twice' /\ \A p : p \in twice' => p = o \/ p \in twice
  BY <1>1
<1>10. ListedOnce'
  <2>1. ASSUME NEW p \in held \ twice' PROVE OneEntry(p)'
    <3>1. OneEntry(p)
      BY <1>1, <1>9, <2>1 DEF ListedOnce
    <3>2. CASE p = o
      BY <1>1, <1>3, <1>7, <1>8, <2>1, <3>2 DEF OneEntry
    <3>3. CASE p # o
      BY <1>1, <1>3, <1>7, <3>1, <3>3 DEF OneEntry
    <3> QED BY <3>2, <3>3
  <2> QED BY <1>1, <2>1 DEF ListedOnce
<1>11. ASSUME NEW i \in 1 .. Len(observers'),
              observers'[i] \in (held' \cap mapped') \ twice'
       PROVE  Shown(observers[i], Reached(i))'
  <2>1. CASE i = Len(observers) + 1
    <3>1. observers'[i] = o /\ since'[o] = Len(given) - (IF Iterating THEN 1 ELSE 0)
          /\ seen'[o] = <<>> /\ Len(seen'[o]) = 0
      BY <1>1, <1>3, <2>1 DEF ListTyped
    <3>2. Reached(i)' = Len(given) - (IF Iterating THEN 1 ELSE 0)
      BY <1>1, <1>2, <1>7, <2>1 DEF Reached, Iterating, IteratorInside
    <3> QED BY <1>4, <3>1, <3>2 DEF Shown
  <2>2. CASE i # Len(observers) + 1
    <3>1. i \in 1 .. Len(observers) /\ observers'[i] = observers[i]
      BY <1>3, <1>7, <2>2
    <3>2. observers[i] # o
      BY <1>8, <1>11, <3>1
    <3>3. observers[i] \in (held \cap mapped) \ twice
      BY <1>1, <1>9, <1>11, <3>1, <3>2
    <3>4. Shown(observers[i], Reached(i))
      BY <1>1, <3>1, <3>3 DEF AllShown
    <3>5. /\ since'[observers[i]] = since[observers[i]]
          /\ seen'[observers[i]] = seen[observers[i]]
      BY <1>1, <3>2, <3>3 DEF ListTyped
    <3>6. Reached(i)' = Reached(i)
      BY <1>1 DEF Reached
    <3> QED BY <1>0, <1>1, <3>1, <3>4, <3>5, <3>6 DEF Shown
  <2> QED BY <2>1, <2>2
<1>12. AllShown'
  BY <1>11 DEF AllShown
<1> QED BY <1>5, <1>6, <1>10, <1>12

(* The observer that goes leaves its entry, for the worker to prune.        *)
LEMMA DropObserverKeepsSeen ==
  ASSUME EndInv, SeenInv, NEW t \in Users \cup {Worker}, NEW o \in Observers,
         DropObserver(t, o)
  PROVE  SeenInv'
<1> USE DEF SeenInv
<1>1. /\ held' = held \ {o} /\ mapped' = mapped \ {o} /\ Going
      /\ since' = [since EXCEPT ![o] = 0] /\ seen' = [seen EXCEPT ![o] = <<>>]
      /\ UNCHANGED <<observers, at, worker, owners, given, twice>>
  BY Zenon DEF DropObserver, MayRemove, Forget, subjectVars, workerVars, Going
<1>0. Lives' => Lives
  <2>1. CASE Locks
    BY <2>1 DEF Locks, Lives
  <2>2. CASE ~Locks
    <3>1. UserGo(t, user[t]) /\ user \in [Users -> UserPlaces]
      BY <2>2 DEF DropObserver, EndInv, Typed
    <3>2. user' = user
      BY <3>1 DEF UserGo
    <3> QED BY <1>1, <3>2 DEF Lives, Holders
  <2> QED BY <2>1, <2>2
<1>2. ListTyped' /\ IteratorInside'
  BY <1>1 DEF ListTyped, IteratorInside, Iterating
<1>3. ListedOnce'
  BY <1>1 DEF ListedOnce, OneEntry
<1>4. ASSUME Going', NEW i \in 1 .. Len(observers'),
             observers'[i] \in (held' \cap mapped') \ twice'
      PROVE  Shown(observers[i], Reached(i))'
  <2>1. observers[i] \in (held \cap mapped) \ twice /\ observers[i] # o
    BY <1>1, <1>4
  <2>2. Shown(observers[i], Reached(i))
    BY <1>1, <1>4, <2>1 DEF AllShown
  <2>3. /\ since'[observers[i]] = since[observers[i]]
        /\ seen'[observers[i]] = seen[observers[i]]
    BY <1>1, <2>1 DEF ListTyped
  <2>4. Reached(i)' = Reached(i)
    BY <1>1 DEF Reached
  <2> QED BY <1>0, <1>1, <2>2, <2>3, <2>4 DEF Shown
<1>5. AllShown'
  BY <1>4 DEF AllShown
<1> QED BY <1>2, <1>3, <1>5

(* A nonempty set of naturals has a least member.                           *)
LEMMA HasLeast ==
  ASSUME NEW T, T \subseteq Nat, T # {}
  PROVE  \E x \in T : \A y \in T : x <= y
<1> DEFINE R == OpToRel(<, Nat)
<1>1. \A x, y \in Nat : <<y, x>> \in R <=> y < x
  BY DEF OpToRel
<1>2. IsWellFoundedOn(R, Nat)
  BY NatLessThanWellFounded
<1> HIDE DEF R
<1>3. PICK x \in T : \A y \in T : <<y, x>> \notin R
  BY <1>2, WFMin
<1>4. ASSUME NEW y \in T PROVE x <= y
  <2>1. ~ (y < x)
    BY <1>1, <1>3
  <2>2. x \in Nat /\ y \in Nat
    OBVIOUS
  <2> QED BY <2>1, <2>2
<1> QED BY <1>4

(* What goes with entry f of observer o.                                    *)
GapClosed(f) ==
  /\ observers' \in Seq(Observers) /\ Len(observers') = Len(observers) - 1
  /\ \A i \in 1 .. Len(observers) - 1 :
       observers'[i] = IF i < f THEN observers[i] ELSE observers[i + 1]

OthersKept(o) ==
  /\ since' \in [Observers -> Nat] /\ seen' \in [Observers -> Seq(Msgs)]
  /\ \A p \in Observers \ {o} : since'[p] = since[p] /\ seen'[p] = seen[p]

(* Entry f goes.  The entries behind it move up by one, and so does the     *)
(* worker if it stands behind it: past each observer but o has come what    *)
(* had come before.                                                         *)
LEMMA RemovalKeepsSeen ==
  ASSUME SeenInv, Going, NEW o \in Observers, NEW f \in 1 .. Len(observers),
         observers[f] = o,
         GapClosed(f), OthersKept(o),
         \/ worker = "deliver" /\ at = f /\ at' = at
         \/ worker = "calling" /\ at # f /\ at' = IF f < at THEN at - 1 ELSE at
         \/ ~Iterating /\ at' \in Int,
         mapped' = mapped \ {o} \/ (o \notin held /\ mapped' = mapped),
         UNCHANGED <<worker, held, given, twice>>, Lives' => Lives
  PROVE  SeenInv'
<1> USE DEF SeenInv
<1>1. Len(observers) \in Nat /\ observers \in Seq(Observers) /\ at \in Int
  BY LenProperties DEF ListTyped
<1>2. /\ Len(observers') = Len(observers) - 1
      /\ \A i \in 1 .. Len(observers) - 1 :
           observers'[i] = IF i < f THEN observers[i] ELSE observers[i + 1]
  BY DEF GapClosed
<1>3. ListTyped'
  <2>1. /\ observers' \in Seq(Observers)
        /\ since' \in [Observers -> Nat] /\ seen' \in [Observers -> Seq(Msgs)]
    BY Zenon DEF GapClosed, OthersKept
  <2>2. at' \in Int
    BY <1>1
  <2> QED BY <2>1, <2>2 DEF ListTyped, Iterating
<1>4. IteratorInside'
  BY <1>1, <1>2 DEF IteratorInside, Iterating
<1>5. ASSUME NEW p \in held \ twice PROVE OneEntry(p)'
  <2>1. OneEntry(p)
    BY <1>5 DEF ListedOnce
  <2>2. \A i, j \in 1 .. Len(observers') :
          observers'[i] = p /\ observers'[j] = p => i = j
    BY <1>1, <1>2, <2>1, SMTT(60) DEF OneEntry
  <2>3. CASE p = o
    <3>1. \A i \in 1 .. Len(observers') : observers'[i] # o
      BY <1>1, <1>2, <2>1, <2>3 DEF OneEntry
    <3> QED BY <2>2, <2>3, <3>1 DEF OneEntry
  <2>4. CASE p # o
    <3>1. p \in mapped <=> p \in mapped'
      BY <2>4
    <3>2. ASSUME NEW i \in 1 .. Len(observers), observers[i] = p
          PROVE  \E j \in 1 .. Len(observers') : observers'[j] = p
      <4>1. i # f
        BY <2>4, <3>2
      <4>2. CASE i < f
        BY <1>1, <1>2, <3>2, <4>2
      <4>3. CASE i > f
        <5>1. i - 1 \in 1 .. Len(observers') /\ ~(i - 1 < f) /\ (i - 1) + 1 = i
          BY <1>1, <1>2, <4>3
        <5>2. observers'[i - 1] = observers[(i - 1) + 1]
          BY <1>2, <5>1
        <5> QED BY <3>2, <5>1, <5>2
      <4> QED BY <1>1, <4>1, <4>2, <4>3
    <3>3. p \notin mapped => \A i \in 1 .. Len(observers') : observers'[i] # p
      BY <1>1, <1>2, <2>1 DEF OneEntry
    <3> QED BY <2>1, <2>2, <3>1, <3>2, <3>3 DEF OneEntry
  <2> QED BY <2>3, <2>4
<1>6. ListedOnce'
  BY <1>5 DEF ListedOnce
<1>7. ASSUME NEW i \in 1 .. Len(observers'),
             observers'[i] \in (held' \cap mapped') \ twice'
      PROVE  Shown(observers[i], Reached(i))'
  <2>1. PICK j \in 1 .. Len(observers) :
          /\ observers'[i] = observers[j]
          /\ j = IF i < f THEN i ELSE i + 1
    BY <1>1, <1>2, <1>7
  <2>2. observers[j] \in (held \cap mapped) \ twice /\ observers[j] # o
    BY <1>7, <2>1
  <2>3. Shown(observers[j], Reached(j))
    BY <2>2 DEF AllShown
  <2>4. /\ since'[observers[j]] = since[observers[j]]
        /\ seen'[observers[j]] = seen[observers[j]]
    BY <1>1, <2>2, SMTT(60) DEF OthersKept
  <2>5. /\ worker = "deliver" => (at' <= i <=> at <= j)
        /\ worker = "calling" => (at' < i <=> at < j)
    BY <1>1, <1>2, <2>1 DEF IteratorInside, Iterating
  <2>6. Reached(i)' = Reached(j)
    BY <2>5 DEF Reached
  <2> QED BY <2>1, <2>3, <2>4, <2>6 DEF Shown
<1>8. AllShown'
  BY <1>7 DEF AllShown
<1> QED BY <1>3, <1>4, <1>6, <1>8

(* remove_self: an observer that has no entry any more was attached twice.  *)
LEMMA RemoveSelfKeepsSeen ==
  ASSUME EndInv, SeenInv, NEW t \in Users \cup {Worker}, NEW o \in Observers,
         RemoveSelf(t, o), ~Race(t)
  PROVE  SeenInv'
<1> USE DEF SeenInv
<1> DEFINE entries == {i \in 1 .. Len(observers) : observers[i] = o}
           first == CHOOSE i \in entries : \A j \in entries : i <= j
           stands == Iterating /\ entries # {} /\ first = at
<1>1. /\ o \in held /\ o \in mapped /\ mapped' = mapped \ {o}
      /\ observers' = IF entries = {} THEN observers ELSE RemoveAt(observers, first)
      /\ at' = IF Iterating /\ entries # {} /\ first < at THEN at - 1 ELSE at
      /\ since' = [since EXCEPT ![o] = 0] /\ seen' = [seen EXCEPT ![o] = <<>>]
      /\ UNCHANGED <<worker, held, given, twice>>
  BY Zenon DEF RemoveSelf, Forget
<1>0. Lives
  BY Zenon DEF RemoveSelf, Locks, Lives
<1>2. Going /\ (Going' <=> ~stands)
  <2>1. end' = IF stands THEN "erased under the iterator" ELSE ""
    BY Zenon DEF RemoveSelf
  <2>2. "erased under the iterator" # ""
    OBVIOUS
  <2>3. end = ""
    BY Zenon DEF RemoveSelf, MayRemove
  <2> QED BY <2>1, <2>2, <2>3, Zenon DEF Going
<1>3. Iterating => worker = "calling"
  BY Zenon DEF RemoveSelf, MayRemove, Races
<1>4. OthersKept(o)
  BY <1>1 DEF ListTyped, OthersKept
<1>5. CASE entries = {}
  <2>1. observers' = observers /\ at' = at /\ Going'
    BY <1>1, <1>2, <1>5
  <2>2. ListTyped' /\ IteratorInside'
    <3>1. since' \in [Observers -> Nat] /\ seen' \in [Observers -> Seq(Msgs)]
      BY <1>4, Zenon DEF OthersKept
    <3>2. /\ mapped' \subseteq Observers
          /\ UNCHANGED <<observers, at, worker, held, given>> /\ (Going' <=> Going)
      BY <1>1, <1>2, <2>1 DEF ListTyped
    <3> HIDE DEF entries, first
    <3> QED BY <3>1, <3>2 DEF ListTyped, IteratorInside, Iterating
  <2>3. o \in twice
    BY <1>1, <1>2, <1>5 DEF ListedOnce, OneEntry
  <2>4. ListedOnce'
    <3>1. ASSUME NEW p \in held \ twice PROVE OneEntry(p)'
      <4>1. OneEntry(p) /\ p # o
        BY <1>2, <2>3, <3>1 DEF ListedOnce
      <4>2. p \in mapped' <=> p \in mapped
        BY <1>1, <4>1
      <4> QED BY <2>1, <4>1, <4>2 DEF OneEntry
    <3> QED BY <1>1, <3>1 DEF ListedOnce
  <2>5. ASSUME NEW i \in 1 .. Len(observers'),
               observers'[i] \in (held' \cap mapped') \ twice'
        PROVE  Shown(observers[i], Reached(i))'
    <3>1. observers[i] \in (held \cap mapped) \ twice /\ observers[i] # o
      BY <1>1, <2>1, <2>5
    <3>2. Shown(observers[i], Reached(i))
      BY <1>2, <2>1, <3>1 DEF AllShown
    <3>3. Reached(i)' = Reached(i)
      BY <1>1, <2>1 DEF Reached
    <3>4. observers[i] \in Observers \ {o}
      BY <3>1 DEF ListTyped
    <3> QED BY <1>0, <1>1, <1>4, <2>1, <3>2, <3>3, <3>4 DEF Shown, OthersKept
  <2>6. AllShown'
    BY <2>5 DEF AllShown
  <2> QED BY <2>2, <2>4, <2>6
<1>6. CASE entries # {}
  <2>1. first \in 1 .. Len(observers) /\ observers[first] = o
    <3>1. entries \subseteq Nat
      OBVIOUS
    <3>2. \E i \in entries : \A j \in entries : i <= j
      <4> HIDE DEF entries
      <4> QED BY <1>6, <3>1, HasLeast
    <3>3. first \in entries
      <4> HIDE DEF entries
      <4> QED BY <3>2
    <3> QED BY <3>3
  <2> HIDE DEF entries, first
  <2>2. observers' = RemoveAt(observers, first)
    BY <1>1, <1>6
  <2>3. CASE stands
    <3>1. observers' \in Seq(Observers) /\ at' \in Int
      BY <1>1, <2>1, <2>2, <2>3, RemoveAtProperties DEF ListTyped
    <3>2. ListTyped'
      BY <1>1, <1>4, <3>1 DEF OthersKept, ListTyped, Iterating
    <3> QED BY <1>2, <2>3, <3>2, EndingKeepsSeen
  <2>4. CASE ~stands
    <3>0. GapClosed(first)
      BY <2>1, <2>2, RemoveAtProperties DEF ListTyped, GapClosed
    <3>1. \/ worker = "calling" /\ at # first /\ at' = IF first < at THEN at - 1 ELSE at
          \/ ~Iterating /\ at' \in Int
      BY <1>1, <1>3, <1>6, <2>4 DEF Iterating, ListTyped
    <3> HIDE DEF SeenInv
    <3> QED BY <1>0, <1>1, <1>2, <1>4, <2>1, <3>0, <3>1, RemovalKeepsSeen
  <2> QED BY <2>3, <2>4
<1> QED BY <1>5, <1>6

(* The worker takes a message: it has come to nobody yet.                   *)
LEMMA TakeKeepsSeen == ASSUME EndInv, SeenInv, WorkerTakes PROVE SeenInv'
<1> USE DEF SeenInv
<1>1. /\ worker = "check" /\ queue # <<>> /\ at' = 1 /\ Going
      /\ worker' = IF Head(queue) = Empty THEN "check" ELSE "deliver"
      /\ given' = IF Head(queue) = Empty THEN given ELSE Append(given, Head(queue))
      /\ UNCHANGED <<observers, owners, user, held, mapped, since, seen, twice>>
  BY Zenon DEF WorkerTakes, userVars, observerVars, Going
<1>0. Lives' => Lives
  BY <1>1 DEF Lives, Holders
<1>2. Head(queue) \in Msgs \cup {Empty}
  BY <1>1 DEF EndInv, Typed
<1>3. /\ given' \in Seq(Msgs)
      /\ Len(given') = IF Head(queue) = Empty THEN Len(given) ELSE Len(given) + 1
      /\ \A k \in 1 .. Len(given) : given'[k] = given[k]
      /\ Head(queue) # Empty => given' # <<>>
  <2>1. given \in Seq(Msgs)
    BY DEF ListTyped
  <2>2. CASE Head(queue) = Empty
    BY <1>1, <2>1, <2>2
  <2>3. CASE Head(queue) # Empty
    <3>1. Head(queue) \in Msgs /\ given' = Append(given, Head(queue))
      BY <1>1, <1>2, <2>3
    <3> QED BY <2>1, <2>3, <3>1, AppendProperties
  <2> QED BY <2>2, <2>3
<1>4. Len(observers) \in Nat /\ Len(given) \in Nat
  BY LenProperties DEF ListTyped
<1>5. ListTyped' /\ IteratorInside'
  BY <1>1, <1>3, <1>4 DEF ListTyped, IteratorInside, Iterating
<1>6. ListedOnce'
  BY <1>1 DEF ListedOnce, OneEntry
<1>7. ASSUME NEW i \in 1 .. Len(observers'),
             observers'[i] \in (held' \cap mapped') \ twice'
      PROVE  Shown(observers[i], Reached(i))'
  <2>1. observers[i] \in (held \cap mapped) \ twice /\ observers[i] \in Observers
    BY <1>1, <1>7 DEF ListTyped
  <2>2. Shown(observers[i], Reached(i))
    BY <1>1, <1>7, <2>1 DEF AllShown
  <2>3. Reached(i)' = Len(given) /\ Reached(i) = Len(given)
    BY <1>1, <1>3, <1>4 DEF Reached
  <2>4. since[observers[i]] \in Nat /\ Len(seen[observers[i]]) \in Nat
    BY <2>1 DEF ListTyped
  <2> QED BY <1>0, <1>1, <1>3, <1>4, <2>2, <2>3, <2>4, SMTT(60) DEF Shown
<1>8. AllShown'
  BY <1>7 DEF AllShown
<1> QED BY <1>5, <1>6, <1>8

(* The worker moves without changing the list or what was shown.            *)
LEMMA WalkKeepsSeen ==
  ASSUME SeenInv, Going, IteratorInside', at' \in Int, Iterating' => Iterating,
         Lives' => Lives,
         UNCHANGED <<observers, held, mapped, given, since, seen, twice>>,
         \A i \in 1 .. Len(observers) :
           Reached(i) <= Reached(i)' /\ (Lives => Reached(i) = Reached(i)')
  PROVE  SeenInv'
<1> USE DEF SeenInv
<1>1. ListTyped'
  BY DEF ListTyped
<1>2. ListedOnce'
  BY DEF ListedOnce, OneEntry
<1>3. ASSUME NEW i \in 1 .. Len(observers'),
             observers'[i] \in (held' \cap mapped') \ twice'
      PROVE  Shown(observers[i], Reached(i))'
  <2>1. Shown(observers[i], Reached(i))
    BY <1>3 DEF AllShown
  <2>2. Reached(i) <= Reached(i)' /\ (Lives => Reached(i) = Reached(i)')
    BY <1>3
  <2>3. Reached(i) \in Int /\ Reached(i)' \in Int
    BY <1>1 DEF ListTyped, Reached
  <2>4. since[observers[i]] \in Nat /\ Len(seen[observers[i]]) \in Nat
    BY <1>3 DEF ListTyped
  <2> HIDE DEF SeenInv
  <2> QED BY <2>1, <2>2, <2>3, <2>4 DEF Shown
<1>4. AllShown'
  BY <1>3 DEF AllShown
<1> QED BY <1>1, <1>2, <1>4

(* Update: the message that is being delivered comes to the entry at which  *)
(* the worker stands, and to no other entry.                                *)
LEMMA UpdateKeepsSeen ==
  ASSUME SeenInv, Going, worker = "deliver", worker' = "calling",
         at \in 1 .. Len(observers), observers[at] \in held, Lives,
         seen' = IF observers[at] \in mapped
                 THEN [seen EXCEPT ![observers[at]] = Append(@, Last(given))]
                 ELSE seen,
         UNCHANGED <<observers, at, held, mapped, given, since, twice>>
  PROVE  SeenInv'
<1> USE DEF SeenInv
<1>1. given \in Seq(Msgs) /\ given # <<>> /\ Len(given) \in Nat \ {0}
  BY EmptySeq DEF ListTyped, Iterating
<1>2. Last(given) = given[Len(given)] /\ Last(given) \in Msgs
  BY <1>1, ElementOfSeq DEF Last
<1>3. observers[at] \in Observers /\ at \in Nat
  BY DEF ListTyped
<1>4. seen' \in [Observers -> Seq(Msgs)]
  BY <1>2, <1>3 DEF ListTyped
<1>5. ListTyped' /\ IteratorInside'
  BY <1>1, <1>4 DEF ListTyped, IteratorInside, Iterating
<1>6. ListedOnce'
  BY DEF ListedOnce, OneEntry
<1>7. ASSUME NEW i \in 1 .. Len(observers),
             observers[i] \in (held \cap mapped) \ twice
      PROVE  Shown(observers[i], Reached(i))'
  <2>1. Shown(observers[i], Reached(i))
    BY <1>7 DEF AllShown
  <2>2. since[observers[i]] \in Nat /\ seen[observers[i]] \in Seq(Msgs)
    BY <1>7 DEF ListTyped
  <2>3. CASE i = at
    <3>1. Reached(i) = Len(given) - 1 /\ Reached(i)' = Len(given)
      BY <1>1, <1>3, <2>3 DEF Reached
    <3>2. seen'[observers[i]] = Append(seen[observers[i]], Last(given))
      BY <1>3, <1>7, <2>3 DEF ListTyped
    <3>3. /\ Len(seen'[observers[i]]) = Len(seen[observers[i]]) + 1
          /\ \A k \in 1 .. Len(seen[observers[i]]) :
               seen'[observers[i]][k] = seen[observers[i]][k]
          /\ seen'[observers[i]][Len(seen[observers[i]]) + 1] = Last(given)
          /\ Len(seen[observers[i]]) \in Nat
      BY <1>2, <2>2, <3>2, AppendProperties
    <3>4. since[observers[i]] + Len(seen[observers[i]]) = Len(given) - 1
      BY <2>1, <3>1 DEF Shown
    <3>5. ASSUME NEW k \in 1 .. Len(seen[observers[i]]) + 1
          PROVE  seen'[observers[i]][k] = given[since[observers[i]] + k]
      <4>1. CASE k = Len(seen[observers[i]]) + 1
        <5>1. since[observers[i]] + k = Len(given)
          BY <1>1, <2>2, <3>3, <3>4, <4>1, SMTT(60)
        <5> QED BY <1>2, <3>3, <4>1, <5>1
      <4>2. CASE k # Len(seen[observers[i]]) + 1
        <5>1. k \in 1 .. Len(seen[observers[i]])
          BY <3>3, <4>2
        <5> QED BY <2>1, <3>3, <5>1 DEF Shown
      <4> QED BY <4>1, <4>2
    <3>6. since[observers[i]] + (Len(seen[observers[i]]) + 1) = Len(given)
      BY <1>1, <2>2, <3>3, <3>4, SMTT(60)
    <3> QED BY <1>1, <3>1, <3>3, <3>5, <3>6, SMTT(60) DEF Shown
  <2>4. CASE i # at
    <3>1. observers[i] # observers[at]
      BY <1>7, <2>4 DEF ListedOnce, OneEntry
    <3>2. seen'[observers[i]] = seen[observers[i]]
      BY <1>3, <1>7, <3>1 DEF ListTyped
    <3>3. Reached(i)' = Reached(i)
      BY <1>3, <2>4 DEF Reached
    <3> QED BY <2>1, <3>2, <3>3 DEF Shown
  <2> QED BY <2>3, <2>4
<1>8. AllShown'
  BY <1>7 DEF AllShown
<1> QED BY <1>5, <1>6, <1>8

(* An expired entry goes from under the worker, which stays at its place.   *)
LEMMA ExpiredKeepsSeen ==
  ASSUME SeenInv, Going, worker = "deliver", at \in 1 .. Len(observers),
         observers[at] \notin held, observers[at] \in Observers,
         GapClosed(at), OthersKept(observers[at]),
         UNCHANGED <<at, worker, held, mapped, given, twice>>, Lives' => Lives
  PROVE  SeenInv'
BY RemovalKeepsSeen

(* What IsPrefix says of two sequences, element by element.                 *)
LEMMA PrefixPointwise ==
  ASSUME NEW S, NEW s \in Seq(S), NEW u \in Seq(S), Len(s) <= Len(u),
         \A k \in 1 .. Len(s) : s[k] = u[k]
  PROVE  IsPrefix(s, u)
<1>1. SubSeq(s, 1, Len(s)) = s
  BY SubSeqFull
<1>2. /\ SubSeq(u, 1, Len(s)) \in Seq(S) /\ Len(SubSeq(u, 1, Len(s))) = Len(s)
      /\ \A k \in 1 .. Len(s) : SubSeq(u, 1, Len(s))[k] = u[k]
  OBVIOUS
<1>3. SubSeq(u, 1, Len(s)) = s
  BY <1>2, SeqEqual
<1> QED BY <1>1, <1>3 DEF IsPrefix

(* One entry of the worker's walk: pruned, passed over or updated.          *)
LEMMA VisitKeepsSeen == ASSUME SeenInv, WorkerVisits PROVE SeenInv'
<1>1. /\ worker = "deliver" /\ at <= Len(observers)
      /\ UNCHANGED <<owners, user, held, mapped, given, since, twice>>
      /\ Going
  BY Zenon DEF WorkerVisits, userVars, observerVars, Going
<1>2. \/ /\ observers[at] \notin held
         /\ observers' = RemoveAt(observers, at) /\ at' = at
         /\ UNCHANGED <<worker, seen>>
      \/ /\ Holders = {} /\ at' = at + 1
         /\ UNCHANGED <<observers, worker, seen>>
      \/ /\ observers[at] \in held /\ Holders # {} /\ worker' = "calling"
         /\ seen' = IF observers[at] \in mapped
                    THEN [seen EXCEPT ![observers[at]] = Append(@, Last(given))]
                    ELSE seen
         /\ UNCHANGED <<observers, at>>
  BY Zenon DEF WorkerVisits, AtAfterErase
<1>3. /\ at \in 1 .. Len(observers) /\ at \in Nat /\ Len(observers) \in Nat
      /\ observers \in Seq(Observers) /\ observers[at] \in Observers
  <2>1. observers \in Seq(Observers) /\ Len(observers) \in Nat
    BY LenProperties DEF SeenInv, ListTyped
  <2>2. at \in 1 .. Len(observers)
    BY <1>1, <2>1 DEF SeenInv, IteratorInside
  <2> QED BY <2>1, <2>2
<1>4. CASE /\ observers[at] \notin held
           /\ observers' = RemoveAt(observers, at) /\ at' = at
           /\ UNCHANGED <<worker, seen>>
  <2>1. GapClosed(at)
    BY <1>3, <1>4, RemoveAtProperties DEF GapClosed
  <2>2. OthersKept(observers[at])
    BY <1>1, <1>4 DEF OthersKept, SeenInv, ListTyped
  <2>3. Lives' => Lives
    BY <1>1, <1>4 DEF Lives, Holders
  <2> QED BY <1>1, <1>3, <1>4, <2>1, <2>2, <2>3, ExpiredKeepsSeen
<1>5. CASE /\ Holders = {} /\ at' = at + 1
           /\ UNCHANGED <<observers, worker, seen>>
  <2>1. IteratorInside' /\ at' \in Int
    BY <1>1, <1>3, <1>5 DEF IteratorInside
  <2>2. \A i \in 1 .. Len(observers) :
          Reached(i) <= Reached(i)' /\ (Lives => Reached(i) = Reached(i)')
    BY <1>1, <1>3, <1>5 DEF Reached, SeenInv, ListTyped, Lives
  <2>3. Lives' => Lives
    BY <1>1, <1>5 DEF Lives, Holders
  <2> QED BY <1>1, <1>5, <2>1, <2>2, <2>3, WalkKeepsSeen DEF Iterating
<1>6. CASE /\ observers[at] \in held /\ Holders # {} /\ worker' = "calling"
           /\ seen' = IF observers[at] \in mapped
                      THEN [seen EXCEPT ![observers[at]] = Append(@, Last(given))]
                      ELSE seen
           /\ UNCHANGED <<observers, at>>
  BY <1>1, <1>3, <1>6, UpdateKeepsSeen DEF Lives
<1> QED BY <1>2, <1>4, <1>5, <1>6

(* update returns, or the worker comes to the end of the list.              *)
LEMMA WalkingKeepsSeen ==
  ASSUME SeenInv, UpdateReturns \/ WorkerDelivered
  PROVE  SeenInv'
<1>1. /\ UNCHANGED <<observers, owners, user, held, mapped, given, since, seen, twice>>
      /\ Going
  BY Zenon DEF UpdateReturns, WorkerDelivered, subjectVars, userVars,
     observerVars, historyVars, Going
<1>2. Len(observers) \in Nat /\ at \in Int /\ Len(given) \in Nat
  BY LenProperties DEF SeenInv, ListTyped
<1>5. Lives' => Lives
  <2>1. worker' # "calling"
    BY Zenon DEF UpdateReturns, WorkerDelivered
  <2> QED BY <1>1, <2>1 DEF Lives, Holders
<1>3. CASE UpdateReturns
  <2>1. worker = "calling" /\ worker' = "deliver" /\ at' = at + 1
    BY <1>3, Zenon DEF UpdateReturns
  <2>2. IteratorInside' /\ at' \in Int
    BY <1>1, <1>2, <2>1 DEF SeenInv, IteratorInside
  <2>3. \A i \in 1 .. Len(observers) : Reached(i) = Reached(i)' /\ Reached(i) \in Int
    BY <1>1, <1>2, <2>1 DEF Reached
  <2>4. \A i \in 1 .. Len(observers) :
          Reached(i) <= Reached(i)' /\ (Lives => Reached(i) = Reached(i)')
    BY <2>3
  <2> QED BY <1>1, <1>5, <2>1, <2>2, <2>4, WalkKeepsSeen DEF Iterating
<1>4. CASE WorkerDelivered
  <2>1. worker = "deliver" /\ worker' = "check" /\ at' = 1 /\ at > Len(observers)
    BY <1>4, Zenon DEF WorkerDelivered
  <2>2. IteratorInside' /\ at' \in Int
    BY <2>1 DEF IteratorInside
  <2>3. \A i \in 1 .. Len(observers) : Reached(i) = Reached(i)' /\ Reached(i) \in Int
    BY <1>1, <1>2, <2>1 DEF Reached
  <2>4. \A i \in 1 .. Len(observers) :
          Reached(i) <= Reached(i)' /\ (Lives => Reached(i) = Reached(i)')
    BY <2>3
  <2> QED BY <1>1, <1>5, <2>1, <2>2, <2>4, WalkKeepsSeen DEF Iterating
<1> QED BY <1>3, <1>4

(* Every step keeps SeenInv.                                                *)
LEMMA SeenStep == EndInv /\ SeenInv /\ [Next]_vars => SeenInv'
<1> SUFFICES ASSUME EndInv, SeenInv, [Next]_vars PROVE SeenInv'
  OBVIOUS
<1>1. CASE UNCHANGED vars \/ Constructed \/ SpuriousWakeup
  BY <1>1, QuietSteps
<1>2. ASSUME NEW t \in Users, UserStep(t) \/ DropSubject(t) PROVE SeenInv'
  BY <1>2, QuietSteps
<1>3. ASSUME NEW t \in Users, NEW msg \in Msgs, CreateMessage(t, msg) PROVE SeenInv'
  BY <1>3, QuietSteps
<1>4. ASSUME NEW msg \in Msgs, CreateInCallback(msg) PROVE SeenInv'
  BY <1>4, QuietSteps
<1>5. ASSUME NEW t \in Users \cup {Worker}, NotifyAgain(t) PROVE SeenInv'
  BY <1>5, QuietSteps
<1>6. ASSUME NEW t \in Users \cup {Worker}, NEW o \in Observers,
             SetCallback(t, o) \/ RemoveSelf(t, o)
      PROVE  SeenInv'
  BY <1>6, RaceKeepsSeen, SetCallbackKeepsSeen, RemoveSelfKeepsSeen
<1>7. ASSUME NEW t \in Users \cup {Worker}, NEW o \in Observers,
             RemoveUnmapped(t, o) \/ DropObserver(t, o)
      PROVE  SeenInv'
  <2>1. CASE RemoveUnmapped(t, o)
    <3>1. UNCHANGED <<subjectVars, workerVars, userVars, observerVars, historyVars>>
          /\ Going
      BY <2>1, Zenon DEF RemoveUnmapped, MayCall, Going
    <3>2. UNCHANGED <<observers, at, worker, owners, user, held, mapped, given, since,
                      seen, twice>>
      BY <3>1, Zenon DEF subjectVars, workerVars, userVars, observerVars, historyVars
    <3>3. Lives' => Lives
      BY <3>2 DEF Lives, Holders
    <3> QED BY <3>1, <3>2, <3>3, QuietKeepsSeen
  <2> QED BY <1>7, <2>1, DropObserverKeepsSeen
<1>8. CASE WorkerStep
  BY <1>8, QuietSteps, TakeKeepsSeen, VisitKeepsSeen, WalkingKeepsSeen DEF WorkerStep
<1> QED BY <1>1, <1>2, <1>3, <1>4, <1>5, <1>6, <1>7, <1>8 DEF Next

(* EndInv and SeenInv hold always.                                          *)
LEMMA SeenInvariant == Spec => [](EndInv /\ SeenInv)
BY EndInvariant, SeenInitially, SeenStep, PTL DEF Spec

(* Types, and the worker's iterator never leaves the list but for its end,  *)
(* whatever is pruned, attached and detached (observer.h:82-95).            *)
THEOREM TypeCorrect == Spec => []TypeOK
<1>1. EndInv /\ SeenInv => TypeOK
  <2> SUFFICES ASSUME EndInv, SeenInv PROVE TypeOK
    OBVIOUS
  <2>1. Len(observers) \in Nat
    BY LenProperties DEF SeenInv, ListTyped
  <2>2. Going /\ Iterating => at \in 1 .. Len(observers) + 1
    BY <2>1 DEF SeenInv, IteratorInside, Iterating
  <2> QED BY <2>2, Zenon DEF Going, TypeOK, EndInv, Typed, SeenInv, ListTyped
<1> QED BY <1>1, SeenInvariant, PTL

(* An attached, living observer is given the messages since it attached, in *)
(* order, none left out and none doubled (observer.h:80-96).                *)
THEOREM ObserversSeeInOrder == Spec => []SeenInOrder
<1>1. EndInv /\ SeenInv => SeenInOrder
  <2> SUFFICES ASSUME EndInv, SeenInv, Going, NEW o \in (held \cap mapped) \ twice
               PROVE  LET due == SubSeq(given, since[o] + 1, Len(given))
                      IN  /\ IsPrefix(seen[o], due)
                          /\ Holders # {} /\ ~Iterating => seen[o] = due
    BY Zenon DEF Going, SeenInOrder
  <2> DEFINE due == SubSeq(given, since[o] + 1, Len(given))
  <2>1. /\ given \in Seq(Msgs) /\ Len(given) \in Nat
        /\ since[o] \in Nat /\ seen[o] \in Seq(Msgs) /\ Len(seen[o]) \in Nat
    BY LenProperties DEF SeenInv, ListTyped
  <2>2. PICK i \in 1 .. Len(observers) : observers[i] = o
    BY DEF SeenInv, ListedOnce, OneEntry
  <2>3. Shown(o, Reached(i))
    BY <2>2 DEF SeenInv, AllShown
  <2>4. Reached(i) <= Len(given) /\ (~Iterating => Reached(i) = Len(given))
    BY <2>1 DEF Reached, Iterating
  <2>5. Reached(i) \in Int
    BY <2>1 DEF Reached
  <2>6. since[o] + Len(seen[o]) <= Len(given)
    BY <2>1, <2>3, <2>4, <2>5 DEF Shown
  <2>7. /\ due \in Seq(Msgs) /\ Len(due) = Len(given) - since[o]
        /\ \A k \in 1 .. Len(given) - since[o] : due[k] = given[since[o] + k]
    BY <2>1, <2>6, SMTT(60)
  <2> HIDE DEF due
  <2>8. Len(seen[o]) <= Len(due) /\ \A k \in 1 .. Len(seen[o]) : seen[o][k] = due[k]
    BY <2>1, <2>3, <2>6, <2>7 DEF Shown
  <2>9. IsPrefix(seen[o], due)
    BY <2>1, <2>7, <2>8, PrefixPointwise
  <2>10. ASSUME Holders # {}, ~Iterating PROVE seen[o] = due
    <3>1. Len(seen[o]) = Len(due)
      BY <2>1, <2>3, <2>4, <2>7, <2>10 DEF Shown, Lives
    <3> QED BY <2>1, <2>7, <2>8, <3>1, SeqEqual
  <2> QED BY <2>9, <2>10 DEF due
<1> QED BY <1>1, SeenInvariant, PTL
=============================================================================
