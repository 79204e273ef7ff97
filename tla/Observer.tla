------------------------------ MODULE Observer ------------------------------
(***************************************************************************)
(* The Subject of design_pattern/observer.h, its notification thread and   *)
(* the observers that attach to it.  Threads in Users share the Subject;   *)
(* whoever drops the last shared_ptr runs ~Subject.  The callbacks run on  *)
(* the worker, and may call the same operations.                           *)
(*                                                                         *)
(* A run ends (end # "") where the code is undefined or terminates: the    *)
(* list of observers changed by one thread while another walks it or       *)
(* changes it, the list node the worker stands on erased, an observer      *)
(* removed from a Subject it is not attached to, the worker joining itself.*)
(***************************************************************************)
EXTENDS Naturals, Sequences, FiniteSets, SequencesExt

CONSTANTS
  Users,       \* the threads of the program
  Worker,      \* notification_thread_
  Observers,
  Msgs,        \* the messages, each created once
  Empty,       \* the empty string
  MaxEntries,  \* bound: the most entries in observers_
  MaxAgain,    \* bound: how often notify() is called on its own
  MaxNested    \* bound: how often callbacks attach

ASSUME WorkerAssumption == Worker \notin Users
ASSUME EmptyAssumption == Empty \notin Msgs

VARIABLES
  observers,  \* observers_
  current,    \* current_message_
  queue,      \* notification_queue_
  shutdown,   \* shutdown_
  ready,      \* Subject's constructor has returned
  worker,     \* where notification_worker is
  at,         \* its iterator, as an index of observers
  owners,     \* the users that hold a shared_ptr to the Subject
  user,       \* where each user is
  held,       \* the observers some user holds a shared_ptr to
  mapped      \* the observers whose callback_map_ has this Subject

subjectVars == <<observers, current, queue, shutdown, ready>>
workerVars == <<worker, at>>
userVars == <<owners, user>>
observerVars == <<held, mapped>>

VARIABLES
  posted,     \* history: the messages in the order of their notifications
  taken,      \* history: the messages the worker took from the queue
  given,      \* history: those of them that are not empty
  since,      \* history: how many of these precede an observer's attachment
  seen,       \* history: what each observer's callback was given since
  twice,      \* history: observers attached while attached
  again,      \* history: calls of notify() on its own
  nested,     \* history: calls of set_callback by callbacks
  end         \* "", or what ended the run

historyVars == <<posted, taken, given, since, seen, twice, again, nested>>
vars == <<subjectVars, workerVars, userVars, observerVars, historyVars, end>>

(* "check": about to test the predicate of the wait, from the thread's      *)
(* start on; "asleep": in the wait; "deliver": in the loop over observers_; *)
(* "calling": in update; "done": returned; "never": returned before the     *)
(* constructor had initialised shutdown_.                                   *)
WorkerPlaces == {"check", "asleep", "deliver", "calling", "done", "never"}

(* "noting": in create_message, holding msg_mutex_; "listing": in attach or *)
(* detach; "walking": in the detach of ~Observer, which changes nothing;    *)
(* "dying", "join": in ~Subject, before and after its first block; "gone":  *)
(* after it.                                                                *)
UserPlaces == {"idle", "noting", "listing", "walking", "dying", "join", "gone"}

(* shutdown_ is declared after the thread: until the constructor comes to   *)
(* its initialiser it is whatever the memory held.                          *)
Init ==
  /\ observers = <<>> /\ current = Empty /\ queue = <<>>
  /\ shutdown \in BOOLEAN
  /\ ready = FALSE
  /\ worker = "check" /\ at = 1
  /\ owners = Users /\ user = [t \in Users |-> "idle"]
  /\ held = Observers /\ mapped = {}
  /\ posted = <<>> /\ taken = <<>> /\ given = <<>>
  /\ since = [o \in Observers |-> 0] /\ seen = [o \in Observers |-> <<>>]
  /\ twice = {} /\ again = 0 /\ nested = 0
  /\ end = ""

Constructed ==
  /\ ~ready
  /\ ready' = TRUE
  /\ shutdown' = FALSE
  /\ UNCHANGED <<observers, current, queue, workerVars, userVars, observerVars,
                 historyVars, end>>

Iterating == worker \in {"deliver", "calling"}

(* Thread t runs code that may call the Subject: a user, or a callback.     *)
MayCall(t) ==
  /\ ready /\ end = ""
  /\ IF t = Worker THEN worker = "calling" ELSE t \in owners /\ user[t] = "idle"

(* Thread t runs code that may drop or remove an observer, whether it holds *)
(* the Subject or not.                                                      *)
MayRemove(t) ==
  /\ end = ""
  /\ IF t = Worker THEN worker = "calling" ELSE user[t] \in {"idle", "gone"}

(* The users with a shared_ptr to the Subject, that of a lock() included.   *)
Holders == owners \cup {t \in Users : user[t] \in {"listing", "walking"}}

(* lock() on a weak_ptr to the Subject finds it.                            *)
Locks == ready /\ (Holders # {} \/ worker = "calling")

UserGo(t, to) == user' = IF t = Worker THEN user ELSE [user EXCEPT ![t] = to]

-----------------------------------------------------------------------------
(* Messages.                                                                *)

Woken_Nobody == worker

(* notify_one, under the mutex of the wait.                                 *)
Woken == IF worker = "asleep" THEN "check" ELSE worker

MsgMutexFree_Always == TRUE
MsgMutexFree == \A t \in Users : user[t] # "noting"

(* notify().                                                                *)
Notify(msg) == queue' = Append(queue, msg) /\ worker' = Woken

(* create_message, by a user: the message is stored and then notified.      *)
CreateMessage(t, msg) ==
  /\ t # Worker /\ MayCall(t) /\ MsgMutexFree
  /\ msg \notin Range(posted)
  /\ current' = msg
  /\ posted' = Append(posted, msg)
  /\ UserGo(t, "noting")
  /\ UNCHANGED <<observers, queue, shutdown, ready, workerVars, owners,
                 observerVars, taken, given, since, seen, twice, again, nested, end>>

NotifyCreated(t) ==
  /\ end = "" /\ user[t] = "noting"
  /\ Notify(current)
  /\ UserGo(t, "idle")
  /\ UNCHANGED <<observers, current, shutdown, ready, at, owners, observerVars,
                 historyVars, end>>

(* By a callback, in one step: the worker waits for nothing meanwhile.      *)
CreateInCallback(msg) ==
  /\ MayCall(Worker) /\ MsgMutexFree
  /\ msg \notin Range(posted)
  /\ current' = msg
  /\ posted' = Append(posted, msg)
  /\ Notify(msg)
  /\ UNCHANGED <<observers, shutdown, ready, at, userVars, observerVars, taken,
                 given, since, seen, twice, again, nested, end>>

(* notify() on its own reads current_message_ without its mutex.            *)
NotifyAgain(t) ==
  /\ MayCall(t) /\ again < MaxAgain
  /\ again' = again + 1
  /\ IF MsgMutexFree
     THEN Notify(current) /\ posted' = Append(posted, current) /\ UNCHANGED end
     ELSE end' = "torn message" /\ UNCHANGED <<queue, worker, posted>>
  /\ UNCHANGED <<observers, current, shutdown, ready, at, userVars,
                 observerVars, taken, given, since, seen, twice, nested>>

-----------------------------------------------------------------------------
(* observers_, which no mutex protects from its users.                      *)

Writing(t) == \E u \in Users \ {t} : user[u] = "listing"
Walking(t) == \E u \in Users \ {t} : user[u] = "walking"
Races(t) == Writing(t) \/ Walking(t) \/ (t # Worker /\ Iterating)

Race(t) ==
  /\ Races(t)
  /\ end' = "raced"
  /\ UNCHANGED <<subjectVars, workerVars, userVars, observerVars, historyVars>>

(* set_callback, with attach.  An observer attached during a delivery is    *)
(* behind the worker and is given that message too: callbacks that attach   *)
(* at every call would keep the worker in one delivery.                     *)
SetCallback(t, o) ==
  /\ MayCall(t) /\ o \in held /\ Len(observers) < MaxEntries
  /\ t = Worker => nested < MaxNested
  /\ \/ Race(t)
     \/ /\ ~Races(t)
        /\ observers' = Append(observers, o)
        /\ mapped' = mapped \cup {o}
        /\ twice' = IF o \in Range(observers) THEN twice \cup {o} ELSE twice
        /\ since' = [since EXCEPT ![o] = Len(given) - (IF Iterating THEN 1 ELSE 0)]
        /\ seen' = [seen EXCEPT ![o] = <<>>]
        /\ nested' = IF t = Worker THEN nested + 1 ELSE nested
        /\ UserGo(t, "listing")
        /\ UNCHANGED <<current, queue, shutdown, ready, workerVars, owners,
                       held, posted, taken, given, again, end>>

(* What o was given while it was attached counts no more.                   *)
Forget(o) ==
  /\ since' = [since EXCEPT ![o] = 0]
  /\ seen' = [seen EXCEPT ![o] = <<>>]

(* remove_self and remove_from_subject, with detach: the first entry of the *)
(* observer goes, and with it the node on which the worker may stand.  Of a *)
(* Subject that nobody holds they erase a key that nothing looks up again.  *)
RemoveSelf(t, o) ==
  LET entries == {i \in 1 .. Len(observers) : observers[i] = o}
      first == CHOOSE i \in entries : \A j \in entries : i <= j
      stands == Iterating /\ entries # {} /\ first = at
  IN  /\ MayRemove(t) /\ Locks /\ o \in held \cap mapped
      /\ \/ Race(t)
         \/ /\ ~Races(t)
            /\ end' = IF stands THEN "erased under the iterator" ELSE ""
            /\ observers' = IF entries = {} THEN observers ELSE RemoveAt(observers, first)
            /\ at' = IF Iterating /\ entries # {} /\ first < at THEN at - 1 ELSE at
            /\ mapped' = mapped \ {o}
            /\ Forget(o)
            /\ UserGo(t, "listing")
            /\ UNCHANGED <<current, queue, shutdown, ready, worker, owners,
                           held, posted, taken, given, twice, again, nested>>

(* remove_from_subject goes through the end iterator of find.               *)
RemoveUnmapped(t, o) ==
  /\ MayCall(t) /\ o \in held \ mapped
  /\ end' = "not mapped"
  /\ UNCHANGED <<subjectVars, workerVars, userVars, observerVars, historyVars>>

(* The last user lets an observer go: ~Observer runs there, or on the       *)
(* worker that is in its update.  weak_from_this() has expired, so          *)
(* remove_self detaches nothing: the list keeps an expired entry, for the   *)
(* worker to erase.  But it walks the list, with a shared_ptr to the        *)
(* Subject.  (That such a walk holds a shared_ptr to each entry it looks at *)
(* is left out.)                                                            *)
DropObserver(t, o) ==
  LET updated == worker = "calling" /\ observers[at] = o
      walks == o \in mapped /\ Locks /\ ~updated
  IN  /\ MayRemove(t) /\ o \in held
      /\ held' = held \ {o}
      /\ mapped' = mapped \ {o}
      /\ Forget(o)
      /\ UserGo(t, IF walks THEN "walking" ELSE user[t])
      /\ end' = IF walks /\ Writing(t) THEN "raced" ELSE ""
      /\ UNCHANGED <<subjectVars, workerVars, owners, posted, taken, given,
                     twice, again, nested>>

-----------------------------------------------------------------------------
(* The end of the Subject.                                                  *)

(* What user t lets go is the last shared_ptr to the Subject: ~Subject runs *)
(* here.  The worker holds one during update, and then it runs there.       *)
IsLast(t) == Holders \subseteq {t} /\ worker # "calling"

DropSubject(t) ==
  /\ t \in Users /\ MayCall(t)
  /\ owners' = owners \ {t}
  /\ UserGo(t, IF IsLast(t) THEN "dying" ELSE "idle")
  /\ UNCHANGED <<subjectVars, workerVars, observerVars, historyVars, end>>

(* attach or detach returns, and with it what lock() held.                  *)
EndListing(t) ==
  /\ end = "" /\ user[t] \in {"listing", "walking"}
  /\ UserGo(t, IF t \notin owners /\ IsLast(t) THEN "dying" ELSE "idle")
  /\ UNCHANGED <<subjectVars, workerVars, owners, observerVars, historyVars, end>>

Shutdown(t) ==
  /\ end = "" /\ user[t] = "dying"
  /\ shutdown' = TRUE
  /\ worker' = Woken
  /\ UserGo(t, "join")
  /\ UNCHANGED <<observers, current, queue, ready, at, owners, observerVars,
                 historyVars, end>>

Join(t) ==
  /\ end = "" /\ user[t] = "join" /\ worker \in {"done", "never"}
  /\ UserGo(t, "gone")
  /\ UNCHANGED <<subjectVars, workerVars, owners, observerVars, historyVars, end>>

-----------------------------------------------------------------------------
(* notification_worker.                                                     *)

MustReturn_OnShutdown == shutdown
MustReturn == shutdown /\ queue = <<>>

WorkerSleeps ==
  /\ end = "" /\ worker = "check" /\ queue = <<>> /\ ~shutdown
  /\ worker' = "asleep"
  /\ UNCHANGED <<subjectVars, at, userVars, observerVars, historyVars, end>>

SpuriousWakeup ==
  /\ end = "" /\ worker = "asleep"
  /\ worker' = "check"
  /\ UNCHANGED <<subjectVars, at, userVars, observerVars, historyVars, end>>

WorkerReturns ==
  /\ end = "" /\ worker = "check" /\ MustReturn
  /\ worker' = IF ready THEN "done" ELSE "never"
  /\ UNCHANGED <<subjectVars, at, userVars, observerVars, historyVars, end>>

(* The empty message is delivered to nobody.  observers_mutex_ is taken,    *)
(* and keeps out nobody that is in attach or detach.                        *)
WorkerTakes ==
  /\ end = "" /\ worker = "check" /\ ~MustReturn /\ queue # <<>>
  /\ queue' = Tail(queue)
  /\ taken' = Append(taken, Head(queue))
  /\ given' = IF Head(queue) = Empty THEN given ELSE Append(given, Head(queue))
  /\ worker' = IF Head(queue) = Empty THEN "check" ELSE "deliver"
  /\ at' = 1
  /\ end' = IF Head(queue) # Empty /\ Writing(Worker) THEN "raced" ELSE ""
  /\ UNCHANGED <<observers, current, shutdown, ready, userVars, observerVars,
                 posted, since, seen, twice, again, nested>>

AtAfterErase_Next == at + 1
AtAfterErase == at

(* An expired entry is erased; one that is not is locked and updated, if    *)
(* shared_from_this() does not throw, as it does inside ~Subject.           *)
WorkerVisits ==
  /\ end = "" /\ worker = "deliver" /\ at <= Len(observers)
  /\ LET o == observers[at]
     IN  \/ /\ o \notin held
            /\ observers' = RemoveAt(observers, at)
            /\ at' = AtAfterErase
            /\ end' = IF Walking(Worker) THEN "raced" ELSE ""
            /\ UNCHANGED <<worker, seen>>
         \/ /\ o \in held /\ Holders = {}
            /\ at' = at + 1
            /\ UNCHANGED <<observers, worker, seen, end>>
         \/ /\ o \in held /\ Holders # {}
            /\ worker' = "calling"
            /\ seen' = IF o \in mapped THEN [seen EXCEPT ![o] = Append(@, Last(given))]
                       ELSE seen
            /\ UNCHANGED <<observers, at, end>>
  /\ UNCHANGED <<current, queue, shutdown, ready, userVars, observerVars, posted,
                 taken, given, since, twice, again, nested>>

(* update returns and its shared_ptr to the Subject goes.  If it is the     *)
(* last, ~Subject joins the thread it runs on, which throws.                *)
UpdateReturns ==
  /\ end = "" /\ worker = "calling"
  /\ worker' = "deliver"
  /\ at' = at + 1
  /\ end' = IF Holders = {} THEN "joins itself" ELSE ""
  /\ UNCHANGED <<subjectVars, userVars, observerVars, historyVars>>

WorkerDelivered ==
  /\ end = "" /\ worker = "deliver" /\ at > Len(observers)
  /\ worker' = "check"
  /\ at' = 1
  /\ UNCHANGED <<subjectVars, userVars, observerVars, historyVars, end>>

-----------------------------------------------------------------------------

WorkerStep ==
  \/ WorkerSleeps
  \/ WorkerReturns
  \/ WorkerTakes
  \/ WorkerVisits
  \/ UpdateReturns
  \/ WorkerDelivered

UserStep(t) == NotifyCreated(t) \/ EndListing(t) \/ Shutdown(t) \/ Join(t)

Next ==
  \/ Constructed
  \/ \E t \in Users : UserStep(t) \/ DropSubject(t)
  \/ \E t \in Users, msg \in Msgs : CreateMessage(t, msg)
  \/ \E msg \in Msgs : CreateInCallback(msg)
  \/ \E t \in Users \cup {Worker} :
       \/ NotifyAgain(t)
       \/ \E o \in Observers :
            \/ SetCallback(t, o) \/ RemoveSelf(t, o)
            \/ RemoveUnmapped(t, o) \/ DropObserver(t, o)
  \/ WorkerStep
  \/ SpuriousWakeup

(* The threads run, and a callback returns; nobody has to call anything and *)
(* nothing but notify_one ends a wait for certain.                          *)
Spec ==
  /\ Init /\ [][Next]_vars
  /\ WF_vars(Constructed)
  /\ WF_vars(WorkerStep)
  /\ \A t \in Users : WF_vars(UserStep(t))

-----------------------------------------------------------------------------
(* Properties.                                                              *)

(* Types, and the worker's iterator stays inside the list or just behind it *)
(* while it prunes and callbacks attach and detach (observer.h:82-95).      *)
TypeOK ==
  /\ observers \in Seq(Observers) /\ queue \in Seq(Msgs \cup {Empty})
  /\ current \in Msgs \cup {Empty} /\ shutdown \in BOOLEAN /\ ready \in BOOLEAN
  /\ worker \in WorkerPlaces /\ user \in [Users -> UserPlaces]
  /\ owners \subseteq Users /\ held \subseteq Observers /\ mapped \subseteq Observers
  /\ end = "" /\ Iterating => at \in 1 .. Len(observers) + 1

(* Every message that is created is notified, once, and they are taken in   *)
(* the order in which they were created: between storing a message and      *)
(* notifying it msg_mutex_ lets no other be stored (observer.h:57-61).      *)
NotificationOrder ==
  posted = taken \o queue \o
           IF \E t \in Users : user[t] = "noting" THEN <<current>> ELSE <<>>

(* An observer that is attached, once, and alive is given every message     *)
(* taken since, in that order, none left out and none doubled, whatever     *)
(* else is pruned, attached or detached meanwhile (observer.h:80-96).  A    *)
(* Subject that nobody holds any more delivers nothing of what it drains,   *)
(* so that then it is only the beginning.                                   *)
SeenInOrder ==
  \A o \in (held \cap mapped) \ twice :
    LET due == SubSeq(given, since[o] + 1, Len(given))
    IN  end = "" => /\ IsPrefix(seen[o], due)
                    /\ Holders # {} /\ ~Iterating => seen[o] = due

(* When ~Subject returns, the worker has emptied the queue, unless it took  *)
(* the uninitialised shutdown_ for true (observer.h:72-74,108).             *)
DrainedAtEnd ==
  \A t \in Users : user[t] = "gone" => queue = <<>> \/ worker = "never"

(* Every notification is taken: the wait misses none (observer.h:52-56 with *)
(* 67-70).                                                                  *)
WorkerServes == queue # <<>> ~> queue = <<>> \/ worker = "never" \/ end # ""

(* ~Subject returns: the worker sees shutdown_ wherever it was, drains and  *)
(* ends (observer.h:31-39).                                                 *)
DestructorReturns ==
  \A t \in Users : user[t] = "dying" ~> user[t] = "gone" \/ end # ""
=============================================================================
