-------------------------- MODULE TcpServerProofs --------------------------
(***************************************************************************)
(* Theorems about TcpServer, for any number of loops and of clients.       *)
(***************************************************************************)
EXTENDS TcpServer, SequenceTheorems, TLAPS

Conns == [loop : Loops, state : {"kConnecting", "kConnected", "kDisconnected"},
          polled : BOOLEAN, ended : {0, 1, 2}]

(* The functors of a connection.                                            *)
E(c) == <<"established", c>>
D(c) == <<"destroyed", c>>
R(c) == <<"remove", c>>

(* What loop l has yet to run, first what it has swapped out.               *)
TodoOf(b, d, p) == SubSeq(b, d + 1, Len(b)) \o p
Todo(l) == TodoOf(batch[l], done[l], pending[l])

In(f, q) == \E i \in 1 .. Len(q) : q[i] = f
Once(f, q) == \A i, j \in 1 .. Len(q) : q[i] = f /\ q[j] = f => i = j
Before(f, g, q) == \A i, j \in 1 .. Len(q) : q[i] = f /\ q[j] = g => i < j

-----------------------------------------------------------------------------
(* The inductive invariant.                                                 *)

Typed ==
  /\ numThreads \in Nat
  /\ place \in [Loops -> Places] /\ quit \in [Loops -> BOOLEAN]
  /\ server \in ServerPlaces /\ listening \in BOOLEAN /\ crashed \in BOOLEAN
  /\ next_ \in 1 .. numThreads + 1 /\ ending \in 1 .. numThreads + 1
  /\ conns \in Seq(Conns)
  /\ connections \subseteq Ids /\ dropped \subseteq Ids
  /\ pending \in [Loops -> Seq(Functors)] /\ batch \in [Loops -> Seq(Functors)]
  /\ done \in [Loops -> Nat]

(* doPendingFunctors holds functors only while it runs them; a loop that is *)
(* not alive holds none.                                                    *)
Threads ==
  \A l \in Loops :
    /\ done[l] <= Len(batch[l])
    /\ place[l] # "functors" => batch[l] = <<>> /\ done[l] = 0
    /\ ~Alive(l) => pending[l] = <<>>

(* A functor is on the loop it is for.                                      *)
LoopOf(f, cs) == IF f[1] \in {"established", "destroyed"} THEN cs[f[2]].loop ELSE 0
OnLoop(l, q, cs) == \A i \in 1 .. Len(q) : l = LoopOf(q[i], cs)
Placed == \A l \in Loops : OnLoop(l, pending[l], conns) /\ OnLoop(l, batch[l], conns)

(* The loops of the pool: none before start(), all until the destructor,    *)
(* which ends one after the other.                                          *)
Unused == \A l \in Loops \ {0} : place[l] = "none" /\ ~quit[l]
Used ==
  \A l \in Loops \ {0} :
    /\ place[l] # "none"
    /\ l < ending => place[l] = "dead"
    /\ l > ending \/ (l = ending /\ server # "join") => Alive(l) /\ ~quit[l]

Early == server \in {"constructed", "started"}

Lifetime ==
  /\ server = "constructed" =>
       Unused /\ conns = <<>> /\ \A l \in Loops : pending[l] = <<>> /\ batch[l] = <<>>
  /\ server # "constructed" =>
       Used \/ (Unused /\ conns = <<>> /\ server \in {"destroying", "gone"})
  /\ Early \/ server = "destroying" => ending = 1
  /\ server \in {"quit", "join"} => ending <= numThreads /\ Used
  /\ server = "gone" => ending = numThreads + 1 \/ (Unused /\ conns = <<>>)
  /\ server \in {"quit", "join", "gone"} => connections = {}
  /\ server \in {"destroying", "quit", "join"} => place[0] = "outside"
  /\ place[0] # "none" /\ (server # "gone" => place[0] # "dead")
  /\ listening => server \notin {"constructed", "gone"}
  /\ crashed => \E i \in 1 .. Len(batch[0]) : batch[0][i][1] \in {"remove", "listen"}

(* Who is to call conneectDestroyed of a connection: the server ("in"),     *)
(* a functor, or nobody any more; conneectEstableished is called before.    *)
(* t is what its loop has to do, r what the main loop has to do.            *)
KeeperOf(c, conn, in, t, r, early, live, lost, over) ==
  /\ Once(E(c), t) /\ Once(D(c), t) /\ Before(E(c), D(c), t)
  /\ Once(R(c), r)
  /\ conn.ended \in {0, 1}
  /\ in => ~In(D(c), t) /\ conn.ended = 0
  /\ In(D(c), t) => conn.ended = 0
  /\ conn.ended = 1 => conn.state = "kDisconnected" /\ ~conn.polled /\ ~In(E(c), t)
  /\ In(R(c), r) => conn.state = "kDisconnected" /\ (early => in)
  /\ early /\ conn.state # "kDisconnected" => in
  /\ In(E(c), t) => conn.state = "kConnecting"
  /\ conn.state = "kConnecting" => In(E(c), t) \/ lost
  /\ conn.loop = 0 => /\ conn.state # "kConnecting"
                      /\ In(D(c), t) => conn.state = "kDisconnected"
  /\ live => in \/ In(D(c), t) \/ conn.ended = 1
  /\ ~live => lost \/ conn.ended = 1
  /\ lost => ~live /\ over

Over == server \in {"quit", "join", "gone"}

Keeper(c) ==
  LET h == conns[c].loop
  IN  KeeperOf(c, conns[c], c \in connections, Todo(h), Todo(0), Early, Alive(h),
               c \in dropped, Over)

Custody == \A c \in Ids : Keeper(c)

(* The loop of a connection, counted back from the next one.                *)
Turn ==
  IF numThreads = 0
  THEN next_ = 1 /\ \A c \in Ids : conns[c].loop = 0
  ELSE /\ next_ <= numThreads
       /\ \A c \in Ids :
            /\ conns[c].loop # 0
            /\ \E k \in Int : Len(conns) + 1 - c = numThreads * k + next_ - conns[c].loop

ServerInv == Typed /\ Threads /\ Placed /\ Lifetime /\ Custody /\ Turn

-----------------------------------------------------------------------------
(* Sequences of functors.                                                   *)

LEMMA FunctorsDiffer ==
  \A c, d : /\ E(c) # D(d) /\ E(c) # R(d) /\ D(c) # R(d)
            /\ E(c) # <<"listen", 0>> /\ D(c) # <<"listen", 0>> /\ R(c) # <<"listen", 0>>
            /\ (E(c) = E(d) => c = d) /\ (D(c) = D(d) => c = d) /\ (R(c) = R(d) => c = d)
BY DEF E, D, R

(* Running the first functor takes that one away and reorders nothing.      *)
LEMMA TailFacts ==
  ASSUME NEW S, NEW q \in Seq(S), q # <<>>
  PROVE  /\ Tail(q) \in Seq(S) /\ Head(q) \in S /\ In(Head(q), q)
         /\ \A f : In(f, Tail(q)) => In(f, q)
         /\ \A f : f # Head(q) /\ In(f, q) => In(f, Tail(q))
         /\ \A f : Once(f, q) => Once(f, Tail(q))
         /\ Once(Head(q), q) => ~In(Head(q), Tail(q))
         /\ \A f, g : Before(f, g, q) => Before(f, g, Tail(q))
         /\ \A f : Before(f, Head(q), q) => ~In(f, q)
<1> DEFINE r == Tail(q)
<1>1. /\ r \in Seq(S) /\ Head(q) \in S /\ Len(r) = Len(q) - 1 /\ Len(r) \in Nat
      /\ \A i \in 1 .. Len(r) : r[i] = q[i + 1]
      /\ Len(q) \in Nat /\ Len(q) > 0 /\ Head(q) = q[1]
  BY HeadTailProperties
<1> HIDE DEF r
<1>2. \A i \in 1 .. Len(r) : i + 1 \in 1 .. Len(q) /\ r[i] = q[i + 1] /\ i + 1 # 1
  BY <1>1
<1>3. \A j \in 1 .. Len(q) : j = 1 \/ (j - 1 \in 1 .. Len(r) /\ r[j - 1] = q[j])
  BY <1>1
<1>4. 1 \in 1 .. Len(q)
  BY <1>1
<1>5. In(Head(q), q) /\ \A f : In(f, r) => In(f, q)
  BY <1>1, <1>2, <1>4 DEF In
<1>6. \A f : f # Head(q) /\ In(f, q) => In(f, r)
  BY <1>1, <1>3 DEF In
<1>7. ASSUME NEW f, Once(f, q) PROVE Once(f, r)
  <2> SUFFICES ASSUME NEW i \in 1 .. Len(r), NEW j \in 1 .. Len(r), r[i] = f, r[j] = f
               PROVE  i = j
    BY DEF Once
  <2>1. i + 1 = j + 1
    BY <1>2, <1>7 DEF Once
  <2> QED BY <1>1, <2>1
<1>8. ASSUME Once(Head(q), q) PROVE ~In(Head(q), r)
  BY <1>1, <1>2, <1>4, <1>8 DEF Once, In
<1>9. ASSUME NEW f, NEW g, Before(f, g, q) PROVE Before(f, g, r)
  <2> SUFFICES ASSUME NEW i \in 1 .. Len(r), NEW j \in 1 .. Len(r), r[i] = f, r[j] = g
               PROVE  i < j
    BY DEF Before
  <2>1. i + 1 < j + 1
    BY <1>2, <1>9 DEF Before
  <2> QED BY <1>1, <2>1
<1>10. ASSUME NEW f, Before(f, Head(q), q) PROVE ~In(f, q)
  <2> SUFFICES ASSUME NEW i \in 1 .. Len(q), q[i] = f PROVE FALSE
    BY DEF In
  <2>1. i < 1
    BY <1>1, <1>4, <1>10 DEF Before
  <2> QED BY <1>1, <2>1
<1> QED BY <1>1, <1>5, <1>6, <1>7, <1>8, <1>9, <1>10 DEF r

(* Queueing a functor adds that one behind the others.                      *)
LEMMA AppendFacts ==
  ASSUME NEW S, NEW q \in Seq(S), NEW x \in S
  PROVE  /\ Append(q, x) \in Seq(S)
         /\ \A f : In(f, Append(q, x)) <=> In(f, q) \/ f = x
         /\ \A f : Once(f, q) /\ (f = x => ~In(f, q)) => Once(f, Append(q, x))
         /\ \A f, g : Before(f, g, q) /\ f # g /\ (f = x => ~In(g, q))
                        => Before(f, g, Append(q, x))
<1> DEFINE r == Append(q, x)
           n == Len(q) + 1
<1>1. /\ r \in Seq(S) /\ Len(r) = n /\ Len(q) \in Nat /\ r[n] = x
      /\ \A i \in 1 .. Len(q) : r[i] = q[i]
  OBVIOUS
<1> HIDE DEF r
<1>2. /\ \A i \in 1 .. Len(r) : i = n \/ (i \in 1 .. Len(q) /\ r[i] = q[i] /\ i < n)
      /\ n \in 1 .. Len(r)
      /\ \A i \in 1 .. Len(q) : i \in 1 .. Len(r) /\ i # n
  BY <1>1
<1> HIDE DEF n
<1>3. \A f : In(f, r) <=> In(f, q) \/ f = x
  BY <1>1, <1>2 DEF In
<1>4. \A f : Once(f, q) /\ (f = x => ~In(f, q)) => Once(f, r)
  BY <1>1, <1>2 DEF In, Once
<1>5. \A f, g : Before(f, g, q) /\ f # g /\ (f = x => ~In(g, q)) => Before(f, g, r)
  BY <1>1, <1>2 DEF In, Before
<1> QED BY <1>1, <1>3, <1>4, <1>5 DEF r

(* Nothing is in an empty queue.                                            *)
LEMMA EmptyFacts ==
  /\ \A f : ~In(f, <<>>) /\ Once(f, <<>>)
  /\ \A f, g : Before(f, g, <<>>)
BY DEF In, Once, Before

(* What a loop has to do, through the steps of doPendingFunctors.           *)
LEMMA TodoFacts ==
  ASSUME NEW S, NEW b \in Seq(S), NEW p \in Seq(S), NEW d \in 0 .. Len(b)
  PROVE  /\ TodoOf(b, d, p) \in Seq(S)
         /\ \A x \in S : TodoOf(b, d, Append(p, x)) = Append(TodoOf(b, d, p), x)
         /\ d = Len(b) => TodoOf(b, d, p) = p
         /\ d < Len(b) => /\ TodoOf(b, d, p) # <<>>
                          /\ Head(TodoOf(b, d, p)) = b[d + 1]
                          /\ Tail(TodoOf(b, d, p)) = TodoOf(b, d + 1, p)
<1> DEFINE s == SubSeq(b, d + 1, Len(b))
<1>1. Len(b) \in Nat /\ d \in Nat /\ \A i \in 1 .. Len(b) : b[i] \in S
  OBVIOUS
<1>2. s \in Seq(S) /\ Len(s) = Len(b) - d /\ \A i \in 1 .. Len(b) - d : s[i] = b[d + i]
  BY <1>1, SubSeqProperties
<1>3. TodoOf(b, d, p) = s \o p /\ s \o p \in Seq(S)
  BY <1>2 DEF TodoOf
<1>4. ASSUME NEW x \in S PROVE TodoOf(b, d, Append(p, x)) = Append(TodoOf(b, d, p), x)
  <2> HIDE DEF s
  <2>1. Append(p, x) = p \o <<x>> /\ Append(s \o p, x) = (s \o p) \o <<x>> /\ <<x>> \in Seq(S)
    BY <1>3, AppendIsConcat
  <2>2. (s \o p) \o <<x>> = s \o (p \o <<x>>)
    <3>1. s \in Seq(S)
      BY <1>2
    <3>2. <<x>> \in Seq(S)
      BY <2>1
    <3> QED BY <3>1, <3>2, ConcatAssociative, SMTT(60)
  <2>3. TodoOf(b, d, Append(p, x)) = s \o Append(p, x)
    BY DEF TodoOf, s
  <2> QED BY <1>3, <2>1, <2>2, <2>3
<1>5. ASSUME d = Len(b) PROVE TodoOf(b, d, p) = p
  <2>1. s = <<>>
    BY <1>1, <1>5, SubSeqEmpty
  <2> HIDE DEF s
  <2> QED BY <1>3, <2>1, ConcatEmptySeq
<1>6. ASSUME d < Len(b)
      PROVE  /\ TodoOf(b, d, p) # <<>>
             /\ Head(TodoOf(b, d, p)) = b[d + 1]
             /\ Tail(TodoOf(b, d, p)) = TodoOf(b, d + 1, p)
  <2> DEFINE u == SubSeq(b, d + 2, Len(b))
             x == b[d + 1]
  <2>1. x \in S /\ u \in Seq(S)
    BY <1>1, <1>6, SubSeqProperties
  <2>2. s = <<x>> \o u
    <3>1. d + 1 \in 1 .. Len(b) /\ Len(b) \in d + 1 .. Len(b) /\ (d + 1) + 1 = d + 2
      BY <1>1, <1>6
    <3>2. SubSeq(b, d + 1, Len(b)) = <<b[d + 1]>> \o SubSeq(b, (d + 1) + 1, Len(b))
      BY <3>1, SubSeqRecursiveFirst
    <3> QED BY <3>1, <3>2
  <2> HIDE DEF s, u
  <2>3. s \o p = <<x>> \o (u \o p) /\ <<x>> \in Seq(S)
    BY <2>1, <2>2, ConcatAssociative, SMTT(60)
  <2> DEFINE v == u \o p
  <2>4. v \in Seq(S)
    BY <2>1
  <2> HIDE DEF v
  <2>5. <<x>> \o v # <<>> /\ Head(<<x>> \o v) = x /\ Tail(<<x>> \o v) = v
    BY <2>1, <2>4, SMTT(60)
  <2>6. TodoOf(b, d + 1, p) = v
    <3>1. (d + 1) + 1 = d + 2
      BY <1>1
    <3> QED BY <3>1 DEF TodoOf, u, v
  <2> QED BY <1>3, <2>3, <2>5, <2>6 DEF v
<1> QED BY <1>3, <1>4, <1>5, <1>6

-----------------------------------------------------------------------------
(* Types.                                                                   *)

LEMMA TypeFacts ==
  ASSUME Typed
  PROVE  /\ numThreads \in Nat /\ Loops \subseteq Nat /\ 0 \in Loops
         /\ Len(conns) \in Nat /\ Ids \subseteq Nat \ {0}
         /\ \A c \in Ids : conns[c] \in Conns /\ conns[c].loop \in Loops
         /\ \A c \in Ids : E(c) \in Functors /\ D(c) \in Functors /\ R(c) \in Functors
         /\ <<"listen", 0>> \in Functors
         /\ \A l \in Loops : pending[l] \in Seq(Functors) /\ batch[l] \in Seq(Functors)
<1>1. numThreads \in Nat /\ Loops \subseteq Nat /\ 0 \in Loops
  BY DEF Typed, Loops
<1>2. conns \in Seq(Conns) /\ Len(conns) \in Nat /\ Ids = 1 .. Len(conns)
  BY DEF Typed, Ids
<1>3. \A c \in Ids : conns[c] \in Conns
  BY <1>2
<1>4. \A conn \in Conns : conn.loop \in Loops
  BY DEF Conns
<1>5. /\ \A c \in Ids : E(c) \in Functors /\ D(c) \in Functors /\ R(c) \in Functors
      /\ <<"listen", 0>> \in Functors
  BY DEF Functors, E, D, R
<1>6. \A l \in Loops : pending[l] \in Seq(Functors) /\ batch[l] \in Seq(Functors)
  BY DEF Typed
<1> QED BY <1>1, <1>2, <1>3, <1>4, <1>5, <1>6

(* A functor is listen, or one of a connection's three.                     *)
LEMMA FunctorCases ==
  ASSUME NEW f \in Functors
  PROVE  \/ f = <<"listen", 0>> /\ f[1] = "listen" /\ f[2] = 0
         \/ f[2] \in Ids /\ f = E(f[2]) /\ f[1] = "established"
         \/ f[2] \in Ids /\ f = D(f[2]) /\ f[1] = "destroyed"
         \/ f[2] \in Ids /\ f = R(f[2]) /\ f[1] = "remove"
BY DEF Functors, E, D, R

(* The functor that doPendingFunctors calls, and what it does.              *)
LEMMA RunCases ==
  ASSUME Typed, Threads, NEW l \in Loops, RunFunctor(l)
  PROVE  /\ ~crashed /\ place[l] = "functors" /\ done[l] \in Nat /\ done[l] < Len(batch[l])
         /\ done' = [done EXCEPT ![l] = done[l] + 1]
         /\ UNCHANGED <<place, quit, batch, numThreads, server, next_, ending, dropped>>
         /\ batch[l][done[l] + 1] \in Functors
         /\ LET f == batch[l][done[l] + 1]
            IN  \/ \E c \in Ids :
                     /\ f = E(c) /\ conns' = [conns EXCEPT ![c] = Established(conns[c])]
                     /\ UNCHANGED <<pending, listening, connections, crashed>>
                \/ \E c \in Ids :
                     /\ f = D(c) /\ conns' = [conns EXCEPT ![c] = Destroyed(conns[c])]
                     /\ UNCHANGED <<pending, listening, connections, crashed>>
                \/ \E c \in Ids :
                     /\ f = R(c) /\ server # "gone" /\ RemoveConnectionInLoop(c)
                     /\ UNCHANGED <<conns, listening, crashed>>
                \/ /\ f = <<"listen", 0>> /\ server # "gone" /\ listening' = TRUE
                   /\ UNCHANGED <<pending, conns, connections, crashed>>
                \/ /\ f[1] \in {"remove", "listen"} /\ server = "gone" /\ crashed' = TRUE
                   /\ UNCHANGED <<pending, conns, listening, connections>>
<1> DEFINE f == batch[l][done[l] + 1]
<1>1. done[l] \in Nat /\ Len(batch[l]) \in Nat /\ batch[l] \in Seq(Functors)
  BY TypeFacts DEF Typed
<1>2. done[l] < Len(batch[l]) /\ place[l] = "functors" /\ ~crashed
      /\ done' = [done EXCEPT ![l] = done[l] + 1]
      /\ UNCHANGED <<place, quit, batch, numThreads, server, next_, ending, dropped>>
  BY DEF RunFunctor
<1>3. f \in Functors
  BY <1>1, <1>2, SMTT(60)
<1>4. \/ /\ f[1] = "established"
         /\ conns' = [conns EXCEPT ![f[2]] = Established(conns[f[2]])]
         /\ UNCHANGED <<pending, listening, connections, crashed>>
      \/ /\ f[1] = "destroyed"
         /\ conns' = [conns EXCEPT ![f[2]] = Destroyed(conns[f[2]])]
         /\ UNCHANGED <<pending, listening, connections, crashed>>
      \/ /\ f[1] = "remove" /\ server # "gone"
         /\ RemoveConnectionInLoop(f[2])
         /\ UNCHANGED <<conns, listening, crashed>>
      \/ /\ f[1] = "listen" /\ server # "gone"
         /\ listening' = TRUE
         /\ UNCHANGED <<pending, conns, connections, crashed>>
      \/ /\ f[1] \in {"remove", "listen"} /\ server = "gone"
         /\ crashed' = TRUE
         /\ UNCHANGED <<pending, conns, listening, connections>>
  BY DEF RunFunctor
<1> HIDE DEF f
<1>5. \/ f = <<"listen", 0>> /\ f[1] = "listen" /\ f[2] = 0
      \/ f[2] \in Ids /\ f = E(f[2]) /\ f[1] = "established"
      \/ f[2] \in Ids /\ f = D(f[2]) /\ f[1] = "destroyed"
      \/ f[2] \in Ids /\ f = R(f[2]) /\ f[1] = "remove"
  BY <1>3, FunctorCases
<1>6. \/ \E c \in Ids :
           /\ f = E(c) /\ conns' = [conns EXCEPT ![c] = Established(conns[c])]
           /\ UNCHANGED <<pending, listening, connections, crashed>>
      \/ \E c \in Ids :
           /\ f = D(c) /\ conns' = [conns EXCEPT ![c] = Destroyed(conns[c])]
           /\ UNCHANGED <<pending, listening, connections, crashed>>
      \/ \E c \in Ids :
           /\ f = R(c) /\ server # "gone" /\ RemoveConnectionInLoop(c)
           /\ UNCHANGED <<conns, listening, crashed>>
      \/ /\ f = <<"listen", 0>> /\ server # "gone" /\ listening' = TRUE
         /\ UNCHANGED <<pending, conns, connections, crashed>>
      \/ /\ f[1] \in {"remove", "listen"} /\ server = "gone" /\ crashed' = TRUE
         /\ UNCHANGED <<pending, conns, listening, connections>>
  <2>1. CASE f[1] = "established"
    BY <1>4, <1>5, <2>1
  <2>2. CASE f[1] = "destroyed"
    BY <1>4, <1>5, <2>2
  <2>3. CASE f[1] = "remove"
    BY <1>4, <1>5, <2>3
  <2>4. CASE f[1] = "listen"
    BY <1>4, <1>5, <2>4
  <2> QED BY <1>5, <2>1, <2>2, <2>3, <2>4
<1> QED BY <1>1, <1>2, <1>3, <1>6 DEF f

(* No step but Accept makes a connection, and none moves one.               *)
Unmoved ==
  /\ numThreads' = numThreads
  /\ conns' \in Seq(Conns) /\ Len(conns') = Len(conns)
  /\ \A c \in Ids : conns'[c].loop = conns[c].loop

(* A connection that is updated in place stays on its loop.                 *)
LEMMA ConnUpdate ==
  ASSUME Typed, numThreads' = numThreads, NEW c \in Ids, NEW conn \in Conns,
         conn.loop = conns[c].loop, conns' = [conns EXCEPT ![c] = conn]
  PROVE  Unmoved
<1>1. conns \in Seq(Conns) /\ c \in 1 .. Len(conns)
  BY DEF Typed, Ids
<1>2. conns' \in Seq(Conns) /\ Len(conns') = Len(conns)
      /\ \A i \in 1 .. Len(conns) : conns'[i] = IF i = c THEN conn ELSE conns[i]
  BY <1>1, ExceptSeq
<1> QED BY <1>2 DEF Unmoved, Ids

(* conneectEstableished, conneectDestroyed and handleClose leave the loop   *)
(* of a connection alone.                                                   *)
LEMMA ConnTypes ==
  ASSUME NEW conn \in Conns
  PROVE  /\ Established(conn) \in Conns /\ Established(conn).loop = conn.loop
         /\ Destroyed(conn) \in Conns /\ Destroyed(conn).loop = conn.loop
         /\ [conn EXCEPT !.state = "kDisconnected"] \in Conns
BY DEF Conns, Established, Destroyed, PolledAfterDestroyed

(* No step but Accept makes a connection, and none moves one to another     *)
(* loop.                                                                    *)
LEMMA UnmovedSteps ==
  ASSUME Typed, Threads, [Next]_vars, ~Accept
  PROVE  Unmoved
<1>1. conns \in Seq(Conns) /\ \A c \in Ids : conns[c] \in Conns
  BY TypeFacts DEF Typed
<1>2. ASSUME conns' = conns, numThreads' = numThreads PROVE Unmoved
  BY <1>1, <1>2 DEF Unmoved
<1>3. CASE UNCHANGED vars
  BY <1>2, <1>3 DEF vars, serverVars
<1>4. CASE ServerStep
  <2>1. ASSUME NEW c \in connections, DestroyConnection(c) PROVE Unmoved
    <3>1. c \in Ids /\ numThreads' = numThreads
      BY <2>1 DEF Typed, DestroyConnection
    <3>2. conns' = conns \/ conns' = [conns EXCEPT ![c] = Destroyed(conns[c])]
      BY <2>1 DEF DestroyConnection
    <3> QED BY <1>1, <1>2, <3>1, <3>2, ConnTypes, ConnUpdate
  <2> QED BY <1>2, <1>4, <2>1 DEF ServerStep, Start, Destroy, DestroyMembers, QuitThread, JoinThread
<1>5. ASSUME NEW c \in Ids, HandleClose(c) PROVE Unmoved
  <2>1. /\ numThreads' = numThreads
        /\ conns' = [conns EXCEPT ![c] = [conns[c] EXCEPT !.state = "kDisconnected"]]
    BY <1>5 DEF HandleClose
  <2>2. [conns[c] EXCEPT !.state = "kDisconnected"].loop = conns[c].loop
    BY <1>1 DEF Conns
  <2> QED BY <1>1, <2>1, <2>2, ConnTypes, ConnUpdate
<1>6. ASSUME NEW l \in Loops, EnterLoop(l) \/ LoopStep(l) PROVE Unmoved
  <2>1. CASE RunFunctor(l)
    <3>1. /\ numThreads' = numThreads
          /\ \/ conns' = conns
             \/ \E c \in Ids : \/ conns' = [conns EXCEPT ![c] = Established(conns[c])]
                               \/ conns' = [conns EXCEPT ![c] = Destroyed(conns[c])]
      BY <2>1, RunCases
    <3> QED BY <1>1, <1>2, <3>1, ConnTypes, ConnUpdate
  <2> QED BY <1>2, <1>6, <2>1
      DEF EnterLoop, LoopStep, Poll, SwapFunctors, EndFunctors, LeaveLoop, serverVars
<1>7. CASE QuitMain \/ DestroyMain
  BY <1>2, <1>7 DEF QuitMain, DestroyMain, serverVars
<1> QED BY <1>3, <1>4, <1>5, <1>6, <1>7 DEF Next

(* A sequence over a set is one over any larger set.                        *)
LEMMA SeqMonotone ==
  ASSUME NEW S, NEW T, S \subseteq T
  PROVE  Seq(S) \subseteq Seq(T)
<1> SUFFICES ASSUME NEW q \in Seq(S) PROVE q \in Seq(T)
  OBVIOUS
<1>1. Len(q) \in Nat /\ q = [i \in 1 .. Len(q) |-> q[i]] /\ \A i \in 1 .. Len(q) : q[i] \in T
  OBVIOUS
<1> QED BY <1>1

(* queueInLoop changes the queue of its own loop only.                      *)
LEMMA QueueFacts ==
  ASSUME Typed, NEW l \in Loops, NEW f \in Functors, Queue(l, f)
  PROVE  /\ pending' \in [Loops -> Seq(Functors)]
         /\ pending'[l] = Append(pending[l], f)
         /\ \A k \in Loops : k # l => pending'[k] = pending[k]
<1>1. Append(pending[l], f) \in Seq(Functors)
  BY DEF Typed
<1> QED BY <1>1 DEF Typed, Queue

(* A new connection is in connections_, and established at once or by a     *)
(* functor queued on its loop.                                              *)
LEMMA AcceptFacts ==
  ASSUME Typed, Turn, Accept,
         NEW n, n = Len(conns) + 1, NEW h, h = NextLoop
  PROVE  /\ h \in Loops /\ n \notin Ids /\ Ids' = Ids \cup {n} /\ n \in Nat
         /\ numThreads' = numThreads /\ Functors \subseteq Functors'
         /\ conns' \in Seq(Conns) /\ Len(conns') = n
         /\ \A c \in Ids : conns'[c] = conns[c]
         /\ conns'[n] = IF h = 0 THEN Established(NewConn(0)) ELSE NewConn(h)
         /\ conns'[n].loop = h
         /\ connections' = connections \cup {n}
         /\ \A l \in Loops :
              pending'[l] = IF l = h /\ h # 0 THEN Append(pending[l], E(n)) ELSE pending[l]
         /\ pending' \in [Loops -> Seq(Functors')]
         /\ next_' = IF numThreads = 0 THEN next_ ELSE (next_ % numThreads) + 1
         /\ UNCHANGED <<place, quit, batch, done, server, ending, listening, dropped, crashed>>
<1>1. Len(conns) \in Nat /\ conns \in Seq(Conns) /\ numThreads \in Nat /\ Loops = 0 .. numThreads
  BY TypeFacts DEF Typed, Loops
<1>2. h \in Loops
  BY <1>1 DEF Typed, Turn, NextLoop
<1>3. n \in Nat /\ n \notin Ids /\ \A i : i \in 1 .. n <=> i \in Ids \/ i = n
  BY <1>1 DEF Ids
<1> DEFINE conn == IF h = 0 THEN Established(NewConn(0)) ELSE NewConn(h)
<1>4. conn \in Conns /\ conn.loop = h
  BY <1>2 DEF NewConn, Established, Conns
<1>5. /\ numThreads' = numThreads /\ connections' = connections \cup {n}
      /\ conns' = Append(conns, conn)
      /\ h = 0 => pending' = pending
      /\ h # 0 => pending' = [pending EXCEPT ![h] = Append(@, E(n))]
      /\ next_' = IF numThreads = 0 THEN next_ ELSE (next_ % numThreads) + 1
      /\ UNCHANGED <<place, quit, batch, done, server, ending, listening, dropped, crashed>>
  BY DEF Accept, NewConnection, NextIndex, Queue, E
<1> HIDE DEF conn
<1>6. /\ conns' \in Seq(Conns) /\ Len(conns') = n /\ conns'[n] = conn
      /\ \A c \in Ids : conns'[c] = conns[c]
  BY <1>1, <1>4, <1>5 DEF Ids
<1>7. Ids' = Ids \cup {n}
  BY <1>3, <1>6 DEF Ids
<1>8. Functors \subseteq Functors' /\ E(n) \in Functors'
  BY <1>7 DEF Functors, E
<1>9. pending \in [Loops -> Seq(Functors')]
  BY <1>8, SeqMonotone DEF Typed
<1>10. /\ pending' \in [Loops -> Seq(Functors')]
       /\ \A l \in Loops :
            pending'[l] = IF l = h /\ h # 0 THEN Append(pending[l], E(n)) ELSE pending[l]
  <2>1. CASE h = 0
    BY <1>5, <1>9, <2>1
  <2>2. CASE h # 0
    <3>1. Append(pending[h], E(n)) \in Seq(Functors')
      BY <1>2, <1>8, <1>9
    <3> QED BY <1>2, <1>5, <1>9, <2>2, <3>1
  <2> QED BY <2>1, <2>2
<1> QED BY <1>2, <1>3, <1>4, <1>5, <1>6, <1>7, <1>8, <1>10 DEF conn

(* Steps that make no connection keep the sets the types are built from.    *)
LEMMA SameTypes ==
  ASSUME Typed, Unmoved
  PROVE  Loops' = Loops /\ Ids' = Ids /\ Functors' = Functors /\ Conns' = Conns
<1>1. Loops' = Loops /\ Ids' = Ids
  BY DEF Unmoved, Loops, Ids
<1> QED BY <1>1 DEF Functors, Conns

(* Every step keeps the types.                                              *)
LEMMA TypedStep ==
  ASSUME ServerInv, [Next]_vars
  PROVE  Typed'
<1>0. Typed /\ Threads /\ Lifetime /\ Turn
  BY DEF ServerInv
<1>1. ASSUME Accept PROVE Typed'
  <2> DEFINE n == Len(conns) + 1
  <2>1. /\ n \notin Ids /\ Ids' = Ids \cup {n} /\ n \in Nat
        /\ numThreads' = numThreads /\ Functors \subseteq Functors'
        /\ conns' \in Seq(Conns)
        /\ connections' = connections \cup {n}
        /\ pending' \in [Loops -> Seq(Functors')]
        /\ next_' = IF numThreads = 0 THEN next_ ELSE (next_ % numThreads) + 1
        /\ UNCHANGED <<place, quit, batch, done, server, ending, listening, dropped, crashed>>
    BY <1>0, <1>1, AcceptFacts
  <2> HIDE DEF n
  <2>2. Loops' = Loops /\ Conns' = Conns
    BY <2>1 DEF Loops, Conns
  <2>3. batch' \in [Loops -> Seq(Functors')]
    BY <1>0, <2>1, SeqMonotone DEF Typed
  <2>4. next_' \in 1 .. numThreads + 1
    BY <1>0, <2>1 DEF Typed
  <2> QED BY <1>0, <2>1, <2>2, <2>3, <2>4 DEF Typed
<1>2. ASSUME ~Accept PROVE Typed'
  <2>1. Unmoved /\ Loops' = Loops /\ Ids' = Ids /\ Functors' = Functors /\ Conns' = Conns
    BY <1>0, <1>2, UnmovedSteps, SameTypes
  <2> DEFINE Rest ==
        /\ place' \in [Loops -> Places] /\ quit' \in [Loops -> BOOLEAN]
        /\ server' \in ServerPlaces /\ listening' \in BOOLEAN /\ crashed' \in BOOLEAN
        /\ next_' = next_ /\ ending' \in 1 .. numThreads + 1
        /\ connections' \subseteq Ids /\ dropped' \subseteq Ids
        /\ pending' \in [Loops -> Seq(Functors)] /\ batch' \in [Loops -> Seq(Functors)]
        /\ done' \in [Loops -> Nat]
  <2>2. SUFFICES Rest
    BY <1>0, <2>1 DEF Typed, Unmoved
  <2>3. 0 \in Loops /\ <<>> \in Seq(Functors) /\ numThreads \in Nat
    BY <1>0, TypeFacts
  <2>4. CASE UNCHANGED vars
    BY <1>0, <2>4 DEF Typed, vars, loopVars, serverVars
  <2>5. ASSUME NEW inMain \in BOOLEAN, Start(inMain) PROVE Rest
    <3>1. place' \in [Loops -> Places]
      BY <1>0, <2>3, <2>5 DEF Start, PoolStarted, Typed, Places
    <3>2. pending' \in [Loops -> Seq(Functors)]
      BY <1>0, <2>3, <2>5, TypeFacts, QueueFacts DEF Start, Typed
    <3> QED BY <1>0, <2>5, <3>1, <3>2 DEF Start, Typed, ServerPlaces
  <2>6. CASE Destroy
    BY <1>0, <2>6 DEF Destroy, Typed, ServerPlaces, loopVars
  <2>7. ASSUME NEW c \in connections, DestroyConnection(c) PROVE Rest
    <3>1. c \in Ids /\ conns[c].loop \in Loops /\ D(c) \in Functors
      BY <1>0, TypeFacts DEF Typed
    <3>2. pending' \in [Loops -> Seq(Functors)]
      <4>1. pending[Home(c)] \o LastFunctors(c) \in Seq(Functors)
        BY <1>0, <3>1, TypeFacts DEF Home, LastFunctors, D
      <4> QED BY <1>0, <2>7, <4>1 DEF DestroyConnection, Typed
    <3> QED BY <1>0, <2>7, <3>2 DEF DestroyConnection, Typed
  <2>8. CASE DestroyMembers
    BY <1>0, <2>8 DEF DestroyMembers, ServerGo, AfterThread, AcceptorDies, Typed, ServerPlaces,
                      loopVars
  <2>9. CASE QuitThread
    BY <1>0, <2>9 DEF QuitThread, ServerGo, Typed, ServerPlaces
  <2>10. CASE JoinThread
    <3>1. ending' \in 1 .. numThreads + 1
      BY <1>0, <2>3, <2>10 DEF JoinThread, ServerGo, Lifetime, Typed
    <3> QED BY <1>0, <2>10, <3>1 DEF JoinThread, ServerGo, AfterThread, AcceptorDies, Typed,
                   ServerPlaces, loopVars
  <2>11. ASSUME NEW c \in Ids, HandleClose(c) PROVE Rest
    <3>1. conns[c].loop \in Loops /\ D(c) \in Functors /\ R(c) \in Functors
      BY <1>0, TypeFacts
    <3>2. pending' \in [Loops -> Seq(Functors)]
      BY <1>0, <2>3, <2>11, <3>1, QueueFacts DEF HandleClose, RemoveConnectionInLoop, Home, D, R
    <3>3. connections' \subseteq Ids
      BY <1>0, <2>11 DEF HandleClose, RemoveConnectionInLoop, Erased, Typed
    <3> QED BY <1>0, <2>11, <3>2, <3>3 DEF HandleClose, Typed
  <2>12. ASSUME NEW l \in Loops, EnterLoop(l) PROVE Rest
    BY <1>0, <2>12 DEF EnterLoop, Go, Typed, Places, serverVars
  <2>13. ASSUME NEW l \in Loops, LoopStep(l) PROVE Rest
    <3>1. CASE Poll(l)
      BY <1>0, <3>1 DEF Poll, Go, Typed, Places, serverVars
    <3>2. CASE SwapFunctors(l)
      BY <1>0, <2>3, <3>2 DEF SwapFunctors, Go, Typed, Places, serverVars
    <3>3. CASE RunFunctor(l)
      <4>1. pending' \in [Loops -> Seq(Functors)] /\ connections' \subseteq Ids
        <5>1. ASSUME NEW c \in Ids, RemoveConnectionInLoop(c)
              PROVE  pending' \in [Loops -> Seq(Functors)] /\ connections' \subseteq Ids
          <6>1. conns[c].loop \in Loops /\ D(c) \in Functors
            BY <1>0, TypeFacts
          <6> QED BY <1>0, <5>1, <6>1, QueueFacts
                  DEF RemoveConnectionInLoop, Home, D, Erased, Typed
        <5>2. \/ pending' = pending /\ connections' = connections
              \/ \E c \in Ids : RemoveConnectionInLoop(c)
          BY <1>0, <3>3, RunCases
        <5> QED BY <1>0, <5>1, <5>2 DEF Typed
      <4>2. /\ done' = [done EXCEPT ![l] = done[l] + 1] /\ done[l] \in Nat
            /\ UNCHANGED <<place, quit, batch, server, next_, ending, dropped>>
            /\ listening' \in BOOLEAN /\ crashed' \in BOOLEAN
        BY <1>0, <3>3, RunCases DEF Typed
      <4> QED BY <1>0, <4>1, <4>2 DEF Typed
    <3>4. CASE EndFunctors(l)
      BY <1>0, <2>3, <3>4 DEF EndFunctors, Go, Typed, Places, serverVars
    <3>5. CASE LeaveLoop(l)
      BY <1>0, <2>3, <3>5 DEF LeaveLoop, Discard, Go, Typed, Places, serverVars
    <3> QED BY <2>13, <3>1, <3>2, <3>3, <3>4, <3>5 DEF LoopStep
  <2>14. CASE QuitMain
    BY <1>0, <2>14 DEF QuitMain, Typed, serverVars
  <2>15. CASE DestroyMain
    BY <1>0, <2>3, <2>15 DEF DestroyMain, Discard, Go, Typed, Places, serverVars
  <2> QED BY <1>2, <2>4, <2>5, <2>6, <2>7, <2>8, <2>9, <2>10, <2>11, <2>12, <2>13, <2>14, <2>15
      DEF Next, ServerStep
<1> QED BY <1>1, <1>2

-----------------------------------------------------------------------------
(* The loops, the pool and the server, through every step.                  *)

(* Who is alive when.                                                       *)
LEMMA AliveFacts ==
  ASSUME ServerInv
  PROVE  /\ server = "started" => \A l \in Loops : Alive(l)
         /\ server \in {"started", "destroying"} => \A c \in Ids : Alive(conns[c].loop)
         /\ server # "gone" => Alive(0)
         /\ server = "gone" => \A c \in Ids : \A l \in Loops \ {0} : place[l] = "dead"
         /\ server # "gone" /\ place[0] # "outside" => Early
         /\ Ids # {} => server # "constructed"
<1>1. Typed /\ Lifetime /\ server \in ServerPlaces /\ numThreads \in Nat
  BY DEF ServerInv, Typed
<1>2. /\ 0 \in Loops /\ \A c \in Ids : conns[c].loop \in Loops
      /\ \A l \in Loops : l \in Nat /\ l <= numThreads
      /\ place[0] \in Places /\ (Ids # {} => conns # <<>>)
  BY <1>1, TypeFacts, SMTT(60) DEF Typed, Loops, Ids
<1>3. server # "gone" => Alive(0)
  BY <1>1 DEF Lifetime, Alive
<1>4. server \in {"started", "destroying"} /\ Used => \A l \in Loops : Alive(l)
  BY <1>1, <1>2, <1>3 DEF Lifetime, Early, Used
<1>5. /\ server = "started" => Used
      /\ Ids # {} /\ server = "destroying" => Used
      /\ Ids # {} => server # "constructed"
      /\ Ids # {} /\ server = "gone" => Used /\ ending = numThreads + 1
  BY <1>1, <1>2 DEF Lifetime
<1>6. server = "gone" => \A c \in Ids : \A l \in Loops \ {0} : place[l] = "dead"
  BY <1>1, <1>2, <1>5 DEF Used
<1>7. server # "gone" /\ place[0] # "outside" => Early
  BY <1>1 DEF Lifetime, Early, ServerPlaces
<1> QED BY <1>2, <1>3, <1>4, <1>5, <1>6, <1>7

(* A connection that can still close has a server to tell.                  *)
LEMMA NoLateClose ==
  ASSUME ServerInv, server = "gone", NEW c \in Ids
  PROVE  ~CanClose(c)
<1> SUFFICES ASSUME CanClose(c) PROVE FALSE
  OBVIOUS
<1> DEFINE h == conns[c].loop
<1>1. Alive(h) /\ conns[c].state = "kConnected" /\ h \in Loops
  BY TypeFacts DEF CanClose, ServerInv
<1>2. h = 0
  BY <1>1, AliveFacts DEF Alive
<1>3. c \notin connections
  BY DEF ServerInv, Lifetime
<1>4. /\ In(D(c), Todo(h)) => conns[c].state = "kDisconnected"
      /\ In(D(c), Todo(h)) \/ conns[c].ended = 1
      /\ conns[c].ended = 1 => conns[c].state = "kDisconnected"
  BY <1>1, <1>2, <1>3 DEF ServerInv, Custody, Keeper, KeeperOf
<1> QED BY <1>1, <1>4

(* The acceptor works between start() and the destructor only.              *)
LEMMA AcceptStarted ==
  ASSUME ServerInv, Accept
  PROVE  server = "started"
BY DEF ServerInv, Typed, Lifetime, Accept, ServerPlaces

(* removeConnectionInLoop runs on the main loop of a server that accepts.   *)
LEMMA RemoveStarted ==
  ASSUME ServerInv, NEW l \in Loops, RunFunctor(l), NEW c \in Ids,
         batch[l][done[l] + 1] = R(c), server # "gone"
  PROVE  l = 0 /\ server = "started"
<1>1. Typed /\ Threads /\ Placed
  BY DEF ServerInv
<1>2. /\ place[l] = "functors" /\ done[l] \in Nat /\ done[l] < Len(batch[l])
      /\ batch[l] \in Seq(Functors)
  BY <1>1, RunCases, TypeFacts
<1>3. done[l] + 1 \in 1 .. Len(batch[l])
  BY <1>2
<1>4. l = LoopOf(batch[l][done[l] + 1], conns)
  BY <1>1, <1>3 DEF Placed, OnLoop
<1>5. l = 0
  BY <1>4 DEF LoopOf, R
<1> QED BY <1>2, <1>5, AliveFacts DEF Early

(* What (next_ + 1) % size does at the end of the pool and before.          *)
LEMMA ModFacts ==
  ASSUME NEW n \in Nat, n > 0
  PROVE  n % n = 0 /\ \A a \in 0 .. n - 1 : a % n = a
OBVIOUS

(* Every step keeps the place of next_ behind the last connection           *)
(* (EventLoopThreadPool.cpp:37-44).                                         *)
LEMMA TurnStep ==
  ASSUME ServerInv, [Next]_vars
  PROVE  Turn'
<1>0. Typed /\ Threads /\ Turn
  BY DEF ServerInv
<1>1. ASSUME ~Accept PROVE Turn'
  <2>1. Unmoved /\ Ids' = Ids
    BY <1>0, <1>1, UnmovedSteps, SameTypes
  <2>2. next_' = next_
    BY <1>1, Zenon DEF Next, vars, serverVars, loopVars, ServerStep, Start, Destroy, DestroyConnection,
       DestroyMembers, QuitThread, JoinThread, HandleClose, EnterLoop, LoopStep, Poll,
       SwapFunctors, RunFunctor, EndFunctors, LeaveLoop, QuitMain, DestroyMain
  <2> QED BY <1>0, <2>1, <2>2 DEF Unmoved, Turn
<1>2. ASSUME Accept PROVE Turn'
  <2> DEFINE n == Len(conns) + 1
             h == NextLoop
  <2>1. /\ Ids' = Ids \cup {n} /\ numThreads' = numThreads /\ Len(conns') = n
        /\ \A c \in Ids : conns'[c] = conns[c]
        /\ conns'[n].loop = h /\ n \in Nat /\ Len(conns) \in Nat /\ Ids \subseteq Nat
        /\ next_' = IF numThreads = 0 THEN next_ ELSE (next_ % numThreads) + 1
        /\ n = Len(conns) + 1 /\ h = IF numThreads = 0 THEN 0 ELSE next_
        /\ numThreads \in Nat /\ next_ \in Nat /\ next_ >= 1
    BY <1>0, <1>2, AcceptFacts, TypeFacts, SMTT(60) DEF NextLoop, Typed
  <2>2. \A c \in Ids : conns[c].loop \in Nat
    BY <1>0, TypeFacts
  <2> HIDE DEF n, h
  <2>3. CASE numThreads = 0
    BY <1>0, <2>1, <2>3 DEF Turn
  <2>4. CASE numThreads # 0
    <3>1. next_ <= numThreads /\ h = next_
      BY <1>0, <2>1, <2>4 DEF Turn
    <3>2. \/ next_ < numThreads /\ next_' = next_ + 1
          \/ next_ = numThreads /\ next_' = 1
      BY <2>1, <2>4, <3>1, ModFacts
    <3>0. /\ Len(conns') = Len(conns) + 1 /\ Len(conns) \in Nat
          /\ numThreads \in Nat /\ next_ \in Nat
      BY <2>1
    <3>3. ASSUME NEW c \in Ids
          PROVE  /\ conns'[c].loop # 0
                 /\ \E k \in Int : Len(conns') + 1 - c = numThreads * k + next_' - conns'[c].loop
      <4>1. PICK k \in Int : Len(conns) + 1 - c = numThreads * k + next_ - conns[c].loop
        BY <1>0, <2>4 DEF Turn
      <4>2. numThreads * (k + 1) = numThreads * k + numThreads /\ k + 1 \in Int
            /\ numThreads * k \in Int
        BY <2>1
      <4>3. conns'[c].loop = conns[c].loop /\ conns[c].loop # 0 /\ conns[c].loop \in Nat /\ c \in Nat
        BY <1>0, <2>1, <2>2, <2>4 DEF Turn
      <4> DEFINE z == numThreads * k
      <4>4. z \in Int /\ Len(conns) + 1 - c = z + next_ - conns[c].loop
        BY <4>1, <4>2
      <4> HIDE DEF z
      <4>5. CASE next_ < numThreads
        <5>1. Len(conns') + 1 - c = z + next_' - conns'[c].loop
          BY <3>2, <3>0, <4>3, <4>4, <4>5, SMTT(60)
        <5> QED BY <4>3, <5>1 DEF z
      <4>6. CASE next_ = numThreads
        <5>1. Len(conns') + 1 - c = (z + numThreads) + next_' - conns'[c].loop
          <6>1. next_' = 1
            BY <3>2, <3>0, <4>6
          <6>2. Len(conns) + 2 - c = (z + numThreads) + 1 - conns[c].loop
            BY <3>0, <4>3, <4>4, <4>6, SMTT(60)
          <6>3. Len(conns') + 1 - c = Len(conns) + 2 - c
            BY <3>0, <4>3
          <6> QED BY <4>3, <6>1, <6>2, <6>3
        <5>2. Len(conns') + 1 - c = numThreads * (k + 1) + next_' - conns'[c].loop
          BY <4>2, <5>1 DEF z
        <5> QED BY <4>2, <4>3, <5>2
      <4> QED BY <3>2, <4>5, <4>6
    <3>4. /\ conns'[n].loop # 0
          /\ \E k \in Int : Len(conns') + 1 - n = numThreads * k + next_' - conns'[n].loop
      <4>1. /\ Len(conns') + 1 - n = 1 /\ conns'[n].loop = next_ /\ next_ # 0
            /\ numThreads * 0 = 0 /\ numThreads * 1 = numThreads
        BY <2>1, <3>1
      <4>2. CASE next_ < numThreads
        <5>1. 1 = 0 + next_' - next_
          BY <2>1, <3>2, <4>2
        <5> QED BY <4>1, <5>1
      <4>3. CASE next_ = numThreads
        <5>1. 1 = numThreads + next_' - next_
          BY <2>1, <3>2, <4>3
        <5> QED BY <4>1, <5>1
      <4> QED BY <3>2, <4>2, <4>3
    <3>5. next_' <= numThreads
      BY <2>1, <2>4, <3>2
    <3> QED BY <2>1, <2>4, <3>3, <3>4, <3>5 DEF Turn
  <2> QED BY <2>3, <2>4
<1> QED BY <1>1, <1>2

(* A loop holds a batch only while it runs one, and nothing is queued on a  *)
(* loop that is not alive.                                                  *)
LEMMA ThreadsStep ==
  ASSUME ServerInv, [Next]_vars
  PROVE  Threads'
<1>0. Typed /\ Threads /\ Lifetime /\ Turn /\ 0 \in Loops
  BY TypeFacts DEF ServerInv
<1>1. Loops' = Loops
  <2>1. numThreads' = numThreads
    BY <1>0, UnmovedSteps, AcceptFacts DEF Unmoved
  <2> QED BY <2>1 DEF Loops
<1> DEFINE Ok(l) == /\ done'[l] <= Len(batch'[l])
                    /\ place'[l] # "functors" => batch'[l] = <<>> /\ done'[l] = 0
                    /\ place'[l] \in {"none", "dead"} => pending'[l] = <<>>
<1>2. SUFFICES \A l \in Loops : Ok(l)
  BY <1>1 DEF Threads, Alive
<1>3. \A l \in Loops : /\ done[l] <= Len(batch[l])
                       /\ place[l] # "functors" => batch[l] = <<>> /\ done[l] = 0
                       /\ place[l] \in {"none", "dead"} => pending[l] = <<>>
  BY <1>0 DEF Threads, Alive
<1>4. ASSUME UNCHANGED <<place, batch, done>>,
             \A l \in Loops : pending'[l] = pending[l] \/ Alive(l)
      PROVE  \A l \in Loops : Ok(l)
  BY <1>3, <1>4 DEF Alive
<1>5. CASE UNCHANGED vars
  BY <1>4, <1>5 DEF vars, loopVars
<1>6. ASSUME NEW inMain \in BOOLEAN, Start(inMain) PROVE \A l \in Loops : Ok(l)
  <2>1. /\ UNCHANGED <<batch, done>> /\ place' = PoolStarted
        /\ pending' = pending \/ Queue(0, <<"listen", 0>>)
        /\ server = "constructed"
    BY <1>6 DEF Start
  <2>2. \A l \in Loops : l # 0 => pending'[l] = pending[l] /\ place[l] = "none"
    BY <1>0, <2>1, TypeFacts, QueueFacts DEF Lifetime, Unused
  <2>3. \A l \in Loops : place'[l] = IF l = 0 THEN place[0] ELSE "outside"
    BY <2>1 DEF PoolStarted
  <2>4. place[0] \notin {"none", "dead"}
    BY <1>0, <2>1 DEF Lifetime
  <2> QED BY <1>3, <2>1, <2>2, <2>3, <2>4
<1>7. CASE Accept
  <2> DEFINE n == Len(conns) + 1
             h == NextLoop
  <2>1. /\ \A l \in Loops :
             pending'[l] = IF l = h /\ h # 0 THEN Append(pending[l], E(n)) ELSE pending[l]
        /\ UNCHANGED <<place, batch, done>>
    BY <1>0, <1>7, AcceptFacts
  <2>2. \A l \in Loops : Alive(l)
    BY <1>7, AliveFacts, AcceptStarted
  <2> QED BY <1>4, <2>1, <2>2
<1>8. CASE Destroy \/ DestroyMembers \/ QuitThread \/ JoinThread
  BY <1>4, <1>8 DEF Destroy, DestroyMembers, QuitThread, JoinThread, loopVars
<1>9. ASSUME NEW c \in connections, DestroyConnection(c) PROVE \A l \in Loops : Ok(l)
  <2>1. c \in Ids /\ server = "destroying" /\ conns[c].loop \in Loops
    BY <1>0, <1>9, TypeFacts DEF DestroyConnection, Typed
  <2>2. Alive(conns[c].loop)
    BY <2>1, AliveFacts
  <2>3. UNCHANGED <<place, batch, done>>
        /\ \A l \in Loops : l # conns[c].loop => pending'[l] = pending[l]
    BY <1>0, <1>9 DEF DestroyConnection, Home, Typed
  <2> QED BY <1>4, <2>2, <2>3
<1>10. ASSUME NEW c \in Ids, HandleClose(c) PROVE \A l \in Loops : Ok(l)
  <2>1. /\ UNCHANGED <<place, batch, done>> /\ conns[c].loop \in Loops /\ Alive(conns[c].loop)
        /\ \A l \in Loops : l # 0 => pending'[l] = pending[l]
    <3>1. D(c) \in Functors /\ R(c) \in Functors
      BY <1>0, TypeFacts
    <3>2. /\ UNCHANGED <<place, batch, done>> /\ Alive(conns[c].loop)
          /\ Queue(0, D(c)) \/ Queue(0, R(c))
      BY <1>10 DEF HandleClose, CanClose, RemoveConnectionInLoop, Home, D, R
    <3> QED BY <1>0, <3>1, <3>2, TypeFacts, QueueFacts
  <2>2. server # "gone"
    BY <1>10, NoLateClose DEF HandleClose
  <2>3. Alive(0)
    BY <2>2, AliveFacts
  <2> QED BY <1>4, <2>1, <2>3
<1>11. ASSUME NEW l \in Loops, EnterLoop(l) \/ LoopStep(l) PROVE \A k \in Loops : Ok(k)
  <2>0. done[l] \in Nat /\ batch[l] \in Seq(Functors) /\ pending[l] \in Seq(Functors)
    BY <1>0 DEF Typed
  <2>1. CASE EnterLoop(l)
    BY <1>0, <1>3, <2>1 DEF EnterLoop, Go, Typed
  <2>2. CASE Poll(l)
    BY <1>0, <1>3, <2>2 DEF Poll, Go, Typed
  <2>3. CASE SwapFunctors(l)
    <3>1. /\ place[l] = "events" /\ place' = [place EXCEPT ![l] = "functors"]
          /\ batch' = [batch EXCEPT ![l] = pending[l]]
          /\ pending' = [pending EXCEPT ![l] = <<>>] /\ done' = done
      BY <2>3 DEF SwapFunctors, Go
    <3>2. done[l] = 0 /\ Len(pending[l]) \in Nat
      BY <1>3, <2>0, <3>1
    <3> QED BY <1>0, <1>3, <3>1, <3>2 DEF Typed
  <2>4. CASE RunFunctor(l)
    <3>0. Len(batch[l]) \in Nat
      BY <2>0
    <3>1. /\ place[l] = "functors" /\ done[l] < Len(batch[l])
          /\ done' = [done EXCEPT ![l] = done[l] + 1] /\ UNCHANGED <<place, batch>>
      BY <1>0, <2>4, RunCases
    <3>2. \A k \in Loops : pending'[k] = pending[k] \/ Alive(k)
      <4>1. ASSUME NEW c \in Ids, batch[l][done[l] + 1] = R(c), server # "gone",
                   RemoveConnectionInLoop(c)
            PROVE  \A k \in Loops : pending'[k] = pending[k] \/ Alive(k)
        <5>1. Alive(conns[c].loop) /\ conns[c].loop \in Loops /\ D(c) \in Functors
          BY <1>0, <2>4, <4>1, RemoveStarted, AliveFacts, TypeFacts
        <5>2. Queue(conns[c].loop, D(c))
          BY <4>1 DEF RemoveConnectionInLoop, Home, D
        <5> QED BY <1>0, <5>1, <5>2, QueueFacts
      <4>2. \/ pending' = pending
            \/ \E c \in Ids : /\ batch[l][done[l] + 1] = R(c) /\ server # "gone"
                              /\ RemoveConnectionInLoop(c)
        BY <1>0, <2>4, RunCases
      <4> QED BY <4>1, <4>2
    <3>3. ASSUME NEW k \in Loops PROVE Ok(k)
      <4>1. CASE k = l
        BY <1>0, <1>3, <2>0, <3>0, <3>1, <4>1 DEF Typed
      <4>2. CASE k # l
        BY <1>0, <1>3, <3>1, <3>2, <4>2 DEF Typed, Alive
      <4> QED BY <4>1, <4>2
    <3> QED BY <3>3
  <2>5. CASE EndFunctors(l)
    BY <1>0, <1>3, <2>5 DEF EndFunctors, Go, Typed
  <2>6. CASE LeaveLoop(l)
    BY <1>0, <1>3, <2>6 DEF LeaveLoop, Discard, Go, Typed
  <2> QED BY <1>11, <2>1, <2>2, <2>3, <2>4, <2>5, <2>6 DEF LoopStep
<1>12. CASE QuitMain
  BY <1>4, <1>12 DEF QuitMain
<1>13. CASE DestroyMain
  BY <1>0, <1>3, <1>13 DEF DestroyMain, Discard, Go, Typed
<1> QED BY <1>5, <1>6, <1>7, <1>8, <1>9, <1>10, <1>11, <1>12, <1>13 DEF Next, ServerStep

(* An empty queue is for any loop.                                          *)
LEMMA OnLoopEmpty == \A l, cs : OnLoop(l, <<>>, cs)
BY DEF OnLoop

(* A queue keeps its loop when connections are made.                        *)
LEMMA OnLoopKept ==
  ASSUME Typed, NEW l, NEW q \in Seq(Functors), OnLoop(l, q, conns),
         NEW cs, \A c \in Ids : cs[c].loop = conns[c].loop
  PROVE  OnLoop(l, q, cs)
<1> SUFFICES ASSUME NEW i \in 1 .. Len(q) PROVE l = LoopOf(q[i], cs)
  BY DEF OnLoop
<1>1. q[i] \in Functors /\ l = LoopOf(q[i], conns)
  BY DEF OnLoop
<1>2. q[i][1] \in {"established", "destroyed"} => q[i][2] \in Ids
  BY <1>1 DEF Functors
<1> QED BY <1>1, <1>2 DEF LoopOf

(* A queue keeps its loop when a functor for that loop is added.            *)
LEMMA OnLoopAppend ==
  ASSUME NEW S, NEW q \in Seq(S), NEW x \in S, NEW l, NEW cs,
         OnLoop(l, q, cs), LoopOf(x, cs) = l
  PROVE  OnLoop(l, Append(q, x), cs)
<1> DEFINE r == Append(q, x)
<1>1. \A i \in 1 .. Len(r) : r[i] = x \/ (i \in 1 .. Len(q) /\ r[i] = q[i])
  OBVIOUS
<1> HIDE DEF r
<1>2. OnLoop(l, r, cs)
  BY <1>1 DEF OnLoop
<1> QED BY <1>2 DEF r

(* Every functor is queued on the loop it is for                            *)
(* (TcpServer.cpp:42,88,91,97).                                             *)
LEMMA PlacedStep ==
  ASSUME ServerInv, [Next]_vars
  PROVE  Placed'
<1>0. Typed /\ Threads /\ Placed /\ Turn /\ 0 \in Loops /\ \A c \in Ids : conns[c].loop \in Loops
  BY TypeFacts DEF ServerInv
<1>1. Loops' = Loops /\ \A c \in Ids : conns'[c].loop = conns[c].loop
  <2>1. numThreads' = numThreads /\ \A c \in Ids : conns'[c].loop = conns[c].loop
    BY <1>0, UnmovedSteps, AcceptFacts DEF Unmoved
  <2> QED BY <2>1 DEF Loops
<1> DEFINE Pend(l) == \/ pending'[l] \in {pending[l], <<>>}
                      \/ \E f : /\ pending'[l] = Append(pending[l], f) /\ LoopOf(f, conns') = l
                                /\ pending[l] \in Seq(Functors \cup {f})
           Bat(l) == batch'[l] \in {batch[l], pending[l], <<>>}
<1>2. SUFFICES \A l \in Loops : Pend(l) /\ Bat(l)
  <2> SUFFICES ASSUME NEW l \in Loops
               PROVE  OnLoop(l, pending'[l], conns') /\ OnLoop(l, batch'[l], conns')
    BY <1>1 DEF Placed
  <2>1. /\ OnLoop(l, pending[l], conns) /\ OnLoop(l, batch[l], conns)
        /\ pending[l] \in Seq(Functors) /\ batch[l] \in Seq(Functors)
    BY <1>0 DEF Placed, Typed
  <2>2. OnLoop(l, pending[l], conns') /\ OnLoop(l, batch[l], conns')
    BY <1>0, <1>1, <2>1, OnLoopKept
  <2>3. OnLoop(l, batch'[l], conns')
    BY <1>2, <2>2, OnLoopEmpty
  <2>4. CASE pending'[l] \in {pending[l], <<>>}
    BY <2>2, <2>3, <2>4, OnLoopEmpty
  <2>5. ASSUME NEW f, pending'[l] = Append(pending[l], f), LoopOf(f, conns') = l,
               pending[l] \in Seq(Functors \cup {f})
        PROVE  OnLoop(l, pending'[l], conns')
    <3>1. f \in Functors \cup {f}
      OBVIOUS
    <3>2. OnLoop(l, Append(pending[l], f), conns')
      BY <2>2, <2>5, <3>1, OnLoopAppend
    <3> QED BY <2>5, <3>2
  <2> QED BY <1>2, <2>3, <2>4, <2>5
<1> HIDE DEF Bat
<1>3. \A l \in Loops : \A f : pending[l] \in Seq(Functors \cup {f})
  BY <1>0, SeqMonotone DEF Typed
<1>4. ASSUME batch' = batch PROVE \A l \in Loops : Bat(l)
  BY <1>4 DEF Bat
<1>5. ASSUME pending' = pending PROVE \A l \in Loops : Pend(l)
  BY <1>5
<1>6. ASSUME NEW k \in Loops, NEW f, LoopOf(f, conns') = k,
             \A l \in Loops : pending'[l] = IF l = k THEN Append(pending[l], f) ELSE pending[l]
      PROVE  \A l \in Loops : Pend(l)
  BY <1>3, <1>6
<1>7. ASSUME NEW c \in Ids
      PROVE  LoopOf(D(c), conns') = conns[c].loop /\ LoopOf(R(c), conns') = 0
             /\ LoopOf(<<"listen", 0>>, conns') = 0
  BY <1>1 DEF LoopOf, D, R
<1>8. ASSUME NEW k \in Loops, NEW f \in Functors, Queue(k, f)
      PROVE  \A l \in Loops : pending'[l] = IF l = k THEN Append(pending[l], f) ELSE pending[l]
  BY <1>0, <1>8, QueueFacts
<1> HIDE DEF Pend
<1>9. \A c \in Ids : D(c) \in Functors /\ R(c) \in Functors
  BY <1>0, TypeFacts
<1>10. CASE UNCHANGED vars
  BY <1>4, <1>5, <1>10 DEF vars, loopVars
<1>11. ASSUME NEW inMain \in BOOLEAN, Start(inMain) PROVE \A l \in Loops : Pend(l) /\ Bat(l)
  <2>1. LoopOf(<<"listen", 0>>, conns') = 0 /\ <<"listen", 0>> \in Functors
    BY DEF LoopOf, Functors
  <2>2. batch' = batch /\ (pending' = pending \/ Queue(0, <<"listen", 0>>))
    BY <1>11 DEF Start
  <2> QED BY <1>0, <1>4, <1>5, <1>6, <1>8, <2>1, <2>2
<1>12. CASE Accept
  <2> DEFINE n == Len(conns) + 1
             h == NextLoop
  <2>1. /\ \A l \in Loops :
             pending'[l] = IF l = h /\ h # 0 THEN Append(pending[l], E(n)) ELSE pending[l]
        /\ batch' = batch /\ h \in Loops /\ conns'[n].loop = h
    BY <1>0, <1>12, AcceptFacts
  <2> HIDE DEF n, h
  <2>2. LoopOf(E(n), conns') = h
    BY <2>1 DEF LoopOf, E
  <2>3. CASE h = 0
    BY <1>4, <2>1, <2>3 DEF Pend
  <2>4. CASE h # 0
    BY <1>4, <1>6, <2>1, <2>2, <2>4
  <2> QED BY <2>3, <2>4
<1>13. CASE Destroy \/ DestroyMembers \/ QuitThread \/ JoinThread
  BY <1>4, <1>5, <1>13 DEF Destroy, DestroyMembers, QuitThread, JoinThread, loopVars
<1>14. ASSUME NEW c \in connections, DestroyConnection(c)
       PROVE  \A l \in Loops : Pend(l) /\ Bat(l)
  <2>1. c \in Ids /\ batch' = batch
    BY <1>0, <1>14 DEF DestroyConnection, Typed
  <2> DEFINE h == conns[c].loop
  <2>2. \/ pending' = pending
        \/ pending' = [pending EXCEPT ![h] = pending[h] \o <<D(c)>>]
    BY <1>14 DEF DestroyConnection, Home, LastFunctors, D
  <2>3. pending[h] \o <<D(c)>> = Append(pending[h], D(c))
    <3>1. pending[h] \in Seq(Functors) /\ D(c) \in Functors
      BY <1>0, <1>9, <2>1 DEF Typed
    <3> QED BY <3>1, AppendIsConcat
  <2>4. ASSUME pending' = [pending EXCEPT ![h] = pending[h] \o <<D(c)>>]
        PROVE  \A l \in Loops : pending'[l] = IF l = h THEN Append(pending[l], D(c)) ELSE pending[l]
    BY <1>0, <2>1, <2>3, <2>4 DEF Typed
  <2> QED BY <1>0, <1>4, <1>5, <1>6, <1>7, <2>1, <2>2, <2>4
<1>15. ASSUME NEW c \in Ids, HandleClose(c) PROVE \A l \in Loops : Pend(l) /\ Bat(l)
  <2>1. batch' = batch
        /\ \/ conns[c].loop = 0 /\ Queue(0, D(c))
           \/ Queue(0, R(c))
    BY <1>15 DEF HandleClose, RemoveConnectionInLoop, Home, D, R
  <2>2. D(c) \in Functors /\ R(c) \in Functors /\ LoopOf(R(c), conns') = 0
        /\ LoopOf(D(c), conns') = conns[c].loop
    BY <1>7, <1>9
  <2> QED BY <1>0, <1>4, <1>6, <1>8, <2>1, <2>2
<1>16. ASSUME NEW l \in Loops, EnterLoop(l) \/ LoopStep(l)
       PROVE  \A k \in Loops : Pend(k) /\ Bat(k)
  <2>1. CASE RunFunctor(l)
    <3>1. batch' = batch
      BY <1>0, <2>1, RunCases
    <3>2. ASSUME NEW c \in Ids, RemoveConnectionInLoop(c) PROVE \A k \in Loops : Pend(k)
      <4>1. Queue(conns[c].loop, D(c)) /\ D(c) \in Functors /\ conns[c].loop \in Loops
            /\ LoopOf(D(c), conns') = conns[c].loop
        BY <1>0, <1>7, <1>9, <3>2 DEF RemoveConnectionInLoop, Home, D
      <4> QED BY <1>6, <1>8, <4>1
    <3>3. pending' = pending \/ \E c \in Ids : RemoveConnectionInLoop(c)
      BY <1>0, <2>1, RunCases
    <3> QED BY <1>4, <1>5, <3>1, <3>2, <3>3
  <2>2. CASE SwapFunctors(l)
    BY <1>0, <2>2 DEF SwapFunctors, Typed, Pend, Bat
  <2>3. CASE EndFunctors(l)
    BY <1>0, <2>3 DEF EndFunctors, Typed, Pend, Bat
  <2>4. CASE LeaveLoop(l)
    BY <1>0, <2>4 DEF LeaveLoop, Discard, Typed, Pend, Bat
  <2> QED BY <1>4, <1>5, <1>16, <2>1, <2>2, <2>3, <2>4 DEF EnterLoop, LoopStep, Poll
<1>17. CASE QuitMain \/ DestroyMain
  BY <1>0, <1>17 DEF QuitMain, DestroyMain, Discard, Typed, Pend, Bat
<1> QED BY <1>10, <1>11, <1>12, <1>13, <1>14, <1>15, <1>16, <1>17 DEF Next, ServerStep

(* The server, its pool and the main loop go through their lives in order:  *)
(* the pool's threads are quit and joined one after the other, and          *)
(* listening ends before the server does.                                   *)
LEMMA LifeStep ==
  ASSUME ServerInv, [Next]_vars
  PROVE  Lifetime'
<1>0. /\ Typed /\ Threads /\ Placed /\ Lifetime /\ Turn /\ 0 \in Loops /\ numThreads \in Nat
      /\ \A l \in Loops : l \in Nat /\ l <= numThreads
      /\ \A l \in Nat : l <= numThreads => l \in Loops
  BY TypeFacts DEF ServerInv, Loops
<1>1. Loops' = Loops /\ numThreads' = numThreads
  <2>1. numThreads' = numThreads
    BY <1>0, UnmovedSteps, AcceptFacts DEF Unmoved
  <2> QED BY <2>1 DEF Loops
<1>2. ~Accept /\ conns = <<>> => conns' = <<>>
  BY <1>0, UnmovedSteps DEF Unmoved
<1>3. server \in ServerPlaces /\ ending \in Nat /\ ending >= 1
  BY <1>0 DEF Typed
<1>4. CASE UNCHANGED vars
  BY <1>0, <1>1, <1>4 DEF vars, loopVars, serverVars, Lifetime, Early, Used, Unused, Alive
<1>5. ASSUME NEW inMain \in BOOLEAN, Start(inMain) PROVE Lifetime'
  <2>1. /\ server = "constructed" /\ server' = "started" /\ place' = PoolStarted
        /\ UNCHANGED <<quit, batch, ending, crashed>>
    BY <1>5 DEF Start
  <2>2. place'[0] = place[0] /\ \A l \in Loops : l # 0 => place'[l] = "outside"
    BY <1>0, <2>1 DEF PoolStarted
  <2>3. Used'
    BY <1>0, <1>1, <2>1, <2>2 DEF Lifetime, Early, Unused, Used, Alive
  <2> QED BY <1>0, <2>1, <2>2, <2>3 DEF Lifetime, Early
<1>6. CASE Accept
  <2>1. server = "started" /\ UNCHANGED <<server, place, quit, batch, ending, listening, crashed>>
    BY <1>6, AcceptStarted DEF Accept
  <2>2. Used'
    BY <1>0, <1>1, <2>1 DEF Lifetime, Used, Alive
  <2> QED BY <1>0, <2>1, <2>2 DEF Lifetime, Early
<1>7. CASE Destroy
  BY <1>0, <1>1, <1>2, <1>7 DEF Destroy, loopVars, Lifetime, Early, Used, Unused, Alive
<1>8. ASSUME NEW c \in connections, DestroyConnection(c) PROVE Lifetime'
  <2>1. ~Accept
    BY <1>8, AcceptStarted DEF DestroyConnection
  <2> QED BY <1>0, <1>1, <1>2, <1>8, <2>1 DEF DestroyConnection, Lifetime, Early, Used, Unused, Alive
<1>9. CASE DestroyMembers
  <2>1. /\ server = "destroying" /\ connections = {} /\ server' = AfterThread(1)
        /\ listening' = (listening /\ server' # "gone") /\ ending = 1
        /\ UNCHANGED <<place, quit, pending, batch, ending, connections, conns, crashed>>
    BY <1>0, <1>9 DEF DestroyMembers, ServerGo, AcceptorDies, loopVars, Lifetime
  <2>2. Used \/ (Unused /\ conns = <<>>)
    BY <1>0, <2>1 DEF Lifetime
  <2>3. CASE server' = "quit"
    <3>1. Started /\ 1 <= numThreads
      BY <2>1, <2>3 DEF AfterThread
    <3>2. Used
      BY <2>2, <3>1 DEF Started, Unused
    <3>3. Used'
      BY <1>1, <2>1, <2>3, <3>2 DEF Used, Alive
    <3> QED BY <1>0, <1>1, <2>1, <2>3, <3>1, <3>3 DEF Lifetime, Early
  <2>4. CASE server' = "gone"
    <3>1. ~Started \/ ~(1 <= numThreads)
      BY <2>1, <2>4 DEF AfterThread
    <3>2. Used => numThreads = 0
      <4>1. SUFFICES ASSUME Used, 1 <= numThreads PROVE FALSE
        BY <1>0
      <4>2. 1 \in Loops \ {0}
        BY <1>0, <4>1
      <4> QED BY <3>1, <4>1, <4>2 DEF Used, Started
    <3>3. (Used /\ numThreads = 0)' \/ (Unused /\ conns = <<>>)'
      BY <1>1, <2>1, <2>2, <2>4, <3>2 DEF Used, Unused, Alive
    <3>4. ending' = numThreads' + 1 \/ (Unused /\ conns = <<>>)'
      BY <1>1, <2>1, <3>3
    <3> HIDE DEF Started
    <3>5. (server' = "constructed" => FALSE) /\ ~Early' /\ server' # "destroying"
      BY <2>4 DEF Early
    <3> QED BY <1>0, <2>1, <2>4, <3>3, <3>4, <3>5 DEF Lifetime
  <2> QED BY <2>1, <2>3, <2>4 DEF AfterThread
<1>10. CASE QuitThread
  <2>1. Used
    BY <1>0, <1>10 DEF QuitThread, ServerGo, Lifetime
  <2>2. Used'
    BY <1>0, <1>1, <1>3, <1>10, <2>1 DEF QuitThread, ServerGo, Used, Alive, Typed
  <2> QED BY <1>0, <1>1, <1>10, <2>2 DEF QuitThread, ServerGo, Lifetime, Early
<1>11. CASE JoinThread
  <2>1. /\ server = "join" /\ server' = AfterThread(ending + 1) /\ place[ending] = "dead"
        /\ listening' = (listening /\ server' # "gone") /\ ending' = ending + 1
        /\ UNCHANGED <<place, quit, pending, batch, connections, conns, crashed>>
    BY <1>11 DEF JoinThread, ServerGo, MayJoin, AcceptorDies, loopVars
  <2>2. Used /\ ending <= numThreads /\ connections = {}
    BY <1>0, <2>1 DEF Lifetime
  <2>3. \A l \in Loops \ {0} : /\ place[l] # "none"
                               /\ l < ending + 1 => place[l] = "dead"
                               /\ l >= ending + 1 => Alive(l) /\ ~quit[l]
    BY <1>0, <1>3, <2>1, <2>2 DEF Used
  <2>4. Used'
    BY <1>0, <1>1, <1>3, <2>1, <2>3 DEF Used, Alive
  <2>5. server' \in {"quit", "gone"} /\ (server' = "quit" <=> ending + 1 <= numThreads)
    <3>1. Started
      <4>1. ending \in Loops \ {0}
        BY <1>0, <1>3, <2>2
      <4> QED BY <2>1, <4>1 DEF Started
    <3> QED BY <2>1, <3>1 DEF AfterThread
  <2>6. server' = "gone" => ending' = numThreads + 1
    BY <1>0, <1>3, <2>1, <2>2, <2>5
  <2> QED BY <1>0, <1>1, <2>1, <2>2, <2>4, <2>5, <2>6 DEF Lifetime, Early
<1>12. ASSUME NEW c \in Ids, HandleClose(c) PROVE Lifetime'
  <2>1. server \notin {"constructed", "gone"} /\ conns # <<>>
    <3>1. conns # <<>>
      BY DEF Ids
    <3> QED BY <1>12, <3>1, NoLateClose, AliveFacts DEF HandleClose
  <2>2. /\ ~crashed' /\ connections' \subseteq connections /\ Len(conns') = Len(conns)
        /\ UNCHANGED <<server, place, quit, batch, ending, listening>>
    BY <1>0, <1>12, <2>1 DEF HandleClose, RemoveConnectionInLoop, Erased, Typed
  <2>3. Used'
    BY <1>0, <1>1, <2>1, <2>2 DEF Lifetime, Used, Alive
  <2> QED BY <1>0, <1>1, <2>1, <2>2, <2>3 DEF Lifetime, Early
<1>13. ASSUME NEW l \in Loops, EnterLoop(l) \/ LoopStep(l) PROVE Lifetime'
  <2>0. /\ ~crashed /\ Alive(l) /\ (l # 0 => Used)
        /\ UNCHANGED <<server, ending>>
    <3>1. ~crashed /\ Alive(l) /\ UNCHANGED <<server, ending>>
      BY <1>13 DEF EnterLoop, LoopStep, Poll, SwapFunctors, RunFunctor, EndFunctors,
                   LeaveLoop, Go, Alive, serverVars
    <3> QED BY <1>0, <3>1 DEF Lifetime, Unused, Alive
  <2>1. CASE RunFunctor(l)
    <3> DEFINE f == batch[l][done[l] + 1]
    <3>1. /\ place[l] = "functors" /\ done[l] + 1 \in 1 .. Len(batch[l])
          /\ UNCHANGED <<place, quit, batch>> /\ connections' \subseteq connections
          /\ f \in Functors
          /\ conns = <<>> => conns' = <<>>
          /\ crashed' \/ listening' # listening => f[1] \in {"remove", "listen"}
          /\ listening' # listening => server # "gone"
      <4>1. /\ place[l] = "functors" /\ done[l] + 1 \in 1 .. Len(batch[l])
            /\ UNCHANGED <<place, quit, batch>> /\ f \in Functors
        <5>1. Len(batch[l]) \in Nat
          BY <1>0, TypeFacts
        <5>2. /\ place[l] = "functors" /\ done[l] \in Nat /\ done[l] < Len(batch[l])
              /\ UNCHANGED <<place, quit, batch>> /\ f \in Functors
          BY <1>0, <2>1, RunCases
        <5> HIDE DEF f
        <5> QED BY <5>1, <5>2
      <4>2. conns = <<>> => conns' = <<>>
        <5>1. conns = <<>> => Ids = {}
          BY DEF Ids
        <5> QED BY <1>0, <2>1, <5>1, RunCases
      <4>3. connections' \subseteq connections
        <5>1. connections' = connections \/ \E c \in Ids : RemoveConnectionInLoop(c)
          BY <1>0, <2>1, RunCases
        <5> QED BY <5>1 DEF RemoveConnectionInLoop, Erased
      <4>4. /\ crashed' \/ listening' # listening => f[1] \in {"remove", "listen"}
            /\ listening' # listening => server # "gone"
        BY <2>0, <2>1 DEF RunFunctor
      <4> QED BY <4>1, <4>2, <4>3, <4>4
    <3>2. f[1] \in {"remove", "listen"} => l = 0
      <4>1. l = LoopOf(f, conns)
        BY <1>0, <3>1 DEF Placed, OnLoop
      <4> QED BY <4>1 DEF LoopOf
    <3>3. crashed' => \E i \in 1 .. Len(batch'[0]) : batch'[0][i][1] \in {"remove", "listen"}
      BY <3>1, <3>2
    <3>4. server # "constructed"
      <4>1. batch[l] # <<>>
        BY <3>1
      <4> QED BY <1>0, <4>1 DEF Lifetime
    <3>5. listening' => server \notin {"constructed", "gone"}
      BY <1>0, <3>1, <3>4 DEF Lifetime
    <3>6. (Used <=> Used') /\ (Unused <=> Unused')
      BY <1>1, <2>0, <3>1 DEF Used, Unused, Alive
    <3> HIDE DEF f
    <3> QED BY <1>0, <1>1, <2>0, <3>1, <3>3, <3>4, <3>5, <3>6 DEF Lifetime, Early
  <2>2. ASSUME ~RunFunctor(l) PROVE Lifetime'
    <3>1. UNCHANGED <<crashed, listening, connections, conns>>
      BY <1>13, <2>2 DEF EnterLoop, LoopStep, Poll, SwapFunctors, EndFunctors, LeaveLoop, serverVars
    <3>2. Used => Used'
      <4>1. SUFFICES ASSUME Used PROVE Used'
        OBVIOUS
      <4>2. \A k \in Loops : k # l => place'[k] = place[k] /\ quit'[k] = quit[k]
        BY <1>0, <1>13, <2>2 DEF EnterLoop, LoopStep, Poll, SwapFunctors, EndFunctors, LeaveLoop,
                                 Go, Typed
      <4>3. l # 0 /\ (l > ending \/ (l = ending /\ server # "join")) => ~quit[l]
        BY <4>1 DEF Used
      <4>4. l # 0 => ~(l < ending)
        BY <2>0, <4>1 DEF Used, Alive
      <4>5. place'[l] # "none" /\ (~quit[l] => ~quit'[l] /\ place'[l] # "dead")
        BY <1>0, <1>13, <2>2 DEF EnterLoop, LoopStep, Poll, SwapFunctors, EndFunctors, LeaveLoop,
                                 Go, Typed
      <4> QED BY <1>1, <2>0, <4>1, <4>2, <4>3, <4>4, <4>5 DEF Used, Alive
    <3>3. Unused => l = 0 /\ Unused'
      <4>1. Unused => l = 0
        BY <2>0 DEF Unused, Alive
      <4>2. \A k \in Loops : k # l => place'[k] = place[k] /\ quit'[k] = quit[k]
        BY <1>0, <1>13, <2>2 DEF EnterLoop, LoopStep, Poll, SwapFunctors, EndFunctors, LeaveLoop,
                                 Go, Typed
      <4> QED BY <1>1, <4>1, <4>2 DEF Unused
    <3>4. server = "constructed" => \A k \in Loops : pending'[k] = <<>> /\ batch'[k] = <<>>
      BY <1>0, <1>13, <2>2 DEF Lifetime, EnterLoop, LoopStep, Poll, SwapFunctors, EndFunctors,
                               LeaveLoop, Discard, Go, Typed
    <3>5. /\ place'[0] # "none" /\ (server # "gone" => place'[0] # "dead")
          /\ server \in {"destroying", "quit", "join"} => place'[0] = "outside"
      BY <1>0, <1>13, <2>2 DEF Lifetime, EnterLoop, LoopStep, Poll, SwapFunctors, EndFunctors,
                               LeaveLoop, Go, Typed
    <3> QED BY <1>0, <1>1, <2>0, <3>1, <3>2, <3>3, <3>4, <3>5 DEF Lifetime, Early
  <2> QED BY <2>1, <2>2
<1>14. CASE QuitMain
  <2>1. /\ \A l \in Loops : l # 0 => quit'[l] = quit[l]
        /\ UNCHANGED <<place, pending, batch, server, ending, listening, connections, conns, crashed>>
    BY <1>0, <1>14 DEF QuitMain, Typed, serverVars
  <2>2. (Used <=> Used') /\ (Unused <=> Unused')
    BY <1>1, <2>1 DEF Used, Unused, Alive
  <2> QED BY <1>0, <1>1, <2>1, <2>2 DEF Lifetime, Early
<1>15. CASE DestroyMain
  <2>1. /\ server = "gone" /\ place'[0] = "dead" /\ ~crashed
        /\ \A l \in Loops : l # 0 => place'[l] = place[l]
        /\ UNCHANGED <<quit, batch, server, ending, listening, connections, conns, crashed>>
    BY <1>0, <1>15 DEF DestroyMain, Go, Typed, serverVars
  <2>2. (Used <=> Used') /\ (Unused <=> Unused')
    BY <1>1, <2>1 DEF Used, Unused, Alive
  <2> QED BY <1>0, <1>1, <2>1, <2>2 DEF Lifetime, Early
<1> QED BY <1>4, <1>5, <1>6, <1>7, <1>8, <1>9, <1>10, <1>11, <1>12, <1>13, <1>14, <1>15
    DEF Next, ServerStep

-----------------------------------------------------------------------------
(* Who is to destroy a connection, through every step.                      *)

(* A change of a queue that does not concern a connection.                  *)
LikeT(c, t, u) ==
  /\ In(E(c), u) <=> In(E(c), t)
  /\ In(D(c), u) <=> In(D(c), t)
  /\ Once(E(c), t) => Once(E(c), u)
  /\ Once(D(c), t) => Once(D(c), u)
  /\ Before(E(c), D(c), t) => Before(E(c), D(c), u)

LikeR(c, r, u) == (In(R(c), u) => In(R(c), r)) /\ (Once(R(c), r) => Once(R(c), u))

(* An unchanged queue, and for removals an emptied one, concerns nobody.    *)
LEMMA LikeSame ==
  ASSUME NEW c, NEW q
  PROVE  LikeT(c, q, q) /\ LikeR(c, q, q) /\ LikeR(c, q, <<>>)
BY EmptyFacts DEF LikeT, LikeR

(* Two changes that do not concern a connection are one.                    *)
LEMMA LikeTrans ==
  ASSUME NEW c, NEW q, NEW u, NEW v
  PROVE  /\ LikeT(c, q, u) /\ LikeT(c, u, v) => LikeT(c, q, v)
         /\ LikeR(c, q, u) /\ LikeR(c, u, v) => LikeR(c, q, v)
BY DEF LikeT, LikeR

(* Running another's functor does not concern a connection.                 *)
LEMMA LikeTail ==
  ASSUME NEW S, NEW q \in Seq(S), q # <<>>, NEW c
  PROVE  /\ Head(q) \notin {E(c), D(c)} => LikeT(c, q, Tail(q))
         /\ LikeR(c, q, Tail(q))
BY TailFacts DEF LikeT, LikeR

(* Queueing another's functor does not concern a connection.                *)
LEMMA LikeAppend ==
  ASSUME NEW S, NEW q \in Seq(S), NEW x \in S, NEW c
  PROVE  /\ x \notin {E(c), D(c)} => LikeT(c, q, Append(q, x))
         /\ x # R(c) => LikeR(c, q, Append(q, x))
BY AppendFacts, FunctorsDiffer DEF LikeT, LikeR

(* What a loop has to do, in the next state.                                *)
LEMMA TodoTyped ==
  ASSUME Typed, Threads, NEW l \in Loops
  PROVE  /\ Todo(l) \in Seq(Functors)
         /\ place[l] # "functors" => Todo(l) = pending[l]
<1>1. /\ pending[l] \in Seq(Functors) /\ batch[l] \in Seq(Functors)
      /\ Len(batch[l]) \in Nat /\ done[l] \in 0 .. Len(batch[l])
  BY DEF Typed, Threads
<1>2. place[l] # "functors" => done[l] = Len(batch[l])
  BY DEF Threads
<1> DEFINE b == batch[l]
           n == done[l]
           p == pending[l]
<1>3. b \in Seq(Functors) /\ p \in Seq(Functors) /\ n \in 0 .. Len(b)
  BY <1>1
<1> HIDE DEF b, n, p
<1>4. TodoOf(b, n, p) \in Seq(Functors) /\ (n = Len(b) => TodoOf(b, n, p) = p)
  BY <1>3, TodoFacts
<1> QED BY <1>2, <1>4 DEF Todo, b, n, p

(* What a loop has to do depends on its queues only.                        *)
LEMMA TodoSame ==
  ASSUME UNCHANGED <<pending, batch, done>>, NEW l
  PROVE  Todo(l)' = Todo(l)
BY DEF Todo

(* A queued functor is the last thing its loop has to do.                   *)
LEMMA TodoQueue ==
  ASSUME Typed, Threads, UNCHANGED <<batch, done>>,
         NEW k, NEW S, Functors \subseteq S, NEW x \in S, NEW l \in Loops,
         pending'[l] = IF l = k THEN Append(pending[l], x) ELSE pending[l]
  PROVE  Todo(l) \in Seq(S) /\ Todo(l)' = IF l = k THEN Append(Todo(l), x) ELSE Todo(l)
<1>1. /\ pending[l] \in Seq(S) /\ batch[l] \in Seq(S) /\ Len(batch[l]) \in Nat
      /\ done[l] \in 0 .. Len(batch[l])
  BY SeqMonotone DEF Typed, Threads
<1> DEFINE b == batch[l]
           n == done[l]
           p == pending[l]
<1>2. b \in Seq(S) /\ p \in Seq(S) /\ n \in 0 .. Len(b)
  BY <1>1
<1> HIDE DEF b, n, p
<1>3. TodoOf(b, n, p) \in Seq(S) /\ TodoOf(b, n, Append(p, x)) = Append(TodoOf(b, n, p), x)
  BY <1>2, TodoFacts, SMTT(60)
<1> QED BY <1>3 DEF Todo, b, n, p

(* Swapping the functors out and ending a batch change nothing of what      *)
(* there is to do.                                                          *)
LEMMA TodoSwap ==
  ASSUME Typed, Threads, NEW k \in Loops, SwapFunctors(k) \/ EndFunctors(k), NEW l \in Loops
  PROVE  Todo(l)' = Todo(l)
<1>1. /\ pending[l] \in Seq(Functors) /\ batch[l] \in Seq(Functors) /\ Len(batch[l]) \in Nat
      /\ done[l] \in 0 .. Len(batch[l])
      /\ place[l] # "functors" => done[l] = 0 /\ batch[l] = <<>>
  BY DEF Typed, Threads
<1>2. CASE l # k
  BY <1>2 DEF Todo, SwapFunctors, EndFunctors, Typed
<1>3. CASE l = k /\ SwapFunctors(k)
  <2>1. /\ place[l] = "events" /\ batch'[l] = pending[l] /\ pending'[l] = <<>> /\ done'[l] = 0
    <3>1. place[l] = "events"
      BY <1>3 DEF SwapFunctors, Go
    <3>2. /\ batch' = [batch EXCEPT ![l] = pending[l]] /\ pending' = [pending EXCEPT ![l] = <<>>]
          /\ done' = done
      BY <1>3 DEF SwapFunctors
    <3>3. done[l] = 0
      BY <1>1, <3>1
    <3> QED BY <3>1, <3>2, <3>3 DEF Typed
  <2>2. Todo(l) = pending[l]
    BY <2>1, TodoTyped
  <2> DEFINE p == pending[l]
  <2>3. SubSeq(p, 0 + 1, Len(p)) = p /\ p \o <<>> = p
    BY <1>1, SubSeqFull
  <2> QED BY <2>1, <2>2, <2>3 DEF Todo, TodoOf
<1>4. CASE l = k /\ EndFunctors(k)
  <2>1. /\ done[l] = Len(batch[l]) /\ batch'[l] = <<>> /\ done'[l] = 0 /\ pending'[l] = pending[l]
    BY <1>4 DEF EndFunctors, Typed
  <2>2. Todo(l) = pending[l]
    <3>1. TodoOf(batch[l], done[l], pending[l]) = pending[l]
      <4> DEFINE b == batch[l]
                 n == done[l]
                 p == pending[l]
      <4>1. b \in Seq(Functors) /\ p \in Seq(Functors) /\ n \in 0 .. Len(b) /\ n = Len(b)
        BY <1>1, <2>1
      <4> HIDE DEF b, n, p
      <4>2. TodoOf(b, n, p) = p
        BY <4>1, TodoFacts
      <4> QED BY <4>2 DEF b, n, p
    <3> QED BY <3>1 DEF Todo
  <2>3. TodoOf(<<>>, 0, pending[l]) = pending[l]
    <3> DEFINE e == <<>>
               n == 0
               p == pending[l]
    <3>1. e \in Seq(Functors) /\ p \in Seq(Functors) /\ n \in 0 .. Len(e) /\ n = Len(e)
      BY <1>1
    <3> HIDE DEF e, n, p
    <3>2. TodoOf(e, n, p) = p
      BY <3>1, TodoFacts
    <3> QED BY <3>2 DEF e, n, p
  <2> QED BY <2>1, <2>2, <2>3 DEF Todo
<1> QED BY <1>2, <1>3, <1>4

(* Running a functor takes the first of what there is to do.                *)
LEMMA TodoRun ==
  ASSUME Typed, Threads, NEW l \in Loops, RunFunctor(l), NEW k \in Loops, NEW x \in Functors,
         NEW u, u = IF k = l THEN Tail(Todo(k)) ELSE Todo(k)
  PROVE  /\ Todo(l) # <<>> /\ Head(Todo(l)) = batch[l][done[l] + 1]
         /\ u \in Seq(Functors)
         /\ pending'[k] = pending[k] => Todo(k)' = u
         /\ pending'[k] = Append(pending[k], x) => Todo(k)' = Append(u, x)
<1>1. /\ pending[l] \in Seq(Functors) /\ batch[l] \in Seq(Functors) /\ Len(batch[l]) \in Nat
      /\ pending[k] \in Seq(Functors) /\ batch[k] \in Seq(Functors) /\ Len(batch[k]) \in Nat
      /\ done[k] \in 0 .. Len(batch[k])
  BY DEF Typed, Threads
<1>2. /\ done[l] \in Nat /\ done[l] < Len(batch[l]) /\ batch' = batch
      /\ done' = [done EXCEPT ![l] = done[l] + 1]
  BY RunCases
<1>3. done[l] \in 0 .. Len(batch[l]) /\ done[l] + 1 \in 0 .. Len(batch[l])
  BY <1>1, <1>2
<1>4. /\ Todo(l) # <<>> /\ Head(Todo(l)) = batch[l][done[l] + 1]
      /\ Tail(Todo(l)) = TodoOf(batch[l], done[l] + 1, pending[l])
  <2> DEFINE b == batch[l]
             n == done[l]
             p == pending[l]
  <2>1. b \in Seq(Functors) /\ p \in Seq(Functors) /\ n \in 0 .. Len(b) /\ n < Len(b)
    BY <1>1, <1>2, <1>3
  <2> HIDE DEF b, n, p
  <2>2. /\ TodoOf(b, n, p) # <<>> /\ Head(TodoOf(b, n, p)) = b[n + 1]
        /\ Tail(TodoOf(b, n, p)) = TodoOf(b, n + 1, p)
    BY <2>1, TodoFacts
  <2> QED BY <2>2 DEF Todo, b, n, p
<1> DEFINE d == done'[k]
<1>5. d = (IF k = l THEN done[l] + 1 ELSE done[k]) /\ d \in 0 .. Len(batch[k])
  BY <1>1, <1>2, <1>3 DEF Typed
<1>6. u = TodoOf(batch[k], d, pending[k])
  BY <1>4, <1>5 DEF Todo
<1>7. Todo(k)' = TodoOf(batch[k], d, pending'[k])
  BY <1>2 DEF Todo
<1> HIDE DEF d
<1>8. /\ u \in Seq(Functors)
      /\ TodoOf(batch[k], d, Append(pending[k], x)) = Append(u, x)
  <2> DEFINE b == batch[k]
             p == pending[k]
  <2>1. b \in Seq(Functors) /\ p \in Seq(Functors) /\ d \in 0 .. Len(b)
    BY <1>1, <1>5
  <2> HIDE DEF b, p
  <2>2. /\ TodoOf(b, d, p) \in Seq(Functors)
        /\ TodoOf(b, d, Append(p, x)) = Append(TodoOf(b, d, p), x)
    BY <2>1, TodoFacts
  <2> QED BY <1>6, <2>2 DEF b, p
<1> QED BY <1>4, <1>6, <1>7, <1>8

(* What a loop has left to do once loop l has taken its next functor.       *)
Left(l, k) == IF k = l THEN Tail(Todo(k)) ELSE Todo(k)

(* A functor may queue another behind what is left.                         *)
LEMMA TodoGrows ==
  ASSUME Typed, Threads, NEW l \in Loops, RunFunctor(l), NEW k \in Loops, NEW x \in Functors,
         pending'[k] = Append(pending[k], x)
  PROVE  Todo(k)' = Append(Left(l, k), x)
<1> DEFINE u == Left(l, k)
           n == Append(u, x)
<1>1. u = IF k = l THEN Tail(Todo(k)) ELSE Todo(k)
  BY DEF Left
<1> HIDE DEF u
<1>2. pending'[k] = Append(pending[k], x) => Todo(k)' = n
  BY <1>1, TodoRun, SMTT(60)
<1> HIDE DEF n
<1>3. Todo(k)' = n
  BY <1>2
<1> QED BY <1>3 DEF n, u

(* The parts of Keeper in the next state.                                   *)
LEMMA KeeperNext ==
  ASSUME NEW c, NEW h, h = conns'[c].loop, NEW t, t = Todo(h)', NEW r, r = Todo(0)',
         KeeperOf(c, conns'[c], c \in connections', t, r, Early', Alive(h)', c \in dropped', Over')
  PROVE  Keeper(c)'
BY DEF Keeper, Todo, Early, Alive, Over

(* A connection that the step does not concern.                             *)
LEMMA Others ==
  ASSUME NEW c, Keeper(c), conns'[c] = conns[c],
         c \in connections' <=> c \in connections, c \in dropped' <=> c \in dropped,
         Early' => Early, Over => Over',
         NEW h, h = conns[c].loop, Alive(h)' <=> Alive(h),
         NEW t, t = Todo(h)', LikeT(c, Todo(h), t),
         NEW r, r = Todo(0)', LikeR(c, Todo(0), r)
  PROVE  Keeper(c)'
<1>1. KeeperOf(c, conns[c], c \in connections, Todo(h), Todo(0), Early, Alive(h),
               c \in dropped, Over)
  BY DEF Keeper
<1>2. KeeperOf(c, conns[c], c \in connections, t, r, Early', Alive(h), c \in dropped, Over')
  BY <1>1 DEF KeeperOf, LikeT, LikeR
<1>3. KeeperOf(c, conns'[c], c \in connections', t, r, Early', Alive(h)', c \in dropped', Over')
  BY <1>2 DEF KeeperOf
<1> QED BY <1>3, KeeperNext

(* The steps that leave the connections and what the loops have to do.      *)
LEMMA QuietKeeps ==
  ASSUME ServerInv, UNCHANGED <<connections, conns, dropped>>,
         \A l \in Loops : (Alive(l)' <=> Alive(l)) /\ Todo(l)' = Todo(l),
         Early' => Early, Over => Over'
  PROVE  \A c \in Ids : Keeper(c)'
<1> SUFFICES ASSUME NEW c \in Ids, NEW h, h = conns[c].loop PROVE Keeper(c)'
  OBVIOUS
<1>1. h \in Loops /\ 0 \in Loops /\ Keeper(c)
  BY TypeFacts DEF ServerInv, Custody
<1>3. LikeT(c, Todo(h), Todo(h)') /\ LikeR(c, Todo(0), Todo(0)')
  BY <1>1, LikeSame
<1> QED BY <1>1, <1>3, Others

(* A step that adds functors of one connection only.                        *)
LEMMA QueueKeeps ==
  ASSUME ServerInv, UNCHANGED <<place, server, dropped>>, NEW a \in Ids,
         NEW k \in Loops, NEW x, x \in {D(a), R(a)},
         \A l \in Loops : \/ Todo(l)' = Todo(l)
                          \/ Todo(l)' = Append(Todo(l), x),
         \A c \in Ids : c # a => /\ conns'[c] = conns[c]
                                 /\ c \in connections' <=> c \in connections
  PROVE  \A c \in Ids : c # a => Keeper(c)'
<1> SUFFICES ASSUME NEW c \in Ids, c # a, NEW h, h = conns[c].loop PROVE Keeper(c)'
  OBVIOUS
<1>1. /\ h \in Loops /\ 0 \in Loops /\ Keeper(c) /\ x \in Functors
      /\ \A l \in Loops : Todo(l) \in Seq(Functors)
  BY TypeFacts, TodoTyped DEF ServerInv, Custody
<1>3. x \notin {E(c), D(c), R(c)}
  BY FunctorsDiffer
<1>4. LikeT(c, Todo(h), Todo(h)') /\ LikeR(c, Todo(0), Todo(0)')
  BY <1>1, <1>3, LikeSame, LikeAppend
<1>5. (Alive(h)' <=> Alive(h)) /\ (Early' => Early) /\ (Over => Over')
  BY DEF Alive, Early, Over
<1> QED BY <1>1, <1>4, <1>5, Others

(* handleClose: the server keeps a connection of another loop until the     *)
(* removal has run, and gives one of the main loop up at once.              *)
LEMMA CloseKeeps ==
  ASSUME ServerInv, NEW a \in Ids, HandleClose(a)
  PROVE  \A c \in Ids : Keeper(c)'
<1> SUFFICES ASSUME NEW h, h = conns[a].loop PROVE \A c \in Ids : Keeper(c)'
  OBVIOUS
<1> DEFINE x == [conns[a] EXCEPT !.state = "kDisconnected"]
           f == IF h = 0 THEN D(a) ELSE R(a)
<1>1. /\ Typed /\ Threads /\ Keeper(a) /\ h \in Loops /\ 0 \in Loops /\ conns[a] \in Conns
      /\ conns \in Seq(Conns) /\ D(a) \in Functors /\ R(a) \in Functors
      /\ \A l \in Loops : Todo(l) \in Seq(Functors)
  BY TypeFacts, TodoTyped DEF ServerInv, Custody, Typed
<1>2. /\ conns' = [conns EXCEPT ![a] = x] /\ Queue(0, f)
      /\ connections' = IF h = 0 THEN connections \ {a} ELSE connections
      /\ UNCHANGED <<place, batch, done, server, dropped>>
      /\ Alive(h) /\ conns[a].state = "kConnected" /\ place[h] = "events" /\ server # "gone"
  BY NoLateClose DEF HandleClose, CanClose, RemoveConnectionInLoop, Erased, Home, D, R
<1>3. \A c \in Ids : conns'[c] = IF c = a THEN x ELSE conns[c]
  BY <1>1, <1>2 DEF Ids
<1>4. x.loop = h /\ x.ended = conns[a].ended /\ x.polled = conns[a].polled
      /\ x.state = "kDisconnected"
  BY <1>1 DEF Conns
<1>5. f \in Functors
  BY <1>1
<1> HIDE DEF x, f
<1>6. \A l \in Loops : Todo(l)' = IF l = 0 THEN Append(Todo(l), f) ELSE Todo(l)
  <2>1. \A l \in Loops : pending'[l] = IF l = 0 THEN Append(pending[l], f) ELSE pending[l]
    BY <1>1, <1>2, <1>5, QueueFacts
  <2> QED BY <1>1, <1>2, <1>5, <2>1, TodoQueue, ZenonT(60)
<1>7. \A c \in Ids : c # a => Keeper(c)'
  <2>1. f \in {D(a), R(a)}
    BY DEF f
  <2> QED BY <1>1, <1>2, <1>3, <1>6, <2>1, QueueKeeps
<1>8. Keeper(a)'
  <2>0. SUFFICES ASSUME NEW t, t = Todo(h), NEW r, r = Todo(0),
                         NEW u, u = Todo(h)', NEW v, v = Todo(0)'
                  PROVE  Keeper(a)'
    OBVIOUS
  <2>1. KeeperOf(a, conns[a], a \in connections, t, r, Early, Alive(h), a \in dropped, Over)
    BY <1>1, <2>0 DEF Keeper
  <2>2. t \in Seq(Functors) /\ r \in Seq(Functors) /\ (h = 0 => t = r)
        /\ v = Append(r, f) /\ u = IF h = 0 THEN v ELSE t
    BY <1>1, <1>6, <2>0
  <2>3. h = conns'[a].loop /\ conns'[a] = x
    BY <1>3, <1>4
  <2>4. /\ Early' <=> Early
        /\ Alive(h)' <=> Alive(h)
        /\ Over' <=> Over
        /\ a \in dropped' <=> a \in dropped
    BY <1>2 DEF Early, Alive, Over
  <2>5. KeeperOf(a, x, a \in connections', u, v, Early, Alive(h), a \in dropped, Over)
    <3>1. /\ ~In(R(a), r) /\ ~In(E(a), t) /\ conns[a].ended = 0
          /\ h = 0 => ~In(D(a), t)
      <4>1. h = 0 => Early
        BY <1>2, AliveFacts
      <4> QED BY <1>2, <2>1, <4>1 DEF KeeperOf
    <3>2. CASE h = 0
      <4>1. f = D(a) /\ u = v /\ v = Append(r, f) /\ r = t /\ f # R(a) /\ f # E(a) /\ E(a) # D(a)
        BY <2>2, <3>2, FunctorsDiffer DEF f
      <4>2. /\ In(R(a), v) <=> In(R(a), r)
            /\ In(E(a), v) <=> In(E(a), r)
            /\ In(D(a), v)
            /\ Once(E(a), r) => Once(E(a), v)
            /\ Once(R(a), r) => Once(R(a), v)
            /\ Once(D(a), r) => Once(D(a), v)
            /\ Before(E(a), D(a), r) => Before(E(a), D(a), v)
        BY <1>5, <2>2, <3>1, <3>2, <4>1, AppendFacts
      <4>3. Early /\ a \notin connections'
        BY <1>2, <3>2, AliveFacts
      <4> QED BY <1>2, <1>4, <2>1, <3>1, <4>1, <4>2, <4>3 DEF KeeperOf
    <3>3. CASE h # 0
      <4>1. f = R(a) /\ u = t /\ v = Append(r, f)
        BY <2>2, <3>3 DEF f
      <4>2. Once(R(a), v)
        <5>1. Once(R(a), r)
          BY <2>1 DEF KeeperOf
        <5> QED BY <1>5, <2>2, <3>1, <4>1, <5>1, AppendFacts
      <4>3. Early => a \in connections
        BY <1>2, <2>1 DEF KeeperOf
      <4> QED BY <1>2, <1>4, <2>1, <3>1, <3>3, <4>1, <4>2, <4>3 DEF KeeperOf
    <3> QED BY <3>2, <3>3
  <2>6. KeeperOf(a, conns'[a], a \in connections', u, v, Early', Alive(h)', a \in dropped', Over')
    BY <2>3, <2>4, <2>5 DEF KeeperOf
  <2> QED BY <2>0, <2>3, <2>6, KeeperNext
<1> QED BY <1>7, <1>8

(* What a functor does to the other connections.                            *)
LEMMA RunOthers ==
  ASSUME ServerInv, NEW l \in Loops, RunFunctor(l), NEW c \in Ids,
         batch[l][done[l] + 1] \notin {E(c), D(c)},
         conns'[c] = conns[c], c \in connections' <=> c \in connections,
         NEW x \in Functors, x \notin {E(c), D(c), R(c)},
         \A k \in Loops : \/ pending'[k] = pending[k]
                          \/ pending'[k] = Append(pending[k], x)
  PROVE  Keeper(c)'
<1> SUFFICES ASSUME NEW h, h = conns[c].loop PROVE Keeper(c)'
  OBVIOUS
<1>1. Typed /\ Threads /\ h \in Loops /\ 0 \in Loops /\ Keeper(c)
  BY TypeFacts DEF ServerInv, Custody
<1>2. ASSUME NEW k \in Loops
      PROVE  LikeT(c, Todo(k), Todo(k)') /\ LikeR(c, Todo(k), Todo(k)')
  <2>0. SUFFICES ASSUME NEW t, t = Todo(k), NEW u, u = IF k = l THEN Tail(t) ELSE t,
                        NEW v, v = Todo(k)'
                 PROVE  LikeT(c, t, v) /\ LikeR(c, t, v)
    OBVIOUS
  <2>1. /\ t \in Seq(Functors) /\ u \in Seq(Functors)
        /\ k = l => t # <<>> /\ Head(t) = batch[l][done[l] + 1]
        /\ v = u \/ v = Append(u, x)
    <3>1. /\ Todo(l) # <<>> /\ Head(Todo(l)) = batch[l][done[l] + 1] /\ u \in Seq(Functors)
          /\ pending'[k] = pending[k] => Todo(k)' = u
          /\ pending'[k] = Append(pending[k], x) => Todo(k)' = Append(u, x)
      <4>1. u = IF k = l THEN Tail(Todo(k)) ELSE Todo(k)
        BY <2>0
      <4>2. Todo(l) # <<>> /\ Head(Todo(l)) = batch[l][done[l] + 1]
        BY <1>1, TodoRun
      <4>3. u \in Seq(Functors)
        BY <1>1, <4>1, TodoRun
      <4>4. pending'[k] = pending[k] => Todo(k)' = u
        BY <1>1, <4>1, TodoRun
      <4>5. ASSUME pending'[k] = Append(pending[k], x) PROVE Todo(k)' = Append(u, x)
        <5>1. Typed /\ Threads
          BY <1>1
        <5>2. Todo(k)' = Append(Left(l, k), x)
          BY <4>5, <5>1, TodoGrows, Zenon
        <5>3. Left(l, k) = u
          BY <4>1 DEF Left
        <5> QED BY <5>2, <5>3, Zenon
      <4> QED BY <4>2, <4>3, <4>4, <4>5
    <3>2. t \in Seq(Functors)
      BY <1>1, <1>2, <2>0, TodoTyped
    <3> QED BY <2>0, <3>1, <3>2
  <2>2. LikeT(c, t, u) /\ LikeR(c, t, u)
    BY <2>0, <2>1, LikeTail, LikeSame
  <2>3. LikeT(c, u, v) /\ LikeR(c, u, v)
    BY <2>1, LikeAppend, LikeSame
  <2> QED BY <2>2, <2>3, LikeTrans
<1>3. (Alive(h)' <=> Alive(h)) /\ (Early' => Early) /\ (Over => Over')
      /\ (c \in dropped' <=> c \in dropped)
  BY DEF RunFunctor, Alive, Early, Over
<1> QED BY <1>1, <1>2, <1>3, Others

(* conneectEstableished.                                                    *)
LEMMA EstablishedKeeps ==
  ASSUME ServerInv, NEW l \in Loops, RunFunctor(l), NEW a \in Ids,
         batch[l][done[l] + 1] = E(a), UNCHANGED <<pending, connections>>,
         conns' = [conns EXCEPT ![a] = Established(conns[a])]
  PROVE  \A c \in Ids : Keeper(c)'
<1> DEFINE x == Established(conns[a])
<1>1. /\ Typed /\ Threads /\ Placed /\ Keeper(a) /\ 0 \in Loops /\ conns[a] \in Conns
      /\ conns \in Seq(Conns) /\ R(a) \in Functors
      /\ Todo(l) \in Seq(Functors) /\ Todo(0) \in Seq(Functors)
  BY TypeFacts, TodoTyped DEF ServerInv, Custody, Typed
<1>2. /\ UNCHANGED <<place, server, dropped>> /\ place[l] = "functors"
      /\ done[l] + 1 \in 1 .. Len(batch[l])
  <2>1. Len(batch[l]) \in Nat
    BY <1>1, TypeFacts
  <2>2. UNCHANGED <<place, server, dropped>> /\ place[l] = "functors"
        /\ done[l] \in Nat /\ done[l] < Len(batch[l])
    BY <1>1, RunCases
  <2> QED BY <2>1, <2>2
<1>3. l = conns[a].loop
  BY <1>1, <1>2 DEF Placed, OnLoop, LoopOf, E
<1>4. \A c \in Ids : conns'[c] = IF c = a THEN x ELSE conns[c]
  BY <1>1 DEF Ids
<1>5. /\ x.loop = l /\ x.state = "kConnected" /\ x.ended = conns[a].ended
      /\ conns[a].loop = l
  BY <1>1, <1>3 DEF Conns, Established
<1> HIDE DEF x
<1>6. ASSUME NEW c \in Ids, c # a PROVE Keeper(c)'
  <2>1. /\ batch[l][done[l] + 1] \notin {E(c), D(c)}
        /\ R(a) \notin {E(c), D(c), R(c)}
    BY <1>6, FunctorsDiffer
  <2> QED BY <1>1, <1>4, <1>6, <2>1, RunOthers
<1>7. Keeper(a)'
  <2>0. SUFFICES ASSUME NEW t, t = Todo(l), NEW r, r = Todo(0),
                        NEW u, u = Todo(l)', NEW v, v = Todo(0)'
                 PROVE  Keeper(a)'
    OBVIOUS
  <2>1. KeeperOf(a, conns[a], a \in connections, t, r, Early, Alive(l), a \in dropped, Over)
    BY <1>1, <1>3, <2>0 DEF Keeper
  <2>2. /\ t \in Seq(Functors) /\ t # <<>> /\ Head(t) = E(a) /\ u = Tail(t)
        /\ l # 0 => v = r
    BY <1>1, <2>0, TodoRun
  <2>3. /\ In(E(a), t) /\ ~In(E(a), u) /\ Once(E(a), u) /\ Once(D(a), u)
        /\ In(D(a), u) <=> In(D(a), t)
        /\ Before(E(a), D(a), u)
    <3>1. Once(E(a), t) /\ Once(D(a), t) /\ Before(E(a), D(a), t)
      BY <2>1 DEF KeeperOf
    <3> QED BY <2>2, <3>1, TailFacts, FunctorsDiffer
  <2>4. l # 0 /\ conns[a].state = "kConnecting"
    BY <1>5, <2>1, <2>3 DEF KeeperOf
  <2>5. KeeperOf(a, x, a \in connections, u, v, Early, Alive(l), a \in dropped, Over)
    BY <1>5, <2>1, <2>2, <2>3, <2>4 DEF KeeperOf
  <2>6. /\ Early' <=> Early
        /\ Alive(l)' <=> Alive(l)
        /\ Over' <=> Over
        /\ a \in dropped' <=> a \in dropped
        /\ l = conns'[a].loop /\ conns'[a] = x
    BY <1>2, <1>4, <1>5 DEF Early, Alive, Over
  <2>7. KeeperOf(a, conns'[a], a \in connections', u, v, Early', Alive(l)', a \in dropped', Over')
    BY <2>5, <2>6 DEF KeeperOf
  <2> QED BY <2>0, <2>6, <2>7, KeeperNext
<1> QED BY <1>6, <1>7

(* conneectDestroyed.                                                       *)
LEMMA DestroyedKeeps ==
  ASSUME ServerInv, NEW l \in Loops, RunFunctor(l), NEW a \in Ids,
         batch[l][done[l] + 1] = D(a), UNCHANGED <<pending, connections>>,
         conns' = [conns EXCEPT ![a] = Destroyed(conns[a])]
  PROVE  \A c \in Ids : Keeper(c)'
<1> DEFINE x == Destroyed(conns[a])
<1>1. /\ Typed /\ Threads /\ Placed /\ Keeper(a) /\ 0 \in Loops /\ conns[a] \in Conns
      /\ conns \in Seq(Conns) /\ R(a) \in Functors
      /\ Todo(l) \in Seq(Functors) /\ Todo(0) \in Seq(Functors)
  BY TypeFacts, TodoTyped DEF ServerInv, Custody, Typed
<1>2. /\ UNCHANGED <<place, server, dropped>> /\ place[l] = "functors"
      /\ done[l] + 1 \in 1 .. Len(batch[l])
  <2>1. Len(batch[l]) \in Nat
    BY <1>1, TypeFacts
  <2>2. UNCHANGED <<place, server, dropped>> /\ place[l] = "functors"
        /\ done[l] \in Nat /\ done[l] < Len(batch[l])
    BY <1>1, RunCases
  <2> QED BY <2>1, <2>2
<1>3. l = conns[a].loop /\ Alive(l)
  BY <1>1, <1>2 DEF Placed, OnLoop, LoopOf, D, Alive
<1>4. \A c \in Ids : conns'[c] = IF c = a THEN x ELSE conns[c]
  BY <1>1 DEF Ids
<1>5. /\ x.loop = l /\ x.ended = (IF conns[a].ended = 0 THEN 1 ELSE 2) /\ ~x.polled
      /\ x.state = (IF conns[a].state = "kConnected" THEN "kDisconnected" ELSE conns[a].state)
      /\ conns[a].state \in {"kConnecting", "kConnected", "kDisconnected"}
  BY <1>1, <1>3 DEF Conns, Destroyed, PolledAfterDestroyed
<1> HIDE DEF x
<1>6. ASSUME NEW c \in Ids, c # a PROVE Keeper(c)'
  <2>1. /\ batch[l][done[l] + 1] \notin {E(c), D(c)}
        /\ R(a) \notin {E(c), D(c), R(c)}
    BY <1>6, FunctorsDiffer
  <2> QED BY <1>1, <1>4, <1>6, <2>1, RunOthers
<1>7. Keeper(a)'
  <2>0. SUFFICES ASSUME NEW t, t = Todo(l), NEW r, r = Todo(0),
                        NEW u, u = Todo(l)', NEW v, v = Todo(0)'
                 PROVE  Keeper(a)'
    OBVIOUS
  <2>1. KeeperOf(a, conns[a], a \in connections, t, r, Early, Alive(l), a \in dropped, Over)
    BY <1>1, <1>3, <2>0 DEF Keeper
  <2>2. /\ t \in Seq(Functors) /\ t # <<>> /\ Head(t) = D(a) /\ u = Tail(t)
        /\ r \in Seq(Functors) /\ LikeR(a, r, v)
    <3>1. /\ t \in Seq(Functors) /\ t # <<>> /\ Head(t) = D(a) /\ u = Tail(t)
          /\ r \in Seq(Functors) /\ v = (IF l = 0 THEN Tail(r) ELSE r)
          /\ l = 0 => r # <<>>
      BY <1>1, <2>0, TodoRun
    <3> QED BY <3>1, LikeTail, LikeSame
  <2>3. /\ In(D(a), t) /\ ~In(E(a), t) /\ ~In(D(a), u) /\ ~In(E(a), u)
        /\ Once(E(a), u) /\ Once(D(a), u) /\ Before(E(a), D(a), u)
    <3>1. Once(E(a), t) /\ Once(D(a), t) /\ Before(E(a), D(a), t)
      BY <2>1 DEF KeeperOf
    <3> QED BY <2>2, <3>1, TailFacts, FunctorsDiffer
  <2>4. conns[a].ended = 0 /\ conns[a].state # "kConnecting"
    BY <1>3, <2>1, <2>3 DEF KeeperOf
  <2>5. KeeperOf(a, x, a \in connections, u, v, Early, Alive(l), a \in dropped, Over)
    BY <1>3, <1>5, <2>1, <2>2, <2>3, <2>4 DEF KeeperOf, LikeR
  <2>6. /\ Early' <=> Early
        /\ Alive(l)' <=> Alive(l)
        /\ Over' <=> Over
        /\ a \in dropped' <=> a \in dropped
        /\ l = conns'[a].loop /\ conns'[a] = x
    BY <1>2, <1>4, <1>5 DEF Early, Alive, Over
  <2>7. KeeperOf(a, conns'[a], a \in connections', u, v, Early', Alive(l)', a \in dropped', Over')
    BY <2>5, <2>6 DEF KeeperOf
  <2> QED BY <2>0, <2>6, <2>7, KeeperNext
<1> QED BY <1>6, <1>7

(* removeConnectionInLoop.                                                  *)
LEMMA RemovedKeeps ==
  ASSUME ServerInv, NEW l \in Loops, RunFunctor(l), NEW a \in Ids,
         batch[l][done[l] + 1] = R(a), server # "gone", RemoveConnectionInLoop(a), conns' = conns
  PROVE  \A c \in Ids : Keeper(c)'
<1> SUFFICES ASSUME NEW h, h = conns[a].loop PROVE \A c \in Ids : Keeper(c)'
  OBVIOUS
<1>1. /\ Typed /\ Threads /\ Keeper(a) /\ h \in Loops /\ 0 \in Loops
      /\ D(a) \in Functors /\ Todo(h) \in Seq(Functors) /\ Todo(0) \in Seq(Functors)
      /\ conns[a].ended \in {0, 1, 2}
  BY TypeFacts, TodoTyped DEF ServerInv, Custody, Conns
<1>2. l = 0 /\ server = "started" /\ UNCHANGED <<place, server, dropped>>
  BY RemoveStarted DEF RunFunctor
<1>3. Queue(h, D(a)) /\ connections' = connections \ {a}
  BY DEF RemoveConnectionInLoop, Erased, Home, D
<1>4. \A k \in Loops : pending'[k] = IF k = h THEN Append(pending[k], D(a)) ELSE pending[k]
  BY <1>1, <1>3, QueueFacts
<1>5. ASSUME NEW c \in Ids, c # a PROVE Keeper(c)'
  <2>1. /\ batch[l][done[l] + 1] \notin {E(c), D(c)}
        /\ D(a) \notin {E(c), D(c), R(c)}
    BY <1>5, FunctorsDiffer
  <2>2. c \in connections' <=> c \in connections
    BY <1>3, <1>5
  <2> QED BY <1>1, <1>4, <1>5, <2>1, <2>2, RunOthers
<1>6. Keeper(a)'
  <2>0. SUFFICES ASSUME NEW t, t = Todo(h), NEW r, r = Todo(0),
                        NEW u, u = Todo(h)', NEW v, v = Todo(0)'
                 PROVE  Keeper(a)'
    OBVIOUS
  <2>1. KeeperOf(a, conns[a], a \in connections, t, r, Early, Alive(h), a \in dropped, Over)
    BY <1>1, <2>0 DEF Keeper
  <2>2. /\ r \in Seq(Functors) /\ r # <<>> /\ Head(r) = R(a) /\ Tail(r) \in Seq(Functors)
        /\ t \in Seq(Functors)
    <3>1. Todo(0) # <<>> /\ Head(Todo(0)) = R(a)
      BY <1>1, <1>2, TodoRun
    <3> QED BY <1>1, <2>0, <3>1, TailFacts
  <2>3. In(R(a), r) /\ Once(R(a), r) /\ Once(E(a), t) /\ Once(D(a), t) /\ Before(E(a), D(a), t)
    <3>1. In(R(a), r)
      BY <2>2, TailFacts
    <3> QED BY <2>1, <3>1 DEF KeeperOf
  <2>4. /\ Early /\ a \in connections /\ conns[a].state = "kDisconnected" /\ conns[a].ended = 0
        /\ ~In(D(a), t) /\ ~In(E(a), t)
    <3>1. Early
      BY <1>2 DEF Early
    <3> QED BY <2>1, <2>3, <3>1 DEF KeeperOf
  <2>5. LET w == IF h = 0 THEN Tail(r) ELSE t
        IN  /\ u = Append(w, D(a)) /\ w \in Seq(Functors)
            /\ ~In(D(a), w) /\ ~In(E(a), w)
            /\ Once(E(a), w) /\ Once(D(a), w) /\ Before(E(a), D(a), w)
    <3>1. CASE h = 0
      <4>1. t = r /\ pending'[0] = Append(pending[0], D(a))
        BY <1>1, <1>4, <2>0, <3>1
      <4>2. Todo(0)' = Append(Tail(Todo(0)), D(a))
        <5>1. Left(l, 0) = Tail(Todo(0))
          BY <1>2 DEF Left
        <5>2. Todo(0)' = Append(Left(l, 0), D(a))
          BY <1>1, <4>1, TodoGrows, Zenon
        <5> QED BY <5>1, <5>2, Zenon
      <4>3. /\ ~In(D(a), Tail(r)) /\ ~In(E(a), Tail(r))
            /\ Once(E(a), Tail(r)) /\ Once(D(a), Tail(r)) /\ Before(E(a), D(a), Tail(r))
        BY <2>2, <2>3, <2>4, <4>1, TailFacts
      <4> QED BY <2>0, <2>2, <3>1, <4>2, <4>3
    <3>2. CASE h # 0
      <4>1. pending'[h] = Append(pending[h], D(a)) /\ h # l
        BY <1>1, <1>2, <1>4, <3>2
      <4>2. Todo(h)' = Append(Todo(h), D(a))
        <5>1. Left(l, h) = Todo(h)
          BY <4>1 DEF Left
        <5>2. Todo(h)' = Append(Left(l, h), D(a))
          BY <1>1, <4>1, TodoGrows, Zenon
        <5> QED BY <5>1, <5>2, Zenon
      <4> QED BY <2>0, <2>2, <2>3, <2>4, <3>2, <4>2
    <3> QED BY <3>1, <3>2
  <2>6. /\ In(D(a), u) /\ ~In(E(a), u)
        /\ Once(E(a), u) /\ Once(D(a), u) /\ Before(E(a), D(a), u)
    BY <1>1, <2>5, AppendFacts, FunctorsDiffer, ZenonT(60)
  <2>7. ~In(R(a), v) /\ Once(R(a), v)
    <3>1. ~In(R(a), Tail(r)) /\ Once(R(a), Tail(r))
      BY <2>2, <2>3, TailFacts
    <3>2. CASE h = 0
      <4>1. v = Append(Tail(r), D(a))
        BY <2>0, <2>5, <3>2
      <4> QED BY <1>1, <2>2, <3>1, <4>1, AppendFacts, FunctorsDiffer
    <3>3. CASE h # 0
      <4>1. Todo(0)' = Tail(Todo(0))
        <5>1. pending'[0] = pending[0]
          BY <1>1, <1>4, <3>3
        <5> DEFINE w == Tail(Todo(0))
        <5>2. w = IF 0 = l THEN Tail(Todo(0)) ELSE Todo(0)
          BY <1>2
        <5> HIDE DEF w
        <5>3. Todo(0)' = w
          BY <1>1, <5>1, <5>2, TodoRun
        <5> QED BY <5>3 DEF w
      <4> QED BY <2>0, <3>1, <4>1
    <3> QED BY <3>2, <3>3
  <2>8. KeeperOf(a, conns[a], a \in connections', u, v, Early, Alive(h), a \in dropped, Over)
    BY <1>3, <2>1, <2>4, <2>6, <2>7 DEF KeeperOf
  <2>9. /\ Early' <=> Early
        /\ Alive(h)' <=> Alive(h)
        /\ Over' <=> Over
        /\ a \in dropped' <=> a \in dropped
        /\ h = conns'[a].loop /\ conns'[a] = conns[a]
    BY <1>2 DEF Early, Alive, Over
  <2>10. KeeperOf(a, conns'[a], a \in connections', u, v, Early', Alive(h)', a \in dropped', Over')
    BY <2>8, <2>9 DEF KeeperOf
  <2> QED BY <2>0, <2>9, <2>10, KeeperNext
<1> QED BY <1>5, <1>6

(* Any functor.                                                             *)
LEMMA RunKeeps ==
  ASSUME ServerInv, NEW l \in Loops, RunFunctor(l)
  PROVE  \A c \in Ids : Keeper(c)'
<1> DEFINE f == batch[l][done[l] + 1]
<1>1. Typed /\ Threads
  BY DEF ServerInv
<1>2. ASSUME f[1] \in {"remove", "listen"}, UNCHANGED <<pending, conns, connections>>
      PROVE  \A c \in Ids : Keeper(c)'
  <2>1. /\ \A c : f \notin {E(c), D(c)}
        /\ <<"listen", 0>> \in Functors
        /\ \A c : <<"listen", 0>> \notin {E(c), D(c), R(c)}
    BY <1>2, FunctorsDiffer DEF E, D, Functors
  <2> QED BY <1>2, <2>1, RunOthers
<1>3. <<"listen", 0>>[1] = "listen"
  OBVIOUS
<1> QED BY <1>1, <1>2, <1>3, RunCases, EstablishedKeeps, DestroyedKeeps, RemovedKeeps

(* ~TcpServer, for one connection.                                          *)
LEMMA DestroyKeeps ==
  ASSUME ServerInv, NEW a \in connections, DestroyConnection(a)
  PROVE  \A c \in Ids : Keeper(c)'
<1> SUFFICES ASSUME NEW h, h = conns[a].loop PROVE \A c \in Ids : Keeper(c)'
  OBVIOUS
<1> DEFINE x == Destroyed(conns[a])
<1>1. /\ Typed /\ Threads /\ a \in Ids /\ Keeper(a) /\ h \in Loops /\ 0 \in Loops
      /\ conns \in Seq(Conns) /\ conns[a] \in Conns /\ D(a) \in Functors
      /\ \A l \in Loops : Todo(l) \in Seq(Functors) /\ pending[l] \in Seq(Functors)
  BY TypeFacts, TodoTyped DEF ServerInv, Custody, Typed
<1>2. /\ server = "destroying" /\ UNCHANGED <<place, batch, done, server, dropped>>
      /\ connections' = connections \ {a} /\ Alive(h)
  BY <1>1, AliveFacts DEF DestroyConnection
<1>3. /\ h = 0 => conns' = [conns EXCEPT ![a] = x] /\ pending' = pending
      /\ h # 0 => conns' = conns /\ pending' = [pending EXCEPT ![h] = Append(pending[h], D(a))]
  <2>1. pending[h] \o <<D(a)>> = Append(pending[h], D(a))
    BY <1>1, AppendIsConcat
  <2> QED BY <2>1 DEF DestroyConnection, Home, LastFunctors, D
<1>4. \A l \in Loops :
        pending'[l] = IF l = h /\ h # 0 THEN Append(pending[l], D(a)) ELSE pending[l]
  BY <1>1, <1>3 DEF Typed
<1>5. /\ x.loop = h /\ x.ended = (IF conns[a].ended = 0 THEN 1 ELSE 2) /\ ~x.polled
      /\ x.state = (IF conns[a].state = "kConnected" THEN "kDisconnected" ELSE conns[a].state)
      /\ conns[a].state \in {"kConnecting", "kConnected", "kDisconnected"}
  BY <1>1 DEF Conns, Destroyed, PolledAfterDestroyed
<1> HIDE DEF x
<1>6. \A c \in Ids : conns'[c] = IF c = a /\ h = 0 THEN x ELSE conns[c]
  BY <1>1, <1>3 DEF Ids
<1>7. ASSUME NEW l \in Loops
      PROVE  Todo(l)' = IF l = h /\ h # 0 THEN Append(Todo(l), D(a)) ELSE Todo(l)
  <2>1. CASE h = 0
    BY <1>2, <1>3, <2>1, TodoSame
  <2>2. CASE h # 0
    BY <1>1, <1>2, <1>4, <2>2, TodoQueue, ZenonT(60)
  <2> QED BY <2>1, <2>2
<1>8. \A c \in Ids : c # a => Keeper(c)'
  <2>1. \A c \in Ids : c # a => /\ conns'[c] = conns[c]
                                /\ c \in connections' <=> c \in connections
    BY <1>2, <1>6
  <2> QED BY <1>1, <1>2, <1>7, <2>1, QueueKeeps
<1>9. Keeper(a)'
  <2>0. SUFFICES ASSUME NEW t, t = Todo(h), NEW r, r = Todo(0),
                        NEW u, u = Todo(h)', NEW v, v = Todo(0)'
                 PROVE  Keeper(a)'
    OBVIOUS
  <2>1. KeeperOf(a, conns[a], a \in connections, t, r, Early, Alive(h), a \in dropped, Over)
    BY <1>1, <2>0 DEF Keeper
  <2>2. ~Early /\ conns[a].ended = 0 /\ ~In(D(a), t) /\ t \in Seq(Functors)
        /\ Once(E(a), t) /\ Once(D(a), t) /\ Before(E(a), D(a), t)
    <3>1. ~Early
      BY <1>2 DEF Early
    <3> QED BY <1>1, <2>0, <2>1, <3>1 DEF KeeperOf
  <2>3. v = r
    BY <1>1, <1>7, <2>0
  <2>4. KeeperOf(a, conns'[a], a \in connections', u, v, Early, Alive(h), a \in dropped, Over)
    <3>1. CASE h = 0
      <4>1. u = t /\ conns'[a] = x /\ conns[a].loop = 0
        BY <1>1, <1>6, <1>7, <2>0, <3>1
      <4> QED BY <1>2, <1>5, <2>1, <2>2, <2>3, <3>1, <4>1 DEF KeeperOf
    <3>2. CASE h # 0
      <4>1. u = Append(t, D(a)) /\ conns'[a] = conns[a] /\ conns[a].loop # 0
        BY <1>1, <1>6, <1>7, <2>0, <3>2
      <4>2. /\ In(D(a), u) /\ (In(E(a), u) <=> In(E(a), t))
            /\ Once(E(a), u) /\ Once(D(a), u) /\ Before(E(a), D(a), u)
        BY <1>1, <2>2, <4>1, AppendFacts, FunctorsDiffer
      <4> QED BY <1>2, <2>1, <2>2, <2>3, <3>2, <4>1, <4>2 DEF KeeperOf
    <3> QED BY <3>1, <3>2
  <2>5. /\ Early' <=> Early
        /\ Alive(h)' <=> Alive(h)
        /\ Over' <=> Over
        /\ a \in dropped' <=> a \in dropped
        /\ h = conns'[a].loop
    BY <1>1, <1>2, <1>5, <1>6 DEF Early, Alive, Over
  <2>6. KeeperOf(a, conns'[a], a \in connections', u, v, Early', Alive(h)', a \in dropped', Over')
    BY <2>4, <2>5 DEF KeeperOf
  <2> QED BY <2>0, <2>5, <2>6, KeeperNext
<1> QED BY <1>8, <1>9

(* A loop dies with its functors, and its connections with it.              *)
LEMMA DeathKeeps ==
  ASSUME ServerInv, NEW l \in Loops, Discard(l), Alive(l), place[l] # "functors",
         place' = [place EXCEPT ![l] = "dead"], Over, l = 0 => server = "gone",
         UNCHANGED <<batch, done, server, connections, conns>>
  PROVE  \A c \in Ids : Keeper(c)'
<1>1. /\ Typed /\ Threads /\ Placed /\ 0 \in Loops /\ ~Early /\ connections = {}
      /\ \A k \in Loops : Todo(k) \in Seq(Functors) /\ pending[k] \in Seq(Functors)
      /\ Todo(l) = pending[l] /\ batch[l] = <<>> /\ done[l] = 0
  <2>1. Typed /\ Threads /\ Placed /\ ~Early /\ connections = {}
    BY DEF ServerInv, Lifetime, Over, Early
  <2>2. batch[l] = <<>> /\ done[l] = 0
    BY <2>1 DEF Threads
  <2> QED BY <2>1, <2>2, TypeFacts, TodoTyped
<1>2. \A k \in Loops : k # l => Todo(k)' = Todo(k)
  BY <1>1 DEF Discard, Todo, Typed
<1>3. Todo(l)' = <<>>
  <2>1. pending'[l] = <<>> /\ batch'[l] = <<>> /\ done'[l] = 0
    BY <1>1 DEF Discard, Typed
  <2>2. SubSeq(<<>>, 1, 0) = <<>> /\ <<>> \o <<>> = <<>>
    OBVIOUS
  <2> QED BY <2>1, <2>2 DEF Todo, TodoOf
<1>4. ASSUME NEW c \in Ids PROVE Keeper(c)'
  <2>0. SUFFICES ASSUME NEW h, h = conns[c].loop, NEW t, t = Todo(h), NEW r, r = Todo(0),
                        NEW u, u = Todo(h)', NEW v, v = Todo(0)'
                 PROVE  Keeper(c)'
    OBVIOUS
  <2>1. KeeperOf(c, conns[c], FALSE, t, r, FALSE, Alive(h), c \in dropped, TRUE)
    <3>1. KeeperOf(c, conns[c], c \in connections, t, r, Early, Alive(h), c \in dropped, Over)
      BY <1>4, <2>0 DEF ServerInv, Custody, Keeper
    <3> QED BY <1>1, <3>1 DEF KeeperOf
  <2>2. h \in Loops
    BY <1>1, <1>4, <2>0, TypeFacts
  <2>3. LikeR(c, r, v)
    BY <1>1, <1>2, <1>3, <2>0, LikeSame
  <2>4. KeeperOf(c, conns[c], FALSE, u, v, FALSE, Alive(h)', c \in dropped', TRUE)
    <3>1. (c \in dropped' <=> c \in dropped \/ Holds(l, c)) /\ (h # l => (Alive(h)' <=> Alive(h)))
          /\ (h = l => Alive(h) /\ ~Alive(h)')
      BY <1>1, <1>4, <2>2 DEF Discard, Alive, Typed
    <3>2. CASE h = l
      <4>1. In(E(c), t) \/ In(D(c), t) => Holds(l, c)
        <5>1. t = pending[l] /\ E(c)[2] = c /\ D(c)[2] = c
          BY <1>1, <2>0, <3>2 DEF E, D
        <5> QED BY <5>1 DEF In, Holds
      <4>2. u = <<>>
        BY <1>3, <2>0, <3>2
      <4>3. ~In(E(c), u) /\ ~In(D(c), u) /\ Once(E(c), u) /\ Once(D(c), u) /\ Before(E(c), D(c), u)
        BY <4>2, EmptyFacts
      <4>4. /\ Alive(h) /\ ~Alive(h)'
            /\ In(E(c), t) \/ In(D(c), t) => c \in dropped'
            /\ c \in dropped => c \in dropped'
        BY <3>1, <3>2, <4>1
      <4> QED BY <2>1, <2>3, <4>3, <4>4 DEF KeeperOf, LikeR
    <3>3. CASE h # l
      <4>1. u = t
        BY <1>2, <2>0, <2>2, <3>3
      <4>2. c \in dropped' => c \in dropped \/ ~Alive(h)
        <5>1. CASE l = 0
          <6>1. place[h] = "dead"
            BY <1>4, <2>2, <3>3, <5>1, AliveFacts
          <6> QED BY <6>1 DEF Alive
        <5>2. CASE l # 0
          <6>1. ASSUME Holds(l, c) PROVE FALSE
            <7>1. PICK i \in 1 .. Len(pending[l]) : pending[l][i][2] = c
              BY <1>1, <6>1 DEF Holds
            <7>2. l = LoopOf(pending[l][i], conns)
              BY <1>1, <7>1 DEF Placed, OnLoop
            <7>3. l = conns[c].loop
              BY <5>2, <7>1, <7>2 DEF LoopOf
            <7> QED BY <2>0, <3>3, <7>3
          <6> QED BY <3>1, <6>1
        <5> QED BY <5>1, <5>2
      <4>3. (Alive(h)' <=> Alive(h)) /\ (c \in dropped => c \in dropped')
        BY <3>1, <3>3
      <4> QED BY <2>1, <2>3, <4>1, <4>2, <4>3 DEF KeeperOf, LikeR
    <3> QED BY <3>2, <3>3
  <2>5. KeeperOf(c, conns'[c], c \in connections', u, v, Early', Alive(h)', c \in dropped', Over')
    <3>1. /\ Early' <=> FALSE
          /\ Over' <=> TRUE
          /\ c \in connections' <=> FALSE
          /\ conns'[c] = conns[c]
      BY <1>1 DEF Early, Over
    <3> QED BY <2>4, <3>1 DEF KeeperOf
  <2>6. h = conns'[c].loop
    BY <2>0
  <2> QED BY <2>0, <2>5, <2>6, KeeperNext
<1> QED BY <1>4

(* A new connection.                                                        *)
LEMMA AcceptKeeps ==
  ASSUME ServerInv, Accept
  PROVE  \A c \in Ids' : Keeper(c)'
<1> SUFFICES ASSUME NEW n, n = Len(conns) + 1, NEW k, k = NextLoop
             PROVE  \A c \in Ids' : Keeper(c)'
  OBVIOUS
<1>1. /\ Typed /\ Threads /\ Turn /\ server = "started" /\ 0 \in Loops
      /\ \A l \in Loops : Alive(l) /\ Todo(l) \in Seq(Functors)
  BY AcceptStarted, AliveFacts, TypeFacts, TodoTyped DEF ServerInv
<1>2. /\ k \in Loops /\ n \notin Ids /\ Ids' = Ids \cup {n}
      /\ Functors \subseteq Functors'
      /\ \A c \in Ids : conns'[c] = conns[c]
      /\ conns'[n] = IF k = 0 THEN Established(NewConn(0)) ELSE NewConn(k)
      /\ conns'[n].loop = k
      /\ connections' = connections \cup {n}
      /\ \A l \in Loops :
           pending'[l] = IF l = k /\ k # 0 THEN Append(pending[l], E(n)) ELSE pending[l]
      /\ UNCHANGED <<place, quit, batch, done, server, ending, listening, dropped, crashed>>
  BY <1>1, AcceptFacts
<1>3. E(n) \in Functors'
  BY <1>2 DEF E, Functors
<1>4. ASSUME NEW l \in Loops
      PROVE  /\ Todo(l) \in Seq(Functors')
             /\ Todo(l)' = IF l = k /\ k # 0 THEN Append(Todo(l), E(n)) ELSE Todo(l)
  <2> DEFINE S == Functors'
  <2>1. Functors \subseteq S /\ E(n) \in S
    BY <1>2, <1>3
  <2> HIDE DEF S
  <2>2. Todo(l) \in Seq(S)
    BY <1>1, <2>1, SeqMonotone
  <2>3. CASE l = k /\ k # 0
    <3>1. pending'[l] = IF l = k THEN Append(pending[l], E(n)) ELSE pending[l]
      BY <1>2, <2>3
    <3> QED BY <1>1, <1>2, <2>1, <2>2, <2>3, <3>1, TodoQueue DEF S
  <2>4. CASE ~(l = k /\ k # 0)
    <3>1. pending'[l] = pending[l] /\ batch' = batch /\ done' = done
      BY <1>2, <2>4
    <3>2. Todo(l)' = Todo(l)
      BY <3>1 DEF Todo
    <3> QED BY <2>2, <2>4, <3>2 DEF S
  <2> QED BY <2>3, <2>4
<1>5. (Early' <=> TRUE) /\ (Early <=> TRUE) /\ (Over' <=> Over) /\ \A l \in Loops : Alive(l)'
  BY <1>1, <1>2 DEF Early, Over, Alive
<1>6. ASSUME NEW c \in Ids PROVE Keeper(c)'
  <2>0. SUFFICES ASSUME NEW h, h = conns[c].loop PROVE Keeper(c)'
    OBVIOUS
  <2>1. h \in Loops /\ Keeper(c) /\ c # n
    BY <1>1, <1>2, <1>6, <2>0, TypeFacts DEF ServerInv, Custody
  <2>2. E(n) \notin {E(c), D(c), R(c)}
    BY <2>1, FunctorsDiffer
  <2>3. LikeT(c, Todo(h), Todo(h)') /\ LikeR(c, Todo(0), Todo(0)')
    <3>1. ASSUME NEW l \in Loops
          PROVE  LikeT(c, Todo(l), Todo(l)') /\ LikeR(c, Todo(l), Todo(l)')
      <4> DEFINE S == Functors'
      <4>1. Todo(l) \in Seq(S) /\ E(n) \in S
        BY <1>3, <1>4, <3>1
      <4> HIDE DEF S
      <4>2. Todo(l)' = Todo(l) \/ Todo(l)' = Append(Todo(l), E(n))
        BY <1>4, <3>1
      <4> QED BY <2>2, <4>1, <4>2, LikeSame, LikeAppend
    <3> QED BY <1>1, <2>1, <3>1
  <2>4. /\ conns'[c] = conns[c]
        /\ c \in connections' <=> c \in connections
        /\ c \in dropped' <=> c \in dropped
        /\ Alive(h)' <=> Alive(h)
        /\ Early' => Early
        /\ Over => Over'
    BY <1>1, <1>2, <1>5, <1>6, <2>1
  <2> QED BY <2>0, <2>1, <2>3, <2>4, Others
<1>7. Keeper(n)'
  <2>0. SUFFICES ASSUME NEW t, t = Todo(k), NEW r, r = Todo(0),
                        NEW u, u = Todo(k)', NEW v, v = Todo(0)'
                 PROVE  Keeper(n)'
    OBVIOUS
  <2>1. \A f \in Functors : f # E(n) /\ f # D(n) /\ f # R(n)
    BY <1>2 DEF Functors, E, D, R
  <2>2. \A l \in Loops : ~In(E(n), Todo(l)) /\ ~In(D(n), Todo(l)) /\ ~In(R(n), Todo(l))
    <3> SUFFICES ASSUME NEW l \in Loops
                 PROVE  ~In(E(n), Todo(l)) /\ ~In(D(n), Todo(l)) /\ ~In(R(n), Todo(l))
      OBVIOUS
    <3> DEFINE q == Todo(l)
    <3>1. q \in Seq(Functors)
      BY <1>1
    <3> HIDE DEF q
    <3>2. \A i \in 1 .. Len(q) : q[i] \in Functors
      BY <3>1
    <3>3. ~In(E(n), q) /\ ~In(D(n), q) /\ ~In(R(n), q)
      BY <2>1, <3>2 DEF In
    <3> QED BY <3>3 DEF q
  <2>3. ~In(E(n), t) /\ ~In(D(n), t) /\ ~In(R(n), r)
    BY <1>1, <1>2, <2>0, <2>2
  <2>4. /\ t \in Seq(Functors') /\ r \in Seq(Functors')
        /\ u = IF k # 0 THEN Append(t, E(n)) ELSE t
        /\ v = r
    BY <1>1, <1>2, <1>4, <2>0
  <2>5. /\ In(E(n), u) <=> k # 0
        /\ ~In(D(n), u) /\ ~In(R(n), v)
        /\ Once(E(n), u) /\ Once(D(n), u) /\ Once(R(n), v) /\ Before(E(n), D(n), u)
    <3>1. /\ Once(E(n), t) /\ Once(D(n), t) /\ Once(R(n), r) /\ Before(E(n), D(n), t)
      BY <2>3 DEF In, Once, Before
    <3>2. CASE k = 0
      BY <2>3, <2>4, <3>1, <3>2
    <3>3. CASE k # 0
      <4> DEFINE S == Functors'
      <4>1. t \in Seq(S) /\ E(n) \in S /\ u = Append(t, E(n)) /\ v = r
        BY <1>3, <2>4, <3>3
      <4> HIDE DEF S
      <4> QED BY <2>3, <3>1, <3>3, <4>1, AppendFacts, FunctorsDiffer
    <3> QED BY <3>2, <3>3
  <2>6. /\ conns'[n].ended = 0 /\ conns'[n].loop = k
        /\ conns'[n].state = IF k = 0 THEN "kConnected" ELSE "kConnecting"
    BY <1>2 DEF Established, NewConn
  <2>7. n \notin dropped' /\ n \in connections' /\ (Alive(k)' <=> TRUE)
    BY <1>1, <1>2, <1>5 DEF Typed
  <2>8. KeeperOf(n, conns'[n], TRUE, u, v, TRUE, TRUE, FALSE, Over')
    BY <2>5, <2>6 DEF KeeperOf
  <2>9. KeeperOf(n, conns'[n], n \in connections', u, v, Early', Alive(k)', n \in dropped', Over')
    BY <1>5, <2>7, <2>8 DEF KeeperOf
  <2> QED BY <1>2, <2>0, <2>9, KeeperNext
<1> QED BY <1>2, <1>6, <1>7

(* Every step keeps who is to destroy each connection.                      *)
LEMMA CustodyStep ==
  ASSUME ServerInv, [Next]_vars
  PROVE  Custody'
<1>0. Typed /\ Threads /\ Lifetime /\ Turn
  BY DEF ServerInv
<1>1. CASE Accept
  BY <1>1, AcceptKeeps DEF Custody
<1>2. CASE ~Accept
  <2>1. Ids' = Ids
    BY <1>0, <1>2, UnmovedSteps, SameTypes
  <2>2. SUFFICES \A c \in Ids : Keeper(c)'
    BY <2>1 DEF Custody
  <2> DEFINE Q == \A c \in Ids : Keeper(c)'
  <2>3. ASSUME UNCHANGED <<pending, batch, done, connections, conns, dropped>>,
               \A l \in Loops : Alive(l)' <=> Alive(l),
               server' = server \/ (server' = "destroying" /\ server # "gone" /\ Early)
                 \/ (server' \in {"quit", "join", "gone"})
        PROVE  Q
    <3>1. \A l \in Loops : Todo(l)' = Todo(l)
      BY <2>3, TodoSame
    <3>2. (Early' => Early) /\ (Over => Over')
      BY <2>3 DEF Early, Over
    <3> QED BY <2>3, <3>1, <3>2, QuietKeeps
  <2>4. CASE UNCHANGED vars
    BY <2>3, <2>4 DEF vars, loopVars, serverVars, Alive
  <2>5. ASSUME NEW inMain \in BOOLEAN, Start(inMain) PROVE Q
    <3>1. Ids = {}
      BY <1>0, <2>5 DEF Start, Lifetime, Ids
    <3> QED BY <3>1
  <2>6. CASE Destroy
    BY <2>3, <2>6 DEF Destroy, loopVars, Alive, Early
  <2>7. ASSUME NEW c \in connections, DestroyConnection(c) PROVE Q
    BY <2>7, DestroyKeeps
  <2>8. CASE DestroyMembers
    BY <2>3, <2>8 DEF DestroyMembers, ServerGo, AfterThread, loopVars, Alive
  <2>9. CASE QuitThread
    BY <2>3, <2>9 DEF QuitThread, ServerGo, Alive
  <2>10. CASE JoinThread
    BY <2>3, <2>10 DEF JoinThread, ServerGo, AfterThread, loopVars, Alive
  <2>11. ASSUME NEW c \in Ids, HandleClose(c) PROVE Q
    BY <2>11, CloseKeeps
  <2>12. ASSUME NEW l \in Loops, EnterLoop(l) \/ Poll(l) \/ (l = 0 /\ LeaveLoop(l)) PROVE Q
    <3>1. UNCHANGED <<pending, batch, done, connections, conns, dropped, server>>
      BY <2>12 DEF EnterLoop, Poll, LeaveLoop, serverVars
    <3>2. \A k \in Loops : Alive(k)' <=> Alive(k)
      BY <1>0, <2>12 DEF EnterLoop, Poll, LeaveLoop, Go, Alive, Typed
    <3> QED BY <2>3, <3>1, <3>2
  <2>13. ASSUME NEW l \in Loops, SwapFunctors(l) \/ EndFunctors(l) PROVE Q
    <3>1. \A k \in Loops : Todo(k)' = Todo(k)
      BY <1>0, <2>13, TodoSwap
    <3>2. UNCHANGED <<connections, conns, dropped, server>>
      BY <2>13 DEF SwapFunctors, EndFunctors, serverVars
    <3>3. \A k \in Loops : Alive(k)' <=> Alive(k)
      BY <1>0, <2>13 DEF SwapFunctors, EndFunctors, Go, Alive, Typed
    <3>4. (Early' => Early) /\ (Over => Over')
      BY <3>2 DEF Early, Over
    <3> QED BY <3>1, <3>2, <3>3, <3>4, QuietKeeps
  <2>14. ASSUME NEW l \in Loops, RunFunctor(l) PROVE Q
    BY <2>14, RunKeeps
  <2>15. ASSUME NEW l \in Loops, l # 0, LeaveLoop(l) PROVE Q
    <3>1. /\ place[l] = "test" /\ place' = [place EXCEPT ![l] = "dead"] /\ Discard(l) /\ quit[l]
          /\ UNCHANGED <<batch, done, server, connections, conns>>
      BY <2>15 DEF LeaveLoop, Go, serverVars
    <3>2. Over
      <4>1. Used /\ l <= ending /\ ~(l < ending) /\ ~(l = ending /\ server # "join")
        <5>1. Used
          BY <1>0, <2>15, <3>1 DEF Lifetime, Unused
        <5>2. l \in Nat /\ ending \in Nat
          BY <1>0, <2>15, TypeFacts DEF Typed
        <5> QED BY <2>15, <3>1, <5>1, <5>2 DEF Used
      <4>2. l \in Nat /\ ending \in Nat
        BY <1>0, <2>15, TypeFacts DEF Typed
      <4> QED BY <4>1, <4>2 DEF Over
    <3>3. Alive(l)
      BY <3>1 DEF Alive
    <3> QED BY <2>15, <3>1, <3>2, <3>3, DeathKeeps
  <2>16. CASE QuitMain
    BY <2>3, <2>16 DEF QuitMain, serverVars, Alive
  <2>17. CASE DestroyMain
    <3>1. /\ place[0] = "outside" /\ place' = [place EXCEPT ![0] = "dead"] /\ Discard(0)
          /\ server = "gone" /\ UNCHANGED <<batch, done, server, connections, conns>>
      BY <2>17 DEF DestroyMain, Go, serverVars
    <3>2. Over /\ Alive(0) /\ 0 \in Loops
      BY <1>0, <3>1, TypeFacts DEF Over, Alive
    <3> QED BY <3>1, <3>2, DeathKeeps
  <2>18. ASSUME NEW l \in Loops, EnterLoop(l) \/ LoopStep(l) PROVE Q
    BY <2>12, <2>13, <2>14, <2>15, <2>18 DEF LoopStep
  <2>19. CASE ServerStep
    <3>1. \/ \E inMain \in BOOLEAN : Start(inMain)
          \/ Destroy
          \/ \E c \in connections : DestroyConnection(c)
          \/ DestroyMembers \/ QuitThread \/ JoinThread
      BY <1>2, <2>19 DEF ServerStep
    <3>2. CASE \E inMain \in BOOLEAN : Start(inMain)
      BY <2>5, <3>2
    <3>3. CASE \E c \in connections : DestroyConnection(c)
      BY <2>7, <3>3
    <3>4. ASSUME NEW c \in Ids PROVE Keeper(c)'
      BY <2>6, <2>8, <2>9, <2>10, <3>1, <3>2, <3>3, <3>4
    <3> QED BY <3>4
  <2>20. \/ ServerStep
         \/ \E c \in Ids : HandleClose(c)
         \/ \E l \in Loops : EnterLoop(l) \/ LoopStep(l)
         \/ QuitMain \/ DestroyMain \/ UNCHANGED vars
    BY DEF Next
  <2>21. ASSUME NEW c \in Ids PROVE Keeper(c)'
    BY <2>4, <2>11, <2>16, <2>17, <2>18, <2>19, <2>20, <2>21
  <2> QED BY <2>21
<1> QED BY <1>1, <1>2

-----------------------------------------------------------------------------
(* The theorems.                                                            *)

LEMMA ServerInitially == Init => ServerInv
<1> SUFFICES ASSUME Init PROVE ServerInv
  OBVIOUS
<1>1. /\ numThreads \in Nat /\ 0 \in Loops /\ Loops \subseteq Nat
      /\ place = [l \in Loops |-> IF l = 0 THEN "outside" ELSE "none"]
      /\ quit = [l \in Loops |-> FALSE]
      /\ pending = [l \in Loops |-> <<>>]
      /\ batch = [l \in Loops |-> <<>>]
      /\ done = [l \in Loops |-> 0]
      /\ server = "constructed" /\ next_ = 1 /\ ending = 1 /\ listening = FALSE
      /\ connections = {} /\ conns = <<>> /\ dropped = {} /\ crashed = FALSE
  BY BoundAssumption DEF Init, Loops
<1>2. Ids = {} /\ <<>> \in Seq(Functors) /\ <<>> \in Seq(Conns) /\ Len(<<>>) = 0
  BY <1>1 DEF Ids
<1>3. Typed
  BY <1>1, <1>2 DEF Typed, Places, ServerPlaces
<1>4. Threads /\ Lifetime
  BY <1>1, <1>2 DEF Threads, Lifetime, Unused, Early, Alive
<1>5. Placed
  BY <1>1, OnLoopEmpty DEF Placed
<1>6. Custody /\ Turn
  BY <1>1, <1>2 DEF Custody, Turn
<1> QED BY <1>3, <1>4, <1>5, <1>6 DEF ServerInv

(* The inductive invariant holds in every reachable state.                  *)
LEMMA ServerInvariant == Spec => []ServerInv
<1>1. ServerInv /\ [Next]_vars => ServerInv'
  BY TypedStep, ThreadsStep, PlacedStep, LifeStep, CustodyStep, TurnStep DEF ServerInv
<1> QED BY <1>1, ServerInitially, PTL DEF Spec

(* What a loop has yet to run refers to its connections.                    *)
LEMMA TodoHolds ==
  ASSUME Typed, Threads, NEW l \in Loops, NEW c, NEW f, f[2] = c, In(f, Todo(l))
  PROVE  Holds(l, c)
<1> DEFINE b == batch[l]
           p == pending[l]
           n == done[l]
           s == SubSeq(b, n + 1, Len(b))
<1>1. b \in Seq(Functors) /\ p \in Seq(Functors) /\ Len(b) \in Nat /\ n \in 0 .. Len(b)
  BY DEF Typed, Threads
<1>2. Todo(l) = s \o p
  BY DEF Todo, TodoOf
<1> HIDE DEF b, p, n
<1>3. s \in Seq(Functors) /\ Len(s) = Len(b) - n /\ \A i \in 1 .. Len(b) - n : s[i] = b[n + i]
  BY <1>1, SubSeqProperties
<1>4. PICK i \in 1 .. Len(s \o p) : (s \o p)[i] = f
  BY <1>2 DEF In
<1>5. \/ i \in 1 .. Len(s) /\ f = s[i]
      \/ i - Len(s) \in 1 .. Len(p) /\ f = p[i - Len(s)]
  <2> HIDE DEF s
  <2> QED BY <1>1, <1>3, <1>4
<1>6. CASE i \in 1 .. Len(s) /\ f = s[i]
  <2>1. n + i \in 1 .. Len(b) /\ b[n + i] = f
    BY <1>1, <1>3, <1>6
  <2> QED BY <2>1 DEF Holds, b
<1>7. CASE i - Len(s) \in 1 .. Len(p) /\ f = p[i - Len(s)]
  <2> HIDE DEF s
  <2> QED BY <1>7 DEF Holds, p
<1> QED BY <1>5, <1>6, <1>7

(* Every functor is on the loop it is for, and a loop that is dead or not   *)
(* started holds none (TcpServer.cpp:42,88,91,97).                          *)
THEOREM TypeCorrect == Spec => []TypeOK
<1>1. ServerInv => TypeOK
  <2> SUFFICES ASSUME ServerInv PROVE TypeOK
    OBVIOUS
  <2>1. Typed /\ Threads /\ Placed
    BY DEF ServerInv
  <2>2. ASSUME NEW l \in Loops
        PROVE  /\ done[l] \in 0 .. Len(batch[l])
               /\ pending[l] \in Seq(Functors) /\ batch[l] \in Seq(Functors)
               /\ ~Alive(l) => pending[l] = <<>> /\ batch[l] = <<>>
    <3>1. /\ pending[l] \in Seq(Functors) /\ batch[l] \in Seq(Functors)
          /\ Len(batch[l]) \in Nat /\ done[l] \in Nat /\ done[l] <= Len(batch[l])
      BY <2>1 DEF Typed, Threads
    <3>2. ~Alive(l) => pending[l] = <<>> /\ batch[l] = <<>>
      BY <2>1 DEF Threads, Alive
    <3> QED BY <3>1, <3>2
  <2>3. ASSUME NEW l \in Loops, NEW q \in {pending[l], batch[l]}, NEW i \in 1 .. Len(q)
        PROVE  l = IF q[i][1] \in {"established", "destroyed"} THEN conns[q[i][2]].loop ELSE 0
    BY <2>1, <2>3 DEF Placed, OnLoop, LoopOf
  <2> QED BY <2>1, <2>2, <2>3 DEF TypeOK, Typed
<1> QED BY <1>1, ServerInvariant, PTL

(* conneectDestroyed is called at most once, whoever ends a connection: its *)
(* peer, by way of the main loop, or the server's destructor                *)
(* (TcpServer.cpp:42,97).                                                   *)
THEOREM NotDestroyedTwice == Spec => []DestroyedOnce
<1>1. ServerInv => DestroyedOnce
  BY DEF ServerInv, Custody, Keeper, KeeperOf, DestroyedOnce
<1> QED BY <1>1, ServerInvariant, PTL

(* The last reference to a connection goes when it is disconnected, unless  *)
(* its loop died with its functors (TcpConnection.cpp:44).                  *)
THEOREM DestructorFindsDisconnected == Spec => []FreedDisconnected
<1>1. ServerInv => FreedDisconnected
  <2> SUFFICES ASSUME ServerInv, NEW c \in Ids, ~Referenced(c), NEW h, h = conns[c].loop
               PROVE  \/ conns[c].state = "kDisconnected"
                      \/ c \in dropped /\ server \in {"quit", "join", "gone"}
    BY DEF FreedDisconnected
  <2>1. Typed /\ Threads /\ h \in Loops /\ E(c)[2] = c /\ D(c)[2] = c
    BY TypeFacts DEF ServerInv, E, D
  <2>2. c \notin connections /\ ~Holds(h, c)
    BY <2>1 DEF Referenced
  <2>3. ~In(E(c), Todo(h)) /\ ~In(D(c), Todo(h))
    BY <2>1, <2>2, TodoHolds
  <2>4. KeeperOf(c, conns[c], c \in connections, Todo(h), Todo(0), Early, Alive(h),
                 c \in dropped, Over)
    BY DEF ServerInv, Custody, Keeper
  <2> QED BY <2>2, <2>3, <2>4 DEF KeeperOf, Over
<1> QED BY <1>1, ServerInvariant, PTL

(* A connection is not freed while the poller of its live loop has its      *)
(* channel (TcpServer.cpp:97, TcpConnection.cpp:79).                        *)
THEOREM ChannelsStayAlive == Spec => []RegisteredIsAlive
<1>1. ServerInv => RegisteredIsAlive
  <2> SUFFICES ASSUME ServerInv, NEW c \in Ids, NEW h, h = conns[c].loop,
                      conns[c].polled, Alive(h)
               PROVE  Referenced(c)
    BY DEF RegisteredIsAlive
  <2>1. Typed /\ Threads /\ h \in Loops /\ D(c)[2] = c
    BY TypeFacts DEF ServerInv, D
  <2>2. KeeperOf(c, conns[c], c \in connections, Todo(h), Todo(0), Early, Alive(h),
                 c \in dropped, Over)
    BY DEF ServerInv, Custody, Keeper
  <2>3. c \in connections \/ In(D(c), Todo(h))
    BY <2>2 DEF KeeperOf
  <2> QED BY <2>1, <2>3, TodoHolds DEF Referenced
<1> QED BY <1>1, ServerInvariant, PTL

(* After ~TcpServer no connection can call the close callback, bound to a   *)
(* bare this; a use of the destroyed server is by a functor of the main     *)
(* loop (TcpServer.cpp:86).                                                 *)
THEOREM CloseCallbacksEndWithServer == Spec => []CloseCallbacksEnd
<1>1. ServerInv => CloseCallbacksEnd
  BY NoLateClose DEF CloseCallbacksEnd, ServerInv, Lifetime
<1> QED BY <1>1, ServerInvariant, PTL

(* Consecutive connections are on different loops, for as long as the pool  *)
(* has others (EventLoopThreadPool.cpp:37-44).                              *)
THEOREM LoopsTakeTurns == Spec => []RoundRobin
<1>1. ServerInv => RoundRobin
  <2> SUFFICES ASSUME ServerInv, numThreads > 0 PROVE
                 /\ \A c \in Ids : conns[c].loop # 0
                 /\ \A c, d \in Ids : c < d /\ d < c + numThreads => conns[c].loop # conns[d].loop
    BY DEF RoundRobin
  <2>1. /\ Turn /\ numThreads \in Nat /\ next_ \in Nat /\ Len(conns) \in Nat /\ Ids \subseteq Nat
        /\ \A c \in Ids : conns[c].loop \in Nat
    BY TypeFacts DEF ServerInv, Typed
  <2>2. \A c \in Ids : /\ conns[c].loop # 0
                       /\ \E k \in Int : Len(conns) + 1 - c = numThreads * k + next_ - conns[c].loop
    <3>1. numThreads # 0
      BY <2>1
    <3> QED BY <2>1, <3>1, Zenon DEF Turn
  <2>3. ASSUME NEW c \in Ids, NEW d \in Ids, c < d, d < c + numThreads,
               conns[c].loop = conns[d].loop
        PROVE  FALSE
    <3>1. PICK k \in Int : Len(conns) + 1 - c = numThreads * k + next_ - conns[c].loop
      BY <2>2
    <3>2. PICK j \in Int : Len(conns) + 1 - d = numThreads * j + next_ - conns[d].loop
      BY <2>2
    <3>3. /\ numThreads * k \in Int /\ numThreads * j \in Int
          /\ k - j >= 1 => numThreads * k >= numThreads * j + numThreads
          /\ k - j <= 0 => numThreads * k <= numThreads * j
      BY <2>1
    <3>4. k - j >= 1 \/ k - j <= 0
      OBVIOUS
    <3> DEFINE y == numThreads * k
               z == numThreads * j
    <3>5. /\ y \in Int /\ z \in Int /\ (y >= z + numThreads \/ y <= z)
          /\ Len(conns) + 1 - c = y + next_ - conns[c].loop
          /\ Len(conns) + 1 - d = z + next_ - conns[d].loop
      BY <3>1, <3>2, <3>3, <3>4
    <3> HIDE DEF y, z
    <3> QED BY <2>1, <2>3, <3>5, SMTT(60)
  <2> QED BY <2>2, <2>3
<1> QED BY <1>1, ServerInvariant, PTL

-----------------------------------------------------------------------------
(* Every connection lives one life of ConnectionLife.                       *)

Lives == \A c \in 1 .. MaxConns : [Life(c)!Next]_(Life(c)!lifeVars)

(* A step that leaves the connections alone.                                *)
LEMMA LifeGoesOn ==
  ASSUME conns' = conns
  PROVE  Lives
BY DEF Lives, Life!lifeVars, Ids

(* conneectEstableished, conneectDestroyed and handleClose, each when its   *)
(* turn has come.                                                           *)
LEMMA LifeSteps ==
  ASSUME Typed, NEW a \in Ids, NEW x,
         conns' = [conns EXCEPT ![a] = x],
         \/ x = Established(conns[a]) /\ conns[a].state = "kConnecting" /\ conns[a].ended = 0
         \/ x = Destroyed(conns[a]) /\ conns[a].state # "kConnecting" /\ conns[a].ended = 0
         \/ x = [conns[a] EXCEPT !.state = "kDisconnected"] /\ conns[a].state = "kConnected"
  PROVE  Lives
<1> SUFFICES ASSUME NEW c \in 1 .. MaxConns PROVE [Life(c)!Next]_(Life(c)!lifeVars)
  BY DEF Lives
<1> DEFINE m == conns[a]
<1>1. conns \in Seq(Conns) /\ m \in Conns
  BY TypeFacts DEF Typed
<1>2. Ids' = Ids /\ \A d \in Ids : conns'[d] = IF d = a THEN x ELSE conns[d]
  BY <1>1 DEF Ids
<1>3. CASE c # a
  BY <1>2, <1>3 DEF Life!lifeVars
<1>4. CASE c = a
  <2>1. c \in Ids /\ c \in Ids' /\ conns[c] = m /\ conns'[c] = x
    BY <1>2, <1>4
  <2>2. m.state \in {"kConnecting", "kConnected", "kDisconnected"}
    BY <1>1 DEF Conns
  <2>3. CASE x = Established(m) /\ m.state = "kConnecting" /\ m.ended = 0
    <3>1. x.state = "kConnected" /\ x.ended = m.ended
      BY <1>1, <2>3 DEF Established, Conns
    <3>2. Life(c)!Establish
      BY <2>1, <2>3, <3>1 DEF Life!Establish
    <3> QED BY <3>2 DEF Life!Next
  <2>4. CASE x = Destroyed(m) /\ m.state # "kConnecting" /\ m.ended = 0
    <3>1. /\ x.ended = 1
          /\ x.state = IF m.state = "kConnected" THEN "kDisconnected" ELSE m.state
      BY <1>1, <2>4 DEF Destroyed, Conns
    <3>2. Life(c)!End
      BY <2>1, <2>2, <2>4, <3>1 DEF Life!End
    <3> QED BY <3>2 DEF Life!Next
  <2>5. CASE x = [m EXCEPT !.state = "kDisconnected"] /\ m.state = "kConnected"
    <3>1. x.state = "kDisconnected" /\ x.ended = m.ended /\ m.state = "kConnected"
      BY <1>1, <2>5 DEF Conns
    <3>2. Life(c)!Close
      <4> HIDE DEF m
      <4>1. conns[c].state = "kConnected" /\ conns'[c].state = "kDisconnected"
            /\ conns'[c].ended = conns[c].ended
        BY <2>1, <3>1
      <4> QED BY <2>1, <4>1 DEF Life!Close
    <3> QED BY <3>2 DEF Life!Next
  <2> QED BY <2>3, <2>4, <2>5
<1> QED BY <1>3, <1>4

(* A new connection is about to begin, or on the main loop begins at once.  *)
LEMMA LifeBegins ==
  ASSUME Typed, Turn, Accept
  PROVE  Lives
<1> SUFFICES ASSUME NEW c \in 1 .. MaxConns PROVE [Life(c)!Next]_(Life(c)!lifeVars)
  BY DEF Lives
<1> DEFINE n == Len(conns) + 1
           h == NextLoop
<1>1. /\ n \notin Ids /\ Ids' = Ids \cup {n} /\ \A d \in Ids : conns'[d] = conns[d]
      /\ conns'[n] = IF h = 0 THEN Established(NewConn(0)) ELSE NewConn(h)
  BY AcceptFacts
<1> HIDE DEF n, h
<1>2. CASE c # n
  BY <1>1, <1>2 DEF Life!lifeVars
<1>3. CASE c = n
  <2>1. c \notin Ids /\ c \in Ids'
    BY <1>1, <1>3
  <2>2. CASE h = 0
    <3>1. conns'[c].state = "kConnected" /\ conns'[c].ended = 0
      BY <1>1, <1>3, <2>2 DEF Established, NewConn
    <3>2. Life(c)!Establish
      BY <2>1, <3>1 DEF Life!Establish
    <3> QED BY <3>2 DEF Life!Next
  <2>3. CASE h # 0
    <3>1. conns'[c].state = "kConnecting" /\ conns'[c].ended = 0
      BY <1>1, <1>3, <2>3 DEF NewConn
    <3> QED BY <2>1, <3>1 DEF Life!lifeVars
  <2> QED BY <2>2, <2>3
<1> QED BY <1>2, <1>3

(* What a loop is about to run is among what it has yet to run.             *)
LEMMA DueToRun ==
  ASSUME Typed, Threads, NEW l \in Loops, RunFunctor(l),
         NEW f \in Functors, batch[l][done[l] + 1] = f
  PROVE  /\ In(f, Todo(l))
         /\ \A g : Before(g, f, Todo(l)) => ~In(g, Todo(l))
<1> DEFINE t == Todo(l)
<1>1. t \in Seq(Functors) /\ t # <<>> /\ Head(t) = f
  BY TodoTyped, TodoRun
<1> HIDE DEF t
<1>2. Len(t) \in Nat /\ 1 \in 1 .. Len(t) /\ t[1] = f
  BY <1>1
<1> QED BY <1>2 DEF In, Before, t

(* A functor of a connection finds it as ConnectionLife says.               *)
LEMMA LifeRuns ==
  ASSUME ServerInv, NEW l \in Loops, RunFunctor(l)
  PROVE  Lives
<1> DEFINE f == batch[l][done[l] + 1]
<1>1. /\ Typed /\ Threads /\ Placed /\ \A c \in Ids : Keeper(c)
      /\ f \in Functors
  BY RunCases DEF ServerInv, Custody
<1>2. done[l] + 1 \in 1 .. Len(batch[l]) /\ Alive(l)
  <2>1. Len(batch[l]) \in Nat
    BY <1>1, TypeFacts
  <2>2. place[l] = "functors" /\ done[l] \in Nat /\ done[l] < Len(batch[l])
    BY <1>1, RunCases
  <2> QED BY <2>1, <2>2 DEF Alive
<1> HIDE DEF f
<1>3. ASSUME NEW a \in Ids, f = E(a), conns' = [conns EXCEPT ![a] = Established(conns[a])]
      PROVE  Lives
  <2>1. l = conns[a].loop
    BY <1>1, <1>2, <1>3 DEF Placed, OnLoop, LoopOf, E, f
  <2>2. In(E(a), Todo(l))
    BY <1>1, <1>3, DueToRun DEF f
  <2>3. conns[a].state = "kConnecting" /\ conns[a].ended = 0
    BY <1>1, <2>1, <2>2 DEF Keeper, KeeperOf
  <2> QED BY <1>1, <1>3, <2>3, LifeSteps
<1>4. ASSUME NEW a \in Ids, f = D(a), conns' = [conns EXCEPT ![a] = Destroyed(conns[a])]
      PROVE  Lives
  <2>1. l = conns[a].loop
    BY <1>1, <1>2, <1>4 DEF Placed, OnLoop, LoopOf, D, f
  <2>2. In(D(a), Todo(l)) /\ (Before(E(a), D(a), Todo(l)) => ~In(E(a), Todo(l)))
    BY <1>1, <1>4, DueToRun DEF f
  <2>3. conns[a].state # "kConnecting" /\ conns[a].ended = 0
    BY <1>1, <1>2, <2>1, <2>2 DEF Keeper, KeeperOf
  <2> QED BY <1>1, <1>4, <2>3, LifeSteps
<1>5. \/ conns' = conns
      \/ \E a \in Ids : f = E(a) /\ conns' = [conns EXCEPT ![a] = Established(conns[a])]
      \/ \E a \in Ids : f = D(a) /\ conns' = [conns EXCEPT ![a] = Destroyed(conns[a])]
  BY <1>1, RunCases DEF f
<1> QED BY <1>3, <1>4, <1>5, LifeGoesOn

LEMMA LivesStep ==
  ASSUME ServerInv, [Next]_vars
  PROVE  Lives
<1>1. Typed /\ Threads /\ Turn /\ \A c \in Ids : Keeper(c) /\ conns[c].loop \in Loops
  BY TypeFacts DEF ServerInv, Custody
<1>2. CASE UNCHANGED vars
  BY <1>2, LifeGoesOn DEF vars
<1>3. CASE Accept
  BY <1>1, <1>3, LifeBegins
<1>4. ASSUME NEW a \in connections, DestroyConnection(a)
      PROVE  Lives
  <2>1. a \in Ids /\ conns[a].ended = 0 /\ (conns[a].loop = 0 => conns[a].state # "kConnecting")
    BY <1>1, <1>4 DEF Typed, Keeper, KeeperOf
  <2>2. \/ conns' = conns
        \/ conns[a].loop = 0 /\ conns' = [conns EXCEPT ![a] = Destroyed(conns[a])]
    BY <1>4 DEF DestroyConnection, Home
  <2> QED BY <1>1, <2>1, <2>2, LifeSteps, LifeGoesOn
<1>5. CASE ServerStep
  BY <1>3, <1>4, <1>5, LifeGoesOn
    DEF ServerStep, Start, Destroy, DestroyMembers, QuitThread, JoinThread
<1>6. ASSUME NEW a \in Ids, HandleClose(a)
      PROVE  Lives
  <2>1. /\ conns[a].state = "kConnected"
        /\ conns' = [conns EXCEPT ![a] = [conns[a] EXCEPT !.state = "kDisconnected"]]
    BY <1>6 DEF HandleClose, CanClose
  <2> QED BY <1>1, <2>1, LifeSteps
<1>7. ASSUME NEW l \in Loops, EnterLoop(l) \/ LoopStep(l)
      PROVE  Lives
  <2>1. CASE RunFunctor(l)
    BY <2>1, LifeRuns
  <2> QED BY <1>7, <2>1, LifeGoesOn
      DEF EnterLoop, LoopStep, Poll, SwapFunctors, EndFunctors, LeaveLoop
<1>8. CASE QuitMain \/ DestroyMain
  BY <1>8, LifeGoesOn DEF QuitMain, DestroyMain
<1> QED BY <1>2, <1>5, <1>6, <1>7, <1>8 DEF Next

LEMMA LivesInitially ==
  ASSUME Init, NEW c \in 1 .. MaxConns
  PROVE  Life(c)!Init
<1>1. c \notin Ids
  BY DEF Init, Ids
<1> QED BY <1>1 DEF Life!Init

(* However closes, removals and the destructor overlap, every connection    *)
(* lives one life of ConnectionLife (TcpServer.cpp:42,86-98).               *)
THEOREM ConnectionsLiveOnce == Spec => LivesOnce
<1>1. Init => \A c \in 1 .. MaxConns : Life(c)!Init
  BY LivesInitially
<1>2. ServerInv /\ [Next]_vars
        => [\A c \in 1 .. MaxConns : [Life(c)!Next]_(Life(c)!lifeVars)]_vars
  BY LivesStep DEF Lives
<1> QED BY <1>1, <1>2, ServerInvariant, PTL DEF Spec, LivesOnce

(* Seen alone, each of them is the connection of ConnectionLife.            *)
THEOREM EachIsALife ==
  ASSUME NEW c \in 1 .. MaxConns
  PROVE  Spec => Life(c)!Spec
<1>1. Init => Life(c)!Init
  BY LivesInitially
<1>2. ServerInv /\ [Next]_vars => [Life(c)!Next]_(Life(c)!lifeVars)
  BY LivesStep DEF Lives
<1> QED BY <1>1, <1>2, ServerInvariant, PTL DEF Spec, Life!Spec
=============================================================================
