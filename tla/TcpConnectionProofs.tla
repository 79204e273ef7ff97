------------------------ MODULE TcpConnectionProofs ------------------------
(***************************************************************************)
(* Theorems about TcpConnection, for any callers, strings, string length,  *)
(* high-water mark, uses and masks.                                        *)
(***************************************************************************)
EXTENDS TcpConnection, SequenceTheorems, FiniteSetTheorems, TLAPS

UserKinds == {"writeComplete", "highWaterMark"}
AllKinds == Owning \cup {"send", "shutdown"}
Functors == {f \in [kind : AllKinds, msg : Msgs \cup {"none"}] :
               f.kind = "send" => f.msg \in Msgs}
Steps == {"close", "error", "read", "write", "user", "closeCallback", "remove"}

(* What is queued, and what is left to do, without their order.             *)
Kinds(queue) == {queue[i].kind : i \in 1 .. Len(queue)}
StepsIn(w) == {w[i] : i \in 1 .. Len(w)}

-----------------------------------------------------------------------------
(* Sequences.                                                               *)

LEMMA KindsOfConcat ==
  ASSUME NEW p \in Seq(Functors), NEW q \in Seq(Functors)
  PROVE  p \o q \in Seq(Functors) /\ Kinds(p \o q) = Kinds(p) \cup Kinds(q)
<1> DEFINE r == p \o q
<1>1. /\ r \in Seq(Functors) /\ Len(r) = Len(p) + Len(q)
      /\ Len(p) \in Nat /\ Len(q) \in Nat
      /\ \A i \in 1 .. Len(p) + Len(q) : r[i] = IF i <= Len(p) THEN p[i] ELSE q[i - Len(p)]
  BY ConcatProperties
<1> HIDE DEF r
<1>2. ASSUME NEW i \in 1 .. Len(p) PROVE p[i].kind \in Kinds(r)
  <2>1. i \in 1 .. Len(r) /\ r[i] = p[i]
    BY <1>1
  <2> QED BY <2>1 DEF Kinds
<1>3. ASSUME NEW i \in 1 .. Len(q) PROVE q[i].kind \in Kinds(r)
  <2> DEFINE j == i + Len(p)
  <2>1. j \in 1 .. Len(r) /\ j \in 1 .. Len(p) + Len(q) /\ ~(j <= Len(p)) /\ j - Len(p) = i
    BY <1>1
  <2> HIDE DEF j
  <2>2. r[j] = q[j - Len(p)]
    BY <1>1, <2>1
  <2>3. \E k \in 1 .. Len(r) : r[k] = q[i]
    BY <2>1, <2>2
  <2> QED BY <2>3 DEF Kinds
<1>4. ASSUME NEW i \in 1 .. Len(r) PROVE r[i].kind \in Kinds(p) \cup Kinds(q)
  <2>1. CASE i <= Len(p)
    BY <1>1, <2>1 DEF Kinds
  <2>2. CASE i > Len(p)
    <3>1. i - Len(p) \in 1 .. Len(q) /\ r[i] = q[i - Len(p)]
      BY <1>1, <2>2
    <3> QED BY <3>1 DEF Kinds
  <2> QED BY <1>1, <2>1, <2>2
<1>5. Kinds(r) = Kinds(p) \cup Kinds(q)
  <2>1. Kinds(r) \subseteq Kinds(p) \cup Kinds(q)
    BY <1>4 DEF Kinds
  <2>2. Kinds(p) \subseteq Kinds(r) /\ Kinds(q) \subseteq Kinds(r)
    BY <1>2, <1>3 DEF Kinds
  <2> QED BY <2>1, <2>2
<1> QED BY <1>1, <1>5 DEF r

(* Queueing a functor adds its kind and no other.                           *)
LEMMA KindsOfAppend ==
  ASSUME NEW q \in Seq(Functors), NEW f \in Functors
  PROVE  Append(q, f) \in Seq(Functors) /\ Kinds(Append(q, f)) = Kinds(q) \cup {f.kind}
<1>1. <<f>> \in Seq(Functors) /\ Len(<<f>>) = 1 /\ <<f>>[1] = f
  OBVIOUS
<1>2. Kinds(<<f>>) = {f.kind}
  BY <1>1 DEF Kinds
<1>3. Append(q, f) = q \o <<f>>
  BY AppendIsConcat
<1>4. q \o <<f>> \in Seq(Functors) /\ Kinds(q \o <<f>>) = Kinds(q) \cup Kinds(<<f>>)
  BY <1>1, KindsOfConcat
<1> QED BY <1>2, <1>3, <1>4

(* Running the first functor takes at most its kind away.                   *)
LEMMA KindsOfTail ==
  ASSUME NEW q \in Seq(Functors), q # <<>>
  PROVE  /\ Tail(q) \in Seq(Functors) /\ Head(q) \in Functors
         /\ Kinds(Tail(q)) \subseteq Kinds(q) /\ Head(q).kind \in Kinds(q)
<1> DEFINE r == Tail(q)
<1>1. /\ r \in Seq(Functors) /\ Head(q) \in Functors /\ Len(r) = Len(q) - 1
      /\ \A i \in 1 .. Len(r) : r[i] = q[i + 1]
      /\ Len(q) \in Nat /\ Len(q) > 0 /\ Head(q) = q[1]
  BY HeadTailProperties
<1> HIDE DEF r
<1>2. ASSUME NEW i \in 1 .. Len(r) PROVE r[i].kind \in Kinds(q)
  <2>1. i + 1 \in 1 .. Len(q) /\ r[i] = q[i + 1]
    BY <1>1
  <2> QED BY <2>1 DEF Kinds
<1>3. Kinds(r) \subseteq Kinds(q)
  BY <1>2 DEF Kinds
<1>4. Head(q).kind \in Kinds(q)
  BY <1>1 DEF Kinds
<1> QED BY <1>1, <1>3, <1>4 DEF r

(* The functors the model makes.                                            *)
LEMMA FunctorFacts ==
  /\ \A kind \in AllKinds \ {"send"} :
       Functor(kind) \in Functors /\ Functor(kind).kind = kind
  /\ \A m \in Msgs : SendFunctor(m) \in Functors /\ SendFunctor(m).kind = "send"
BY DEF Functor, SendFunctor, Functors, AllKinds, Owning

(* The order of what a handler leaves to do: nothing but handleError comes  *)
(* before the handler that may close, the close callback and the removal of *)
(* the channel come at once or behind the user's callback, and nothing      *)
(* follows the removal.                                                     *)
Ordered(w) ==
  \A i \in 1 .. Len(w) :
    /\ w[i] \in {"read", "close"} => \A j \in 1 .. i - 1 : w[j] = "error"
    /\ w[i] \in {"closeCallback", "remove"} => i = 1 \/ (i = 2 /\ w[1] = "user")
    /\ w[i] = "remove" => i = Len(w)

Closers == {"read", "close"}

(* What is left of a handler's work stays in order after its first step.    *)
LEMMA OrderedTail ==
  ASSUME NEW w \in Seq(Steps), w # <<>>, Ordered(w)
  PROVE  /\ Tail(w) \in Seq(Steps) /\ Ordered(Tail(w))
         /\ StepsIn(Tail(w)) \subseteq StepsIn(w) /\ Head(w) \in StepsIn(w)
         /\ Head(w) # "error" => StepsIn(Tail(w)) \cap Closers = {}
         /\ Head(w) # "user" =>
              "closeCallback" \notin StepsIn(Tail(w)) /\ "remove" \notin StepsIn(Tail(w))
         /\ Head(w) = "remove" => Tail(w) = <<>>
<1> DEFINE r == Tail(w)
<1>1. /\ r \in Seq(Steps) /\ Len(r) = Len(w) - 1
      /\ \A i \in 1 .. Len(r) : r[i] = w[i + 1]
      /\ Len(w) \in Nat /\ Len(w) > 0 /\ Head(w) = w[1] /\ Len(r) \in Nat
  BY HeadTailProperties
<1>2. Head(w) = "remove" => r = <<>>
  <2> SUFFICES ASSUME Head(w) = "remove" PROVE r = <<>>
    OBVIOUS
  <2>0. 1 \in 1 .. Len(w) /\ w[1] = "remove"
    BY <1>1
  <2>1. 1 = Len(w)
    BY <2>0 DEF Ordered
  <2>2. Len(Tail(w)) = 0
    BY <2>1, HeadTailProperties
  <2> QED BY <1>1, <2>2, EmptySeq
<1> HIDE DEF r
<1>3. ASSUME NEW i \in 1 .. Len(r)
      PROVE  /\ i + 1 \in 1 .. Len(w) /\ r[i] = w[i + 1]
             /\ r[i] \in Closers => w[1] = "error" /\ \A j \in 1 .. i - 1 : r[j] = "error"
             /\ r[i] \in {"closeCallback", "remove"} => i = 1 /\ w[1] = "user"
             /\ r[i] = "remove" => i = Len(r)
  <2>1. i + 1 \in 1 .. Len(w) /\ r[i] = w[i + 1] /\ i \in Nat
    BY <1>1
  <2>2. r[i] \in {"closeCallback", "remove"} => i = 1 /\ w[1] = "user"
    BY <1>1, <2>1 DEF Ordered
  <2>3. r[i] = "remove" => i = Len(r)
    BY <1>1, <2>1 DEF Ordered
  <2>4. ASSUME r[i] \in Closers
        PROVE  w[1] = "error" /\ \A j \in 1 .. i - 1 : r[j] = "error"
    <3>1. \A j \in 1 .. (i + 1) - 1 : w[j] = "error"
      BY <2>1, <2>4 DEF Ordered, Closers
    <3>2. ASSUME NEW j \in 1 .. i - 1 PROVE r[j] = "error"
      <4>1. j + 1 \in 1 .. (i + 1) - 1 /\ j \in 1 .. Len(r)
        BY <1>1, <2>1
      <4> QED BY <1>1, <3>1, <4>1
    <3>3. 1 \in 1 .. (i + 1) - 1
      BY <2>1
    <3> QED BY <3>1, <3>2, <3>3
  <2> QED BY <2>1, <2>2, <2>3, <2>4
<1>4. Ordered(r)
  BY <1>3 DEF Ordered, Closers
<1>5. /\ StepsIn(r) \subseteq StepsIn(w) /\ Head(w) \in StepsIn(w)
      /\ Head(w) # "error" => StepsIn(r) \cap Closers = {}
      /\ Head(w) # "user" =>
           "closeCallback" \notin StepsIn(r) /\ "remove" \notin StepsIn(r)
  BY <1>1, <1>3 DEF StepsIn
<1> QED BY <1>1, <1>2, <1>4, <1>5 DEF r

(* A user callback, with or without the close callback behind it, before    *)
(* what is left of a batch of callbacks.                                    *)
LEMMA OrderedPush ==
  ASSUME NEW r \in Seq(Steps), StepsIn(r) \subseteq {"error", "write", "user"},
         NEW p \in {<<"user">>, <<"user", "closeCallback">>}
  PROVE  /\ p \o r \in Seq(Steps) /\ Ordered(p \o r)
         /\ StepsIn(p \o r) \subseteq StepsIn(r) \cup {"user", "closeCallback"}
         /\ p = <<"user">> => "closeCallback" \notin StepsIn(p \o r)
<1> DEFINE w == p \o r
<1>1. p \in Seq(Steps) /\ Len(p) \in {1, 2} /\ p[1] = "user"
  <2>1. CASE p = <<"user">>
    BY <2>1 DEF Steps
  <2>2. CASE p = <<"user", "closeCallback">>
    BY <2>2 DEF Steps
  <2> QED BY <2>1, <2>2
<1>2. /\ p = <<"user">> => Len(p) = 1
      /\ Len(p) = 2 => p[2] = "closeCallback"
  OBVIOUS
<1>3. /\ w \in Seq(Steps) /\ Len(w) = Len(p) + Len(r) /\ Len(r) \in Nat
      /\ \A i \in 1 .. Len(p) + Len(r) : w[i] = IF i <= Len(p) THEN p[i] ELSE r[i - Len(p)]
  BY <1>1, ConcatProperties
<1> HIDE DEF w
<1>4. \A i \in 1 .. Len(r) : r[i] \in {"error", "write", "user"}
  BY DEF StepsIn
<1>5. ASSUME NEW i \in 1 .. Len(w)
      PROVE  \/ i = 1 /\ w[i] = "user"
             \/ i = 2 /\ w[i] = "closeCallback" /\ w[1] = "user" /\ Len(p) = 2
             \/ w[i] \in {"error", "write", "user"} /\ w[i] \in StepsIn(r)
  <2>1. CASE i <= Len(p)
    <3>1. i \in {1, 2} /\ w[i] = p[i] /\ w[1] = p[1]
      BY <1>1, <1>3, <2>1, SMTT(60)
    <3>2. i = 2 => Len(p) = 2
      <4> DEFINE m == Len(p)
      <4>1. m \in {1, 2} /\ i <= m
        BY <1>1, <2>1
      <4> HIDE DEF m
      <4>2. i = 2 => m = 2
        BY <4>1
      <4> QED BY <4>2 DEF m
    <3> QED BY <1>1, <1>2, <3>1, <3>2
  <2>2. CASE i > Len(p)
    <3>1. i - Len(p) \in 1 .. Len(r) /\ w[i] = r[i - Len(p)]
      BY <1>1, <1>3, <2>2
    <3> QED BY <1>4, <3>1 DEF StepsIn
  <2> QED BY <1>1, <1>3, <2>1, <2>2
<1>6. Ordered(w)
  BY <1>5 DEF Ordered
<1>7. /\ StepsIn(w) \subseteq StepsIn(r) \cup {"user", "closeCallback"}
      /\ p = <<"user">> => "closeCallback" \notin StepsIn(w)
  BY <1>1, <1>2, <1>5 DEF StepsIn
<1> QED BY <1>3, <1>6, <1>7 DEF w

(* Callbacks of one batch behind others.                                    *)
LEMMA OrderedConcat ==
  ASSUME NEW p \in Seq(Steps), NEW q \in Seq(Steps), Ordered(p), Ordered(q),
         StepsIn(p) \cup StepsIn(q) \subseteq {"close", "error", "read", "write"},
         StepsIn(q) \cap Closers # {} => StepsIn(p) \subseteq {"error"}
  PROVE  /\ p \o q \in Seq(Steps) /\ Ordered(p \o q)
         /\ StepsIn(p \o q) \subseteq StepsIn(p) \cup StepsIn(q)
<1> DEFINE w == p \o q
<1>1. /\ w \in Seq(Steps) /\ Len(w) = Len(p) + Len(q)
      /\ Len(p) \in Nat /\ Len(q) \in Nat
      /\ \A i \in 1 .. Len(p) + Len(q) : w[i] = IF i <= Len(p) THEN p[i] ELSE q[i - Len(p)]
  BY ConcatProperties
<1> HIDE DEF w
<1>2. /\ \A i \in 1 .. Len(p) : p[i] \in StepsIn(p)
      /\ \A i \in 1 .. Len(q) : q[i] \in StepsIn(q)
  BY DEF StepsIn
<1>3. ASSUME NEW i \in 1 .. Len(w)
      PROVE  /\ w[i] \in StepsIn(p) \cup StepsIn(q)
             /\ w[i] \in Closers => \A j \in 1 .. i - 1 : w[j] = "error"
  <2>1. CASE i <= Len(p)
    <3>1. i \in 1 .. Len(p) /\ w[i] = p[i]
      BY <1>1, <2>1
    <3>2. \A j \in 1 .. i - 1 : j \in 1 .. Len(p) /\ w[j] = p[j]
      BY <1>1, <2>1
    <3>3. w[i] \in Closers => \A j \in 1 .. i - 1 : p[j] = "error"
      BY <3>1 DEF Ordered, Closers
    <3> QED BY <1>2, <3>1, <3>2, <3>3
  <2>2. CASE i > Len(p)
    <3> DEFINE k == i - Len(p)
    <3>1. k \in 1 .. Len(q) /\ w[i] = q[k] /\ k \in Nat
      BY <1>1, <2>2
    <3>2. ASSUME w[i] \in Closers, NEW j \in 1 .. i - 1 PROVE w[j] = "error"
      <4>1. CASE j <= Len(p)
        BY <1>1, <1>2, <2>2, <3>1, <3>2, <4>1
      <4>2. CASE j > Len(p)
        <5>1. /\ j - Len(p) \in 1 .. k - 1 /\ j - Len(p) \in 1 .. Len(q)
              /\ w[j] = q[j - Len(p)]
          BY <1>1, <2>2, <4>2
        <5>2. \A n \in 1 .. k - 1 : q[n] = "error"
          BY <3>1, <3>2 DEF Ordered, Closers
        <5> QED BY <5>1, <5>2
      <4> QED BY <1>1, <4>1, <4>2
    <3> QED BY <1>2, <3>1, <3>2
  <2> QED BY <1>1, <2>1, <2>2
<1>4. \A i \in 1 .. Len(w) : w[i] \in {"close", "error", "read", "write"}
  BY <1>3
<1>5. Ordered(w)
  BY <1>3, <1>4 DEF Ordered, Closers
<1>6. StepsIn(w) \subseteq StepsIn(p) \cup StepsIn(q)
  BY <1>3 DEF StepsIn
<1> QED BY <1>1, <1>5, <1>6 DEF w

(* handleEventWithGuard closes at most once: on a hangup it does not read.  *)
LEMMA OrderedCallbacks ==
  ASSUME NEW revents
  PROVE  /\ Callbacks(revents) \in Seq(Steps) /\ Ordered(Callbacks(revents))
         /\ StepsIn(Callbacks(revents)) \subseteq {"close", "error", "read", "write"}
         /\ "EPOLLOUT" \notin revents => "write" \notin StepsIn(Callbacks(revents))
<1> DEFINE reads == "EPOLLIN" \in revents
           a == IF "EPOLLHUP" \in revents /\ ~reads THEN <<"close">> ELSE <<>>
           b == IF "EPOLLERR" \in revents THEN <<"error">> ELSE <<>>
           c == IF reads THEN <<"read">> ELSE <<>>
           d == IF "EPOLLOUT" \in revents THEN <<"write">> ELSE <<>>
<1>1. Callbacks(revents) = ((a \o b) \o c) \o d
  BY DEF Callbacks
<1>2. ASSUME NEW s \in {"close", "error", "read", "write"}
      PROVE  <<s>> \in Seq(Steps) /\ Ordered(<<s>>) /\ StepsIn(<<s>>) = {s}
  BY DEF Steps, Ordered, StepsIn
<1>3. <<>> \in Seq(Steps) /\ Ordered(<<>>) /\ StepsIn(<<>>) = {}
  BY DEF Ordered, StepsIn
<1>4. /\ a \in Seq(Steps) /\ Ordered(a) /\ StepsIn(a) \subseteq {"close"}
      /\ reads => StepsIn(a) = {}
      /\ b \in Seq(Steps) /\ Ordered(b) /\ StepsIn(b) \subseteq {"error"}
      /\ c \in Seq(Steps) /\ Ordered(c) /\ StepsIn(c) \subseteq {"read"}
      /\ ~reads => StepsIn(c) = {}
      /\ d \in Seq(Steps) /\ Ordered(d) /\ StepsIn(d) \subseteq {"write"}
      /\ "EPOLLOUT" \notin revents => StepsIn(d) = {}
  BY <1>2, <1>3
<1> HIDE DEF a, b, c, d, reads
<1>5. /\ a \o b \in Seq(Steps) /\ Ordered(a \o b)
      /\ StepsIn(a \o b) \subseteq StepsIn(a) \cup StepsIn(b)
  BY <1>4, OrderedConcat DEF Closers
<1> DEFINE ab == a \o b
           abc == ab \o c
<1> HIDE DEF ab
<1>6. /\ ab \in Seq(Steps) /\ Ordered(ab)
      /\ StepsIn(ab) \subseteq StepsIn(a) \cup StepsIn(b)
  BY <1>5 DEF ab
<1>7. /\ abc \in Seq(Steps) /\ Ordered(abc)
      /\ StepsIn(abc) \subseteq StepsIn(ab) \cup StepsIn(c)
  <2>1. StepsIn(ab) \cup StepsIn(c) \subseteq {"close", "error", "read", "write"}
    BY <1>4, <1>6
  <2>2. StepsIn(c) \cap Closers # {} => StepsIn(ab) \subseteq {"error"}
    <3>1. CASE reads
      BY <1>4, <1>6, <3>1
    <3>2. CASE ~reads
      BY <1>4, <3>2
    <3> QED BY <3>1, <3>2
  <2> QED BY <1>4, <1>6, <2>1, <2>2, OrderedConcat
<1> HIDE DEF abc
<1>8. /\ abc \o d \in Seq(Steps) /\ Ordered(abc \o d)
      /\ StepsIn(abc \o d) \subseteq StepsIn(abc) \cup StepsIn(d)
  <2>1. StepsIn(abc) \cup StepsIn(d) \subseteq {"close", "error", "read", "write"}
    BY <1>4, <1>6, <1>7
  <2>2. StepsIn(d) \cap Closers = {}
    BY <1>4 DEF Closers
  <2> QED BY <1>4, <1>7, <2>1, <2>2, OrderedConcat
<1>9. Callbacks(revents) = abc \o d
  BY <1>1 DEF abc, ab
<1> QED BY <1>4, <1>6, <1>7, <1>8, <1>9

(* What the functors of the connection's beginning and end leave to do.     *)
LEMMA OrderedFew ==
  /\ \A w \in {<<"user">>, <<"user", "remove">>} :
       w \in Seq(Steps) /\ Ordered(w) /\ StepsIn(w) \subseteq {"user", "remove"}
  /\ StepsIn(<<"user">>) = {"user"}
<1>1. <<"user">> \in Seq(Steps) /\ <<"user", "remove">> \in Seq(Steps)
  BY DEF Steps
<1>2. Ordered(<<"user">>) /\ Ordered(<<"user", "remove">>)
  BY DEF Ordered
<1>3. StepsIn(<<"user">>) = {"user"} /\ StepsIn(<<"user", "remove">>) \subseteq {"user", "remove"}
  BY DEF StepsIn
<1> QED BY <1>1, <1>2, <1>3

-----------------------------------------------------------------------------
(* The inductive invariant.                                                 *)

Typed ==
  /\ state \in States /\ events \subseteq EpollBits /\ added \in BOOLEAN
  /\ outputBuffer \in Seq(Units) /\ wire \in Seq(Units) /\ accepted \in Seq(Units)
  /\ pending \in Seq(Functors)
  /\ work \in Seq(Steps)
  /\ caller \in [Callers -> {"out", "checked", "set"} \cup Msgs]
  /\ server \in {"holds", "erased", "gone"}
  /\ removals \in Nat /\ downs \in Nat
  /\ late \in BOOLEAN /\ writeShut \in BOOLEAN

(* Before conneectEstableished, the first functor, nothing has happened but *)
(* perhaps the end of the server.                                           *)
Fresh ==
  state = "kConnecting" =>
    /\ work = <<>> /\ ~added /\ events = {} /\ outputBuffer = <<>> /\ ~writeShut
    /\ removals = 0 /\ downs = 0 /\ ~late /\ server # "erased"
    /\ pending # <<>> /\ Head(pending).kind = "conneectEstableished"
    /\ Kinds(Tail(pending)) \subseteq {"conneectDestroyed"}
    /\ \A t \in Callers : caller[t] = "out"

EstablishedOnce ==
  state # "kConnecting" => "conneectEstableished" \notin Kinds(pending)

Open == state \in {"kConnected", "kDisconnecting"}
ReadBits == kReadEvent \ kWriteEvent

(* Where a channel is registered, and what it keeps asking for.             *)
Registration ==
  /\ added => events # {} /\ Open
  /\ state = "kConnected" => added /\ ReadBits \subseteq events
  /\ Open /\ ~late => ReadBits \subseteq events
  /\ Open /\ ~late /\ server # "gone" => added
  /\ StepsIn(work) \cap Closers # {} => added
  /\ "write" \in StepsIn(work) => added \/ events = {}

(* What is only done after the end of the connection, once.                 *)
Over == state = "kDisconnected" \/ late
AfterTheEnd ==
  /\ "closeCallback" \in StepsIn(work) => Over /\ (removals = 0 \/ late)
  /\ "remove" \in StepsIn(work) => Over
  /\ removals > 0 => Over
  /\ removals <= 1 \/ late
  /\ server = "erased" => Over
  /\ "conneectDestroyed" \in Kinds(pending) => Over \/ server = "gone"
  /\ late => state \in {"kDisconnecting", "kDisconnected"}
  /\ ~late => downs = IF state = "kDisconnected" THEN 1 ELSE 0

(* Output waits only while writing is on, and behind a closed write side    *)
(* there is none and writing stays off.                                     *)
OutputWaits ==
  Open /\ ~late =>
    /\ outputBuffer # <<>> => IsWriting(events)
    /\ writeShut => outputBuffer = <<>> /\ ~IsWriting(events)

(* What has ended the process.                                              *)
Stops ==
  /\ stopped # "close_assertion"
  /\ stopped = "destructor_assertion" => server = "gone" \/ late

ConnInv ==
  /\ Typed /\ Fresh /\ EstablishedOnce /\ Ordered(work) /\ Registration
  /\ AfterTheEnd /\ OutputWaits /\ StreamIntact /\ Stops

-----------------------------------------------------------------------------
(* sendInLoop.                                                              *)

LEMMA PayloadTyped ==
  ASSUME NEW m \in Msgs
  PROVE  Payload(m) \in Seq(Units) /\ Len(Payload(m)) = Size
<1>1. Size \in Nat
  BY SizeAssumption
<1>2. ASSUME NEW i \in 1 .. Size PROVE (IF m \in freed THEN <<Junk, i>> ELSE <<m, i>>) \in Units
  <2>1. <<Junk, i>> \in Units /\ <<m, i>> \in Units
    BY DEF Units
  <2> QED BY <2>1, Zenon
<1> QED BY <1>1, <1>2 DEF Payload

(* A string in two parts.                                                   *)
LEMMA SplitAt ==
  ASSUME NEW bytes \in Seq(Units), NEW n \in 0 .. Len(bytes)
  PROVE  /\ SubSeq(bytes, 1, n) \in Seq(Units)
         /\ SubSeq(bytes, n + 1, Len(bytes)) \in Seq(Units)
         /\ SubSeq(bytes, 1, n) \o SubSeq(bytes, n + 1, Len(bytes)) = bytes
         /\ Len(SubSeq(bytes, n + 1, Len(bytes))) = Len(bytes) - n
         /\ n = 0 => /\ SubSeq(bytes, 1, n) = <<>>
                     /\ SubSeq(bytes, n + 1, Len(bytes)) = bytes
<1>1. Len(bytes) \in Nat /\ n \in Nat
  OBVIOUS
<1>2. \A i \in 1 .. Len(bytes) : bytes[i] \in Units
  OBVIOUS
<1>3. SubSeq(bytes, 1, n) \in Seq(Units)
  BY <1>1, <1>2, SubSeqProperties
<1>4. /\ SubSeq(bytes, n + 1, Len(bytes)) \in Seq(Units)
      /\ Len(SubSeq(bytes, n + 1, Len(bytes))) = Len(bytes) - n
  BY <1>1, <1>2, SubSeqProperties
<1>5. SubSeq(bytes, 1, n) \o SubSeq(bytes, n + 1, Len(bytes)) = SubSeq(bytes, 1, Len(bytes))
  <2>1. 1 \in 1 .. Len(bytes) + 1 /\ n \in 1 - 1 .. Len(bytes) /\ Len(bytes) \in n .. Len(bytes)
    BY <1>1
  <2> QED BY <2>1, ConcatAdjacentSubSeq
<1>6. SubSeq(bytes, 1, Len(bytes)) = bytes
  BY SubSeqFull
<1>7. n = 0 => SubSeq(bytes, 1, n) = <<>>
  BY SubSeqEmpty
<1>8. n = 0 => SubSeq(bytes, n + 1, Len(bytes)) = bytes
  BY <1>6
<1> QED BY <1>3, <1>4, <1>5, <1>6, <1>7, <1>8, Zenon

(* What sendInLoop does to an open connection: a part is written, the rest  *)
(* is buffered.                                                             *)
Sent(bytes, queue, n, fault) ==
  LET rest == IF fault THEN <<>> ELSE SubSeq(bytes, n + 1, Len(bytes))
  IN  /\ fault => n = 0 /\ WritesDirectly
      /\ n # 0 => WritesDirectly
      /\ WritesDirectly /\ writeShut => fault
      /\ wire' = wire \o SubSeq(bytes, 1, n)
      /\ accepted' = IF fault THEN accepted ELSE accepted \o bytes
      /\ outputBuffer' = outputBuffer \o rest
      /\ pending' = queue \o HighWater(Len(rest))
                      \o (IF n = Len(bytes) THEN <<Functor("writeComplete")>> ELSE <<>>)
      /\ IF Arms(rest) THEN ChannelUpdate(EnableWriting(events))
                       ELSE UNCHANGED channelVars
      /\ UNCHANGED writeShut

(* What sendInLoop does, by how much of the data the kernel takes.          *)
LEMMA SendParts ==
  ASSUME NEW bytes \in Seq(Units), Len(bytes) = Size, NEW queue,
         state # "kDisconnected", SendInLoop(bytes, queue)
  PROVE  \E n \in 0 .. Len(bytes), fault \in BOOLEAN : Sent(bytes, queue, n, fault)
<1>1. Len(bytes) \in Nat /\ Len(bytes) > 0
  BY SizeAssumption, SMTT(60)
<1> DEFINE results == IF WritesDirectly THEN WriteResults(Len(bytes))
                      ELSE {[n |-> 0, fault |-> FALSE]}
<1>2. PICK r \in results :
        LET rest == IF r.fault \/ r.n = Len(bytes) THEN <<>> ELSE Rest(bytes, r.n)
        IN  /\ wire' = wire \o SubSeq(bytes, 1, r.n)
            /\ accepted' = IF r.fault THEN accepted ELSE accepted \o bytes
            /\ outputBuffer' = outputBuffer \o rest
            /\ pending' = queue \o HighWater(Len(rest))
                            \o (IF r.n = Len(bytes)
                                THEN <<Functor("writeComplete")>> ELSE <<>>)
            /\ IF Arms(rest) THEN ChannelUpdate(EnableWriting(events))
                             ELSE UNCHANGED channelVars
            /\ UNCHANGED writeShut
  BY DEF SendInLoop
<1>3. /\ r.n \in 0 .. Len(bytes) /\ r.fault \in BOOLEAN
      /\ r.fault => r.n = 0 /\ WritesDirectly
      /\ r.n # 0 => WritesDirectly
      /\ WritesDirectly /\ writeShut => r.fault
  <2>1. CASE WritesDirectly
    <3>1. r \in WriteResults(Len(bytes))
      BY <2>1
    <3>2. CASE ~writeShut /\ \E k \in 0 .. Len(bytes) : r = [n |-> k, fault |-> FALSE]
      BY <2>1, <3>2
    <3>3. CASE r = [n |-> 0, fault |-> TRUE]
      BY <1>1, <2>1, <3>3
    <3> QED BY <3>1, <3>2, <3>3 DEF WriteResults
  <2>2. CASE ~WritesDirectly
    <3>1. r = [n |-> 0, fault |-> FALSE]
      BY <2>2
    <3> QED BY <1>1, <2>2, <3>1
  <2> QED BY <2>1, <2>2
<1>4. (IF r.fault \/ r.n = Len(bytes) THEN <<>> ELSE Rest(bytes, r.n))
        = IF r.fault THEN <<>> ELSE SubSeq(bytes, r.n + 1, Len(bytes))
  <2>1. ~r.fault /\ r.n = Len(bytes) => SubSeq(bytes, r.n + 1, Len(bytes)) = <<>>
    BY <1>1, SubSeqEmpty
  <2> QED BY <1>3, <2>1 DEF Rest
<1>5. Sent(bytes, queue, r.n, r.fault)
  BY <1>2, <1>3, <1>4, Zenon DEF Sent
<1> QED BY <1>3, <1>5

(* Concatenation of units is associative.                                   *)
LEMMA Regroup ==
  \A a, b, c \in Seq(Units) : (a \o b) \o c = a \o (b \o c)
<1>1. SUFFICES ASSUME NEW a \in Seq(Units), NEW b \in Seq(Units), NEW c \in Seq(Units)
               PROVE  (a \o b) \o c = a \o (b \o c)
  OBVIOUS
<1> QED BY ConcatAssociative

(* However much a direct write takes, the rest goes behind the buffer       *)
(* (TcpConnection.cpp:143-185).                                             *)
LEMMA SentKeepsStream ==
  ASSUME Typed, StreamIntact, NEW bytes \in Seq(Units), NEW queue,
         NEW n \in 0 .. Len(bytes), NEW fault \in BOOLEAN,
         Sent(bytes, queue, n, fault)
  PROVE  /\ StreamIntact'
         /\ outputBuffer' \in Seq(Units) /\ wire' \in Seq(Units) /\ accepted' \in Seq(Units)
<1> DEFINE x == SubSeq(bytes, 1, n)
           y == SubSeq(bytes, n + 1, Len(bytes))
<1>1. /\ x \in Seq(Units) /\ y \in Seq(Units) /\ x \o y = bytes
      /\ n = 0 => x = <<>>
  BY SplitAt
<1>2. /\ wire' = wire \o x
      /\ accepted' = IF fault THEN accepted ELSE accepted \o bytes
      /\ outputBuffer' = outputBuffer \o (IF fault THEN <<>> ELSE y)
      /\ fault => n = 0
      /\ n # 0 => outputBuffer = <<>>
  BY DEF Sent, WritesDirectly
<1> HIDE DEF x, y
<1>0. outputBuffer \in Seq(Units) /\ wire \in Seq(Units)
  BY DEF Typed
<1>3. outputBuffer \in Seq(Units) /\ wire \in Seq(Units) /\ accepted \in Seq(Units)
      /\ accepted = wire \o outputBuffer
  BY DEF Typed, StreamIntact
<1>4. outputBuffer' \in Seq(Units) /\ wire' \in Seq(Units) /\ accepted' \in Seq(Units)
  BY <1>1, <1>2, <1>3
<1>5. CASE fault
  BY <1>1, <1>2, <1>3, <1>5, ConcatEmptySeq DEF StreamIntact
<1>6. CASE ~fault /\ n = 0
  <2>1. y = bytes /\ wire' = wire /\ outputBuffer' = outputBuffer \o y
        /\ accepted' = (wire \o outputBuffer) \o bytes
    BY <1>1, <1>2, <1>3, <1>6, ConcatEmptySeq
  <2>2. (wire \o outputBuffer) \o y = wire \o (outputBuffer \o y)
    <3>1. y \in Seq(Units)
      BY <1>1
    <3> QED BY <1>0, <3>1, Regroup, ZenonT(60)
  <2>3. wire' \o outputBuffer' = accepted'
    BY <2>1, <2>2
  <2> QED BY <1>4, <2>3 DEF StreamIntact
<1>7. CASE ~fault /\ n # 0
  <2>1. outputBuffer = <<>> /\ accepted = wire
    BY <1>2, <1>3, <1>7, ConcatEmptySeq
  <2>2. outputBuffer' = y /\ accepted' = wire \o bytes
    BY <1>1, <1>2, <1>7, <2>1, ConcatEmptySeq
  <2>3. (wire \o x) \o y = wire \o (x \o y)
    <3>1. x \in Seq(Units) /\ y \in Seq(Units)
      BY <1>1
    <3> QED BY <1>0, <3>1, Regroup, ZenonT(60)
  <2>4. wire' \o outputBuffer' = accepted'
    BY <1>1, <1>2, <2>2, <2>3
  <2> QED BY <1>4, <2>4 DEF StreamIntact
<1> QED BY <1>4, <1>5, <1>6, <1>7

(* The functors sendInLoop queues are the user's.                           *)
LEMMA SentQueues ==
  ASSUME NEW bytes \in Seq(Units), NEW queue \in Seq(Functors),
         NEW n, NEW fault, Sent(bytes, queue, n, fault)
  PROVE  pending' \in Seq(Functors) /\ Kinds(pending') \subseteq Kinds(queue) \cup UserKinds
<1> DEFINE rest == IF fault THEN <<>> ELSE SubSeq(bytes, n + 1, Len(bytes))
           h == HighWater(Len(rest))
           c == IF n = Len(bytes) THEN <<Functor("writeComplete")>> ELSE <<>>
<1>1. pending' = (queue \o h) \o c
  BY DEF Sent
<1>2. <<>> \in Seq(Functors) /\ Kinds(<<>>) = {}
  BY DEF Kinds
<1>3. \A kind \in UserKinds :
        <<Functor(kind)>> \in Seq(Functors) /\ Kinds(<<Functor(kind)>>) = {kind}
  BY FunctorFacts DEF Kinds, UserKinds, AllKinds, Owning
<1>4. /\ h \in Seq(Functors) /\ Kinds(h) \subseteq UserKinds
      /\ c \in Seq(Functors) /\ Kinds(c) \subseteq UserKinds
  BY <1>2, <1>3 DEF HighWater, UserKinds
<1> HIDE DEF h, c
<1>5. queue \o h \in Seq(Functors) /\ Kinds(queue \o h) = Kinds(queue) \cup Kinds(h)
  BY <1>4, KindsOfConcat
<1>6. /\ (queue \o h) \o c \in Seq(Functors)
      /\ Kinds((queue \o h) \o c) = Kinds(queue \o h) \cup Kinds(c)
  BY <1>4, <1>5, KindsOfConcat
<1> QED BY <1>1, <1>4, <1>5, <1>6

-----------------------------------------------------------------------------
(* The initial state and the steps, one lemma for each kind.                *)

LEMMA ConnInitially == Init => ConnInv
<1> SUFFICES ASSUME Init PROVE ConnInv
  OBVIOUS
<1> DEFINE f == Functor("conneectEstableished")
<1>1. f \in Functors /\ f.kind = "conneectEstableished"
  BY FunctorFacts DEF AllKinds, Owning
<1> HIDE DEF f
<1>2. /\ <<f>> \in Seq(Functors) /\ <<f>> # <<>> /\ Head(<<f>>) = f /\ Tail(<<f>>) = <<>>
      /\ Kinds(<<>>) = {} /\ Kinds(<<f>>) = {f.kind}
  BY <1>1 DEF Kinds
<1>3. pending = <<f>>
  BY DEF Init, f
<1>4. StepsIn(<<>>) = {} /\ Ordered(<<>>) /\ <<>> \in Seq(Steps) /\ <<>> \in Seq(Units)
  BY DEF StepsIn, Ordered
<1>5. Typed
  BY <1>2, <1>3, <1>4 DEF Init, Typed, States, kNoneEvent
<1>6. Fresh /\ EstablishedOnce
  BY <1>1, <1>2, <1>3 DEF Init, Fresh, EstablishedOnce, kNoneEvent
<1>7. Ordered(work) /\ Registration
  BY <1>4 DEF Init, Registration, Open
<1>8. AfterTheEnd
  BY <1>1, <1>2, <1>3, <1>4 DEF Init, AfterTheEnd
<1>9. OutputWaits /\ StreamIntact /\ Stops
  BY <1>4, ConcatEmptySeq DEF Init, OutputWaits, Open, StreamIntact, Stops
<1> QED BY <1>5, <1>6, <1>7, <1>8, <1>9 DEF ConnInv

(* Steps that touch nothing the invariant speaks of but what ended the      *)
(* process.                                                                 *)
LEMMA Untouched ==
  ASSUME ConnInv, Stops',
         UNCHANGED <<state, events, added, outputBuffer, pending, work, caller,
                     server, removals, writeShut, accepted, wire, downs, late>>
  PROVE  ConnInv'
<1>1. Typed' /\ Fresh' /\ EstablishedOnce' /\ Ordered(work')
  BY DEF ConnInv, Typed, Fresh, EstablishedOnce
<1>2. Registration' /\ AfterTheEnd'
  BY DEF ConnInv, Registration, Open, AfterTheEnd, Over
<1>3. OutputWaits' /\ StreamIntact'
  BY DEF ConnInv, OutputWaits, Open, StreamIntact
<1> QED BY <1>1, <1>2, <1>3 DEF ConnInv

(* Steps that only take work or functors away, add user code, sends and     *)
(* shutdowns, or move a caller.                                             *)
LEMMA Quiet ==
  ASSUME ConnInv, Stops', state # "kConnecting",
         UNCHANGED <<state, events, added, outputBuffer, server, removals,
                     writeShut, accepted, wire, downs, late>>,
         work' \in Seq(Steps), Ordered(work'),
         StepsIn(work') \subseteq StepsIn(work) \cup {"user"},
         pending' \in Seq(Functors),
         Kinds(pending') \subseteq Kinds(pending) \cup UserKinds \cup {"send", "shutdown"},
         caller' \in [Callers -> {"out", "checked", "set"} \cup Msgs]
  PROVE  ConnInv'
<1>1. Typed'
  BY DEF ConnInv, Typed
<1>2. Fresh' /\ EstablishedOnce'
  BY DEF ConnInv, Fresh, EstablishedOnce, UserKinds
<1>3. Registration'
  BY DEF ConnInv, Registration, Open, ReadBits, Closers
<1>4. AfterTheEnd'
  BY DEF ConnInv, AfterTheEnd, Over, UserKinds
<1>5. OutputWaits' /\ StreamIntact'
  BY DEF ConnInv, OutputWaits, Open, StreamIntact
<1> QED BY <1>1, <1>2, <1>3, <1>4, <1>5 DEF ConnInv

(* A connection with something to do has been established.                  *)
LEMMA Begun ==
  ASSUME ConnInv
  PROVE  /\ work # <<>> => state # "kConnecting"
         /\ \A kind : NextIs(kind) /\ kind # "conneectEstableished"
                        => state # "kConnecting"
         /\ \A t \in Callers : caller[t] # "out" => state # "kConnecting"
         /\ added => state # "kConnecting"
         /\ removals > 0 => state # "kConnecting"
BY DEF ConnInv, Fresh, NextIs, Typed

(* The step the loop's thread is at, and what is left behind it.            *)
LEMMA AtWork ==
  ASSUME ConnInv, NEW step, Doing(step)
  PROVE  /\ work # <<>> /\ work \in Seq(Steps) /\ Head(work) = step
         /\ Tail(work) \in Seq(Steps) /\ Ordered(Tail(work))
         /\ StepsIn(Tail(work)) \subseteq StepsIn(work) /\ step \in StepsIn(work)
         /\ step # "error" => StepsIn(Tail(work)) \cap Closers = {}
         /\ step # "user" => /\ "closeCallback" \notin StepsIn(Tail(work))
                             /\ "remove" \notin StepsIn(Tail(work))
         /\ step = "remove" => Tail(work) = <<>>
         /\ state # "kConnecting"
         /\ step \in {"read", "close", "write"} =>
              StepsIn(Tail(work)) \subseteq {"error", "write", "user"}
<1>1. work # <<>> /\ work \in Seq(Steps) /\ Head(work) = step /\ Ordered(work)
  BY DEF ConnInv, Typed, Doing
<1>2. /\ Tail(work) \in Seq(Steps) /\ Ordered(Tail(work))
      /\ StepsIn(Tail(work)) \subseteq StepsIn(work) /\ step \in StepsIn(work)
      /\ step # "error" => StepsIn(Tail(work)) \cap Closers = {}
      /\ step # "user" => /\ "closeCallback" \notin StepsIn(Tail(work))
                          /\ "remove" \notin StepsIn(Tail(work))
      /\ step = "remove" => Tail(work) = <<>>
  BY <1>1, OrderedTail
<1>3. StepsIn(Tail(work)) \subseteq Steps
  BY <1>2 DEF StepsIn
<1>4. step \in {"read", "close", "write"} =>
        StepsIn(Tail(work)) \subseteq {"error", "write", "user"}
  BY <1>2, <1>3 DEF Steps, Closers
<1>5. state # "kConnecting"
  BY <1>1, Begun
<1> QED BY <1>1, <1>2, <1>4, <1>5

(* The functor that is next, and what is queued behind it.                  *)
LEMMA AtFunctor ==
  ASSUME ConnInv, NEW kind, NextIs(kind)
  PROVE  /\ work = <<>> /\ pending \in Seq(Functors) /\ pending # <<>>
         /\ Tail(pending) \in Seq(Functors) /\ Head(pending) \in Functors
         /\ Kinds(Tail(pending)) \subseteq Kinds(pending) /\ kind \in Kinds(pending)
         /\ kind # "conneectEstableished" => state # "kConnecting"
<1>1. /\ work = <<>> /\ pending \in Seq(Functors) /\ pending # <<>>
      /\ Head(pending).kind = kind
  BY DEF ConnInv, Typed, NextIs
<1>2. /\ Tail(pending) \in Seq(Functors) /\ Head(pending) \in Functors
      /\ Kinds(Tail(pending)) \subseteq Kinds(pending) /\ kind \in Kinds(pending)
  BY <1>1, KindsOfTail
<1> QED BY <1>1, <1>2, Begun

(* No process that runs has been ended.                                     *)
LEMMA RunningStops ==
  Running => Stops /\ (UNCHANGED stopped => Stops')
BY DEF Running, Stops

(* Handlers and user code that only use up work, or run the message         *)
(* callback.                                                                *)
LEMMA QuietWork ==
  ASSUME ConnInv,
         HandleReadData \/ HandleError \/ WriteNothing \/ UserReturn
  PROVE  ConnInv'
<1>1. /\ pending \in Seq(Functors) /\ Stops
      /\ caller \in [Callers -> {"out", "checked", "set"} \cup Msgs]
  BY DEF ConnInv, Typed
<1>2. ASSUME HandleError \/ WriteNothing \/ UserReturn PROVE ConnInv'
  <2>1. PICK step \in Steps : Doing(step)
    BY <1>2 DEF HandleError, WriteNothing, UserReturn, Steps
  <2>2. work' = Tail(work) /\ Stops'
        /\ UNCHANGED <<state, events, added, outputBuffer, server, removals,
                       writeShut, accepted, wire, downs, late, pending, caller>>
    BY <1>1, <1>2 DEF HandleError, WriteNothing, UserReturn, channelVars, outVars,
                 serverVars, envVars, Stops
  <2>3. /\ Tail(work) \in Seq(Steps) /\ Ordered(Tail(work))
        /\ StepsIn(Tail(work)) \subseteq StepsIn(work) /\ state # "kConnecting"
    BY <2>1, AtWork
  <2> QED BY <1>1, <2>2, <2>3, Quiet
<1>3. ASSUME HandleReadData PROVE ConnInv'
  <2>1. Doing("read") /\ work' = <<"user">> \o Tail(work) /\ Stops'
        /\ UNCHANGED <<state, events, added, outputBuffer, server, removals,
                       writeShut, accepted, wire, downs, late, pending, caller>>
    BY <1>1, <1>3 DEF HandleReadData, channelVars, outVars, serverVars, envVars, Stops
  <2>2. /\ Tail(work) \in Seq(Steps) /\ StepsIn(Tail(work)) \subseteq {"error", "write", "user"}
        /\ StepsIn(Tail(work)) \subseteq StepsIn(work) /\ state # "kConnecting"
    BY <2>1, AtWork
  <2> DEFINE w == <<"user">> \o Tail(work)
  <2>3. /\ w \in Seq(Steps) /\ Ordered(w)
        /\ StepsIn(w) \subseteq StepsIn(Tail(work)) \cup {"user", "closeCallback"}
        /\ "closeCallback" \notin StepsIn(w)
    BY <2>2, OrderedPush
  <2>4. StepsIn(w) \subseteq StepsIn(work) \cup {"user"}
    BY <2>2, <2>3
  <2>5. w = work'
    BY <2>1
  <2> HIDE DEF w
  <2>6. work' \in Seq(Steps) /\ Ordered(work') /\ StepsIn(work') \subseteq StepsIn(work) \cup {"user"}
    BY <2>3, <2>4, <2>5
  <2> QED BY <1>1, <2>1, <2>2, <2>6, Quiet
<1> QED BY <1>2, <1>3

(* The user's functors, and functors bound to what no longer is.            *)
LEMMA QuietFunctors ==
  ASSUME ConnInv, UserFunctor \/ RunsOnDead
  PROVE  ConnInv'
<1>1. Stops /\ caller \in [Callers -> {"out", "checked", "set"} \cup Msgs]
      /\ work \in Seq(Steps) /\ Ordered(work) /\ pending \in Seq(Functors)
  BY DEF ConnInv, Typed
<1>2. PICK kind \in {"writeComplete", "highWaterMark", "send", "shutdown"} : NextIs(kind)
  BY DEF UserFunctor, RunsOnDead
<1>3. /\ state # "kConnecting" /\ Tail(pending) \in Seq(Functors)
      /\ Kinds(Tail(pending)) \subseteq Kinds(pending)
  BY <1>2, AtFunctor
<1>4. UNCHANGED <<state, events, added, outputBuffer, server, removals,
                  writeShut, accepted, wire, downs, late, caller>>
  BY DEF UserFunctor, RunsOnDead, channelVars, outVars, serverVars, envVars
<1>5. Stops'
  BY <1>1 DEF UserFunctor, RunsOnDead, Stops, serverVars, envVars
<1>6. CASE UserFunctor
  <2>1. work' = <<"user">> /\ pending' = Tail(pending)
    BY <1>6 DEF UserFunctor
  <2>2. work' \in Seq(Steps) /\ Ordered(work') /\ StepsIn(work') = {"user"}
    BY <2>1, OrderedFew
  <2> QED BY <1>1, <1>3, <1>4, <1>5, <2>1, <2>2, Quiet
<1>7. CASE RunsOnDead
  BY <1>1, <1>3, <1>4, <1>5, <1>7, Quiet DEF RunsOnDead
<1> QED BY <1>6, <1>7

(* The steps of other threads but the store of kDisconnecting.              *)
LEMMA QuietCallers ==
  ASSUME ConnInv, NEW t \in Callers,
         \/ \E m \in Msgs : CallSend(t, m)
         \/ CallShutdown(t) \/ QueueSend(t) \/ QueueShutdown(t)
  PROVE  ConnInv'
<1>1. /\ Stops /\ caller \in [Callers -> {"out", "checked", "set"} \cup Msgs]
      /\ work \in Seq(Steps) /\ Ordered(work) /\ pending \in Seq(Functors)
  BY DEF ConnInv, Typed
<1>2. UNCHANGED <<state, events, added, outputBuffer, server, removals,
                  writeShut, accepted, wire, downs, late, work, stopped>>
  BY DEF CallSend, CallShutdown, QueueSend, QueueShutdown, channelVars, outVars,
         serverVars, envVars
<1>3. PICK from, to \in {"out", "checked", "set"} \cup Msgs : CallerGo(t, from, to)
  BY DEF CallSend, CallShutdown, QueueSend, QueueShutdown
<1>4. Stops' /\ caller' \in [Callers -> {"out", "checked", "set"} \cup Msgs]
  BY <1>1, <1>2, <1>3 DEF CallerGo, Stops
<1>5. state # "kConnecting"
  <2>1. CASE (\E m \in Msgs : CallSend(t, m)) \/ CallShutdown(t)
    BY <2>1 DEF CallSend, CallShutdown
  <2>2. CASE QueueSend(t) \/ QueueShutdown(t)
    <3>1. caller[t] # "out"
      BY <2>2, MsgAssumption DEF QueueSend, QueueShutdown, CallerGo
    <3> QED BY <3>1, Begun
  <2> QED BY <2>1, <2>2
<1>6. /\ pending' \in Seq(Functors)
      /\ Kinds(pending') \subseteq Kinds(pending) \cup {"send", "shutdown"}
  <2>1. CASE (\E m \in Msgs : CallSend(t, m)) \/ CallShutdown(t)
    BY <1>1, <2>1 DEF CallSend, CallShutdown
  <2>2. ASSUME NEW f \in Functors, f.kind \in {"send", "shutdown"},
               pending' = Append(pending, f)
        PROVE  /\ pending' \in Seq(Functors)
               /\ Kinds(pending') \subseteq Kinds(pending) \cup {"send", "shutdown"}
    BY <1>1, <2>2, KindsOfAppend
  <2>3. CASE QueueSend(t)
    BY <2>2, <2>3, FunctorFacts DEF QueueSend
  <2>4. CASE QueueShutdown(t)
    BY <2>2, <2>4, FunctorFacts DEF QueueShutdown, AllKinds
  <2> QED BY <2>1, <2>3, <2>4
<1> QED BY <1>1, <1>2, <1>4, <1>5, <1>6, Quiet

(* The poll finds a registered channel, whose connection is open.           *)
LEMMA EventKeeps ==
  ASSUME ConnInv, NEW revents, HandleEvent(revents)
  PROVE  ConnInv'
<1>1. /\ work' = Callbacks(revents) /\ added /\ stopped = "no"
      /\ UNCHANGED <<state, events, added, outputBuffer, pending, caller, server,
                     removals, writeShut, accepted, wire, downs, late, stopped>>
  BY DEF HandleEvent, Running, channelVars, outVars, serverVars, envVars
<1>2. /\ work' \in Seq(Steps) /\ Ordered(work')
      /\ StepsIn(work') \subseteq {"close", "error", "read", "write"}
  BY <1>1, OrderedCallbacks
<1>3. state # "kConnecting"
  BY <1>1, Begun
<1>4. Typed' /\ Fresh' /\ EstablishedOnce'
  BY <1>1, <1>2, <1>3 DEF ConnInv, Typed, Fresh, EstablishedOnce
<1>5. Registration'
  BY <1>1, <1>2 DEF ConnInv, Registration, Open
<1>6. AfterTheEnd'
  BY <1>1, <1>2 DEF ConnInv, AfterTheEnd, Over
<1>7. OutputWaits' /\ StreamIntact' /\ Stops'
  BY <1>1 DEF ConnInv, OutputWaits, Open, StreamIntact, Stops
<1> QED BY <1>2, <1>4, <1>5, <1>6, <1>7 DEF ConnInv

(* handleClose finds an open connection: its assertion holds.               *)
LEMMA PeerCloseKeeps ==
  ASSUME ConnInv, HandlePeerClose
  PROVE  ConnInv'
<1>1. PICK step \in {"read", "close"} : Doing(step)
  BY DEF HandlePeerClose
<1>2. /\ Tail(work) \in Seq(Steps) /\ step \in StepsIn(work)
      /\ StepsIn(Tail(work)) \subseteq {"error", "write", "user"}
  BY <1>1, AtWork
<1>3. added /\ Open
  BY <1>1, <1>2 DEF ConnInv, Registration, Closers
<1>4. /\ state' = "kDisconnected" /\ events' = {} /\ added' = FALSE /\ downs' = downs + 1
      /\ work' = <<"user", "closeCallback">> \o Tail(work)
      /\ UNCHANGED <<stopped, pending, caller, outputBuffer, writeShut, accepted,
                     wire, server, removals, late>>
  <2>1. /\ state \in {"kConnected", "kDisconnecting"} /\ HandleClose
        /\ UNCHANGED <<pending, caller, outputBuffer, writeShut, accepted,
                       wire, server, removals, late>>
    BY <1>3 DEF Open, HandlePeerClose, outVars, serverVars, envVars
  <2>2. /\ state' = StateAfterClose /\ ChannelUpdate(MaskAfterClose)
        /\ downs' = downs + 1 /\ UNCHANGED stopped
        /\ work' = <<"user", "closeCallback">> \o Tail(work)
    BY <2>1, Zenon DEF HandleClose, AfterClose
  <2> QED BY <1>3, <2>1, <2>2 DEF StateAfterClose, MaskAfterClose, ChannelUpdate, Registered,
                 IsNoneEvent, kNoneEvent
<1> DEFINE w == <<"user", "closeCallback">> \o Tail(work)
<1>5. /\ w \in Seq(Steps) /\ Ordered(w)
      /\ StepsIn(w) \subseteq StepsIn(Tail(work)) \cup {"user", "closeCallback"}
  BY <1>2, OrderedPush
<1>6. w = work'
  BY <1>4
<1> HIDE DEF w
<1>7. /\ work' \in Seq(Steps) /\ Ordered(work')
      /\ StepsIn(work') \subseteq {"error", "write", "user", "closeCallback"}
  BY <1>2, <1>5, <1>6
<1>8. Typed'
  <2>1. Typed /\ downs \in Nat /\ state' \in States
    BY <1>4 DEF ConnInv, Typed, States
  <2>2. downs' \in Nat
    <3>1. downs' = downs + 1 /\ downs \in Nat
      BY <1>4, <2>1
    <3> QED BY <3>1
  <2>3. events' \subseteq EpollBits /\ added' \in BOOLEAN
    BY <1>4
  <2> QED BY <1>4, <1>7, <2>1, <2>2, <2>3 DEF Typed
<1>9. Fresh' /\ EstablishedOnce'
  BY <1>3, <1>4 DEF ConnInv, Fresh, EstablishedOnce, Open
<1>10. Registration'
  BY <1>4, <1>7 DEF Registration, Open, Closers
<1>11. AfterTheEnd'
  <2>1. state \in {"kConnected", "kDisconnecting"} /\ AfterTheEnd
    BY <1>3 DEF ConnInv, Open
  <2>2. /\ ~late => downs = 0
        /\ removals > 0 => late
        /\ removals \in Nat /\ (removals <= 1 \/ late)
    BY <2>1 DEF ConnInv, Typed, AfterTheEnd, Over
  <2>3. Over'
    BY <1>4 DEF Over
  <2>4. ~late' => downs' = 1
    BY <1>4, <2>2
  <2>5. /\ "closeCallback" \in StepsIn(work') => removals' = 0 \/ late'
        /\ removals' <= 1 \/ late'
    BY <1>4, <2>2
  <2> QED BY <1>4, <2>3, <2>4, <2>5 DEF AfterTheEnd
<1>12. OutputWaits' /\ StreamIntact' /\ Stops'
  BY <1>4 DEF ConnInv, OutputWaits, Open, StreamIntact, Stops
<1> QED BY <1>7, <1>8, <1>9, <1>10, <1>11, <1>12 DEF ConnInv

(* The server is told after the end, and has not been told before.          *)
LEMMA CloseCallbackKeeps ==
  ASSUME ConnInv, CloseCallback
  PROVE  ConnInv'
<1>1. /\ Tail(work) \in Seq(Steps) /\ Ordered(Tail(work)) /\ state # "kConnecting"
      /\ StepsIn(Tail(work)) \subseteq StepsIn(work)
      /\ "closeCallback" \in StepsIn(work)
      /\ "closeCallback" \notin StepsIn(Tail(work)) /\ "remove" \notin StepsIn(Tail(work))
  BY AtWork DEF CloseCallback
<1>2. /\ work' = Tail(work)
      /\ UNCHANGED <<state, events, added, pending, caller, downs, outputBuffer,
                     writeShut, accepted, wire, server, late>>
      /\ \/ removals' = removals + 1 /\ UNCHANGED stopped
         \/ stopped' = "server_gone" /\ UNCHANGED removals
  BY DEF CloseCallback, channelVars, outVars, envVars
<1>3. removals \in Nat
  BY DEF ConnInv, Typed
<1>4. Typed' /\ Fresh' /\ EstablishedOnce'
  BY <1>1, <1>2 DEF ConnInv, Typed, Fresh, EstablishedOnce
<1>5. Registration'
  BY <1>1, <1>2 DEF ConnInv, Registration, Open, ReadBits, Closers
<1>6. AfterTheEnd'
  BY <1>1, <1>2, <1>3 DEF ConnInv, AfterTheEnd, Over
<1>7. OutputWaits' /\ StreamIntact' /\ Stops'
  BY <1>2 DEF ConnInv, OutputWaits, Open, StreamIntact, Stops
<1> QED BY <1>1, <1>2, <1>4, <1>5, <1>6, <1>7 DEF ConnInv

(* The last step of conneectDestroyed takes the channel away.               *)
LEMMA RemoveKeeps ==
  ASSUME ConnInv, Remove
  PROVE  ConnInv'
<1>1. Tail(work) = <<>> /\ state # "kConnecting" /\ "remove" \in StepsIn(work)
  BY AtWork DEF Remove
<1>2. /\ work' = <<>> /\ added' = FALSE
      /\ UNCHANGED <<state, events, pending, caller, downs, outputBuffer, removals,
                     writeShut, accepted, wire, server, late, stopped>>
  BY <1>1 DEF Remove, outVars, serverVars, envVars
<1>3. StepsIn(<<>>) = {} /\ Ordered(<<>>) /\ <<>> \in Seq(Steps)
  BY DEF StepsIn, Ordered
<1>4. Typed' /\ Fresh' /\ EstablishedOnce' /\ Ordered(work')
  BY <1>1, <1>2, <1>3 DEF ConnInv, Typed, Fresh, EstablishedOnce
<1>5. Registration'
  BY <1>1, <1>2, <1>3 DEF ConnInv, Registration, AfterTheEnd, Over, Open, ReadBits
<1>6. AfterTheEnd'
  BY <1>2, <1>3 DEF ConnInv, AfterTheEnd, Over
<1>7. OutputWaits' /\ StreamIntact' /\ Stops'
  BY <1>2 DEF ConnInv, OutputWaits, Open, StreamIntact, Stops
<1> QED BY <1>4, <1>5, <1>6, <1>7 DEF ConnInv

(* conneectEstableished runs once, on a connection to which nothing else    *)
(* has happened.                                                            *)
LEMMA EstablishedKeeps ==
  ASSUME ConnInv, Established
  PROVE  ConnInv'
<1>1. /\ NextIs("conneectEstableished") /\ pending' = Tail(pending)
      /\ state' = "kConnected" /\ ChannelUpdate(EnableReading(events))
      /\ work' = <<"user">>
      /\ UNCHANGED <<caller, stopped, downs, outputBuffer, writeShut, accepted, wire,
                     server, removals, late>>
  BY DEF Established, outVars, serverVars, envVars
<1>2. /\ pending # <<>> /\ Tail(pending) \in Seq(Functors)
      /\ Kinds(Tail(pending)) \subseteq Kinds(pending)
      /\ "conneectEstableished" \in Kinds(pending)
  BY <1>1, AtFunctor
<1>3. state = "kConnecting"
  BY <1>2 DEF ConnInv, EstablishedOnce
<1>4. /\ work = <<>> /\ ~added /\ events = {} /\ outputBuffer = <<>> /\ ~writeShut
      /\ removals = 0 /\ downs = 0 /\ ~late /\ server # "erased"
      /\ Kinds(Tail(pending)) \subseteq {"conneectDestroyed"}
  BY <1>3 DEF ConnInv, Fresh
<1>5. events' = kReadEvent /\ added' = TRUE /\ ReadBits \subseteq events' /\ events' # {}
      /\ events' \subseteq EpollBits
  BY <1>1, <1>4, BitsAssumption, MaskAssumption
     DEF ChannelUpdate, Registered, EnableReading, IsNoneEvent, kNoneEvent, ReadBits
<1>6. work' \in Seq(Steps) /\ Ordered(work') /\ StepsIn(work') = {"user"}
  BY <1>1, OrderedFew
<1>7. Typed'
  BY <1>1, <1>2, <1>5, <1>6 DEF ConnInv, Typed, States
<1>8. Fresh' /\ EstablishedOnce'
  BY <1>1, <1>4 DEF Fresh, EstablishedOnce
<1>9. Registration'
  BY <1>1, <1>5, <1>6 DEF Registration, Open, Closers
<1>10. AfterTheEnd'
  <2>1. "conneectDestroyed" \in Kinds(pending') => server' = "gone"
    BY <1>1, <1>2, <1>3, <1>4 DEF ConnInv, AfterTheEnd, Over
  <2> QED BY <1>1, <1>4, <1>6, <2>1 DEF AfterTheEnd, Over
<1>11. OutputWaits' /\ StreamIntact' /\ Stops'
  BY <1>1, <1>4 DEF ConnInv, OutputWaits, StreamIntact, Stops
<1> QED BY <1>6, <1>7, <1>8, <1>9, <1>10, <1>11 DEF ConnInv

(* conneectDestroyed tells the user of the end only if handleClose has not. *)
LEMMA DestroyedKeeps ==
  ASSUME ConnInv, Destroyed
  PROVE  ConnInv'
<1>1. /\ NextIs("conneectDestroyed") /\ pending' = Tail(pending)
      /\ UNCHANGED <<caller, stopped, outputBuffer, writeShut, accepted, wire,
                     server, removals, late>>
  BY DEF Destroyed, outVars, serverVars, envVars
<1>2. /\ work = <<>> /\ pending # <<>> /\ Tail(pending) \in Seq(Functors)
      /\ Kinds(Tail(pending)) \subseteq Kinds(pending)
      /\ "conneectDestroyed" \in Kinds(pending) /\ state # "kConnecting"
  BY <1>1, AtFunctor
<1>3. Over \/ server = "gone"
  BY <1>2 DEF ConnInv, AfterTheEnd
<1>4. OutputWaits /\ StreamIntact /\ Stops /\ downs \in Nat
  BY DEF ConnInv, Typed
<1>5. CASE state = "kConnected"
  <2>1. /\ state' = "kDisconnected" /\ events' = {} /\ added' = FALSE
        /\ downs' = downs + 1 /\ work' = <<"user", "remove">>
    <3>1. added
      BY <1>5 DEF ConnInv, Registration
    <3> QED BY <1>5, <3>1 DEF Destroyed, EndsHere, ChannelUpdate, Registered, IsNoneEvent,
                   kNoneEvent
  <2>2. work' \in Seq(Steps) /\ Ordered(work') /\ StepsIn(work') \subseteq {"user", "remove"}
    BY <2>1, OrderedFew
  <2>3. downs' \in Nat
    <3>1. downs' = downs + 1 /\ downs \in Nat
      BY <1>4, <2>1
    <3> QED BY <3>1
  <2>4. Typed'
    BY <1>1, <1>2, <2>1, <2>2, <2>3 DEF ConnInv, Typed, States
  <2>5. Fresh' /\ EstablishedOnce'
    BY <1>1, <1>2, <2>1 DEF ConnInv, Fresh, EstablishedOnce
  <2>6. Registration'
    BY <2>1, <2>2 DEF Registration, Open, Closers
  <2>7. AfterTheEnd'
    <3>1. ~late /\ downs = 0 /\ (removals <= 1 \/ late)
      BY <1>5 DEF ConnInv, AfterTheEnd
    <3>2. Over' /\ downs' = 1 /\ "closeCallback" \notin StepsIn(work')
      BY <2>1, <2>2, <3>1 DEF Over
    <3> QED BY <1>1, <2>1, <3>1, <3>2 DEF AfterTheEnd
  <2>8. OutputWaits' /\ StreamIntact' /\ Stops'
    BY <1>1, <1>4, <2>1 DEF OutputWaits, Open, StreamIntact, Stops
  <2> QED BY <2>2, <2>4, <2>5, <2>6, <2>7, <2>8 DEF ConnInv
<1>6. CASE state # "kConnected"
  <2>1. added' = FALSE /\ UNCHANGED <<state, events, downs, work>>
    BY <1>6 DEF Destroyed, EndsHere
  <2>2. Typed' /\ Ordered(work')
    BY <1>1, <1>2, <2>1 DEF ConnInv, Typed
  <2>3. Fresh' /\ EstablishedOnce'
    BY <1>1, <1>2, <2>1 DEF ConnInv, Fresh, EstablishedOnce
  <2>4. Registration'
    <3>1. StepsIn(work) = {}
      BY <1>2 DEF StepsIn
    <3> QED BY <1>1, <1>3, <1>6, <2>1, <3>1 DEF ConnInv, Registration, Over, Open, ReadBits
  <2>5. AfterTheEnd'
    BY <1>1, <1>2, <2>1 DEF ConnInv, AfterTheEnd, Over
  <2>6. OutputWaits' /\ StreamIntact' /\ Stops'
    BY <1>1, <1>4, <2>1 DEF OutputWaits, Open, StreamIntact, Stops
  <2> QED BY <2>2, <2>3, <2>4, <2>5, <2>6 DEF ConnInv
<1> QED BY <1>5, <1>6

(* The store of kDisconnecting: late over any state but the one tested.     *)
LEMMA StoreKeeps ==
  ASSUME ConnInv, NEW t \in Callers, SetDisconnecting(t)
  PROVE  ConnInv'
<1>1. /\ caller[t] = "checked" /\ caller' = [caller EXCEPT ![t] = "set"]
      /\ state' = "kDisconnecting" /\ late' = (late \/ state # "kConnected")
      /\ UNCHANGED <<events, added, pending, work, stopped, downs, outputBuffer,
                     writeShut, accepted, wire, server, removals>>
  BY DEF SetDisconnecting, CallerGo, channelVars, outVars, serverVars
<1>2. state # "kConnecting"
  BY <1>1, Begun
<1>3. Typed'
  BY <1>1 DEF ConnInv, Typed, States
<1>4. Fresh' /\ EstablishedOnce'
  BY <1>1, <1>2 DEF ConnInv, Fresh, EstablishedOnce
<1>5. Registration'
  BY <1>1 DEF ConnInv, Registration, Open, ReadBits
<1>6. AfterTheEnd'
  <2>1. Over => late'
    BY <1>1 DEF Over
  <2>2. ~late' => state = "kConnected" /\ ~late
    BY <1>1
  <2> QED BY <1>1, <2>1, <2>2 DEF ConnInv, AfterTheEnd, Over
<1>7. OutputWaits' /\ StreamIntact' /\ Stops'
  BY <1>1 DEF ConnInv, OutputWaits, Open, StreamIntact, Stops
<1> QED BY <1>1, <1>3, <1>4, <1>5, <1>6, <1>7 DEF ConnInv

(* shutdownInLoop, from the callback of a connected connection or queued.   *)
LEMMA ShutdownKeeps ==
  ASSUME ConnInv, UserShutdown \/ ShutdownFunctorRuns
  PROVE  ConnInv'
<1>1. /\ writeShut' = (writeShut \/ ~IsWriting(events))
      /\ state' = state \/ (state = "kConnected" /\ state' = "kDisconnecting")
      /\ UNCHANGED <<events, added, work, caller, stopped, downs, outputBuffer,
                     accepted, wire, server, removals, late>>
  BY DEF UserShutdown, ShutdownFunctorRuns, ShutdownInLoop, ShutsWrite, channelVars,
         serverVars, envVars
<1>2. /\ state # "kConnecting" /\ pending' \in Seq(Functors)
      /\ Kinds(pending') \subseteq Kinds(pending)
  <2>1. CASE UserShutdown
    BY <2>1 DEF UserShutdown, ConnInv, Typed
  <2>2. CASE ShutdownFunctorRuns
    BY <2>2, AtFunctor DEF ShutdownFunctorRuns
  <2> QED BY <2>1, <2>2
<1>3. Typed'
  BY <1>1, <1>2 DEF ConnInv, Typed, States
<1>4. Fresh' /\ EstablishedOnce'
  BY <1>1, <1>2 DEF ConnInv, Fresh, EstablishedOnce
<1>5. Registration'
  BY <1>1 DEF ConnInv, Registration, Open, ReadBits
<1>6. AfterTheEnd'
  BY <1>1, <1>2 DEF ConnInv, AfterTheEnd, Over
<1>7. OutputWaits'
  BY <1>1 DEF ConnInv, OutputWaits, Open, IsWriting
<1>8. StreamIntact' /\ Stops'
  BY <1>1 DEF ConnInv, StreamIntact, Stops
<1> QED BY <1>1, <1>3, <1>4, <1>5, <1>6, <1>7, <1>8 DEF ConnInv

(* sendInLoop on any string, called or queued.                              *)
LEMMA SendKeeps ==
  ASSUME ConnInv, state # "kConnecting",
         NEW bytes \in Seq(Units), Len(bytes) = Size,
         NEW queue \in Seq(Functors), Kinds(queue) \subseteq Kinds(pending),
         SendInLoop(bytes, queue),
         UNCHANGED <<state, work, caller, stopped, downs, server, removals, late>>
  PROVE  ConnInv'
<1>1. Typed /\ StreamIntact /\ Stops /\ Ordered(work) /\ Ordered(work')
  BY DEF ConnInv
<1>2. CASE state = "kDisconnected"
  <2>1. pending' = queue /\ UNCHANGED <<events, added, outputBuffer, writeShut, accepted, wire>>
    BY <1>2 DEF SendInLoop, channelVars, outVars
  <2>2. Stops'
    BY <1>1 DEF Stops
  <2>3. /\ work' \in Seq(Steps) /\ StepsIn(work') \subseteq StepsIn(work) \cup {"user"}
        /\ caller' \in [Callers -> {"out", "checked", "set"} \cup Msgs]
    BY <1>1 DEF Typed
  <2> QED BY <1>1, <2>1, <2>2, <2>3, Quiet
<1>3. CASE state # "kDisconnected"
  <2>1. PICK n \in 0 .. Len(bytes), fault \in BOOLEAN : Sent(bytes, queue, n, fault)
    BY <1>3, SendParts
  <2>2. /\ StreamIntact'
        /\ outputBuffer' \in Seq(Units) /\ wire' \in Seq(Units) /\ accepted' \in Seq(Units)
    BY <1>1, <2>1, SentKeepsStream
  <2>3. pending' \in Seq(Functors) /\ Kinds(pending') \subseteq Kinds(pending) \cup UserKinds
    BY <2>1, SentQueues
  <2>4. Open
    BY <1>1, <1>3 DEF Typed, States, Open
  <2>5. /\ writeShut' = writeShut
        /\ \/ events' = events /\ added' = added
           \/ events' = events \cup kWriteEvent /\ added' = TRUE
    BY <2>1, BitsAssumption
       DEF Sent, channelVars, ChannelUpdate, Registered, EnableWriting, IsNoneEvent, kNoneEvent
  <2>6. Typed'
    BY <1>1, <2>2, <2>3, <2>5, MaskAssumption DEF Typed
  <2>7. Fresh' /\ EstablishedOnce'
    BY <2>3 DEF ConnInv, Fresh, EstablishedOnce, UserKinds
  <2>8. Registration'
    BY <2>4, <2>5, BitsAssumption DEF ConnInv, Registration, Open, ReadBits
  <2>9. AfterTheEnd'
    BY <2>3 DEF ConnInv, AfterTheEnd, Over, UserKinds
  <2>10. OutputWaits'
    <3> SUFFICES ASSUME Open, ~late
                 PROVE  /\ outputBuffer' # <<>> => IsWriting(events')
                        /\ writeShut' => outputBuffer' = <<>> /\ ~IsWriting(events')
      BY <2>4 DEF OutputWaits, Open
    <3> DEFINE rest == IF fault THEN <<>> ELSE SubSeq(bytes, n + 1, Len(bytes))
    <3>1. /\ WritesDirectly /\ writeShut => fault
          /\ outputBuffer' = outputBuffer \o rest
          /\ IF rest # <<>> /\ ~IsWriting(events)
             THEN events' = events \cup kWriteEvent ELSE events' = events
      BY <2>1 DEF Sent, Arms, channelVars, ChannelUpdate, EnableWriting
    <3>2. /\ outputBuffer # <<>> => IsWriting(events)
          /\ writeShut => outputBuffer = <<>> /\ ~IsWriting(events)
      BY DEF ConnInv, OutputWaits
    <3>3. rest = <<>> => outputBuffer' = outputBuffer
      BY <1>1, <3>1, ConcatEmptySeq DEF Typed
    <3>4. IsWriting(events \cup kWriteEvent)
      BY BitsAssumption DEF IsWriting
    <3>5. writeShut => rest = <<>>
      BY <3>1, <3>2 DEF WritesDirectly
    <3> HIDE DEF rest
    <3> QED BY <2>5, <3>1, <3>2, <3>3, <3>4, <3>5 DEF IsWriting
  <2>11. Stops'
    BY <1>1 DEF Stops
  <2> QED BY <1>1, <2>2, <2>6, <2>7, <2>8, <2>9, <2>10, <2>11 DEF ConnInv
<1> QED BY <1>2, <1>3

(* send from the loop's thread, and a send queued from another.             *)
LEMMA SendsKeep ==
  ASSUME ConnInv, (\E m \in Msgs : UserSend(m)) \/ SendFunctorRuns
  PROVE  ConnInv'
<1>1. pending \in Seq(Functors)
  BY DEF ConnInv, Typed
<1>2. ASSUME NEW m \in Msgs, UserSend(m) PROVE ConnInv'
  <2>1. /\ state # "kConnecting" /\ SendInLoop(Payload(m), pending)
        /\ UNCHANGED <<state, work, caller, stopped, downs, server, removals, late>>
    BY <1>2 DEF UserSend, serverVars
  <2> QED BY <1>1, <2>1, PayloadTyped, SendKeeps
<1>3. ASSUME SendFunctorRuns PROVE ConnInv'
  <2>1. /\ NextIs("send") /\ SendInLoop(Payload(Head(pending).msg), Tail(pending))
        /\ UNCHANGED <<state, work, caller, stopped, downs, server, removals, late>>
    BY <1>3 DEF SendFunctorRuns, serverVars, envVars
  <2>2. /\ Tail(pending) \in Seq(Functors) /\ Head(pending) \in Functors
        /\ Kinds(Tail(pending)) \subseteq Kinds(pending) /\ state # "kConnecting"
    BY <2>1, AtFunctor
  <2>3. Head(pending).msg \in Msgs
    BY <2>1, <2>2 DEF NextIs, Functors
  <2> QED BY <2>1, <2>2, <2>3, PayloadTyped, SendKeeps
<1> QED BY <1>2, <1>3

(* handleWrite: the write side is closed only when nothing is left.         *)
LEMMA WriteKeeps ==
  ASSUME ConnInv, WriteSome
  PROVE  ConnInv'
<1>1. /\ Doing("write") /\ IsWriting(events) /\ ~writeShut /\ work' = Tail(work)
      /\ UNCHANGED <<state, caller, stopped, downs, accepted, server, removals, late>>
  BY DEF WriteSome, serverVars, envVars
<1>2. /\ Tail(work) \in Seq(Steps) /\ Ordered(Tail(work))
      /\ StepsIn(Tail(work)) \subseteq StepsIn(work) /\ state # "kConnecting"
      /\ StepsIn(Tail(work)) \cap Closers = {} /\ "write" \in StepsIn(work)
  BY <1>1, AtWork
<1>3. Typed /\ StreamIntact /\ Stops
  BY DEF ConnInv
<1>4. PICK n \in 1 .. Len(outputBuffer) :
        LET left == SubSeq(outputBuffer, n + 1, Len(outputBuffer))
        IN  /\ wire' = wire \o SubSeq(outputBuffer, 1, n)
            /\ outputBuffer' = left
            /\ IF left = <<>>
               THEN /\ ChannelUpdate(DisableWriting(events))
                    /\ pending' = Append(pending, Functor("writeComplete"))
                    /\ writeShut' = ShutsAfterDrain(DisableWriting(events))
               ELSE UNCHANGED <<channelVars, pending, writeShut>>
  BY DEF WriteSome
<1> DEFINE x == SubSeq(outputBuffer, 1, n)
           y == SubSeq(outputBuffer, n + 1, Len(outputBuffer))
<1>5. x \in Seq(Units) /\ y \in Seq(Units) /\ x \o y = outputBuffer
  <2>1. outputBuffer \in Seq(Units)
    BY <1>3 DEF Typed
  <2>2. n \in 0 .. Len(outputBuffer)
    BY <2>1
  <2> QED BY <2>1, <2>2, SplitAt
<1>6. wire' = wire \o x /\ outputBuffer' = y
  BY <1>4
<1>7. \/ /\ outputBuffer' = <<>>
         /\ events' = events \ kWriteEvent /\ added' = (added => events' # {})
         /\ pending' = Append(pending, Functor("writeComplete"))
         /\ writeShut' \in BOOLEAN
      \/ outputBuffer' # <<>> /\ UNCHANGED <<events, added, pending, writeShut>>
  <2>1. ShutsAfterDrain(DisableWriting(events)) \in BOOLEAN
    BY DEF ShutsAfterDrain
  <2> QED BY <1>4, <2>1
      DEF ChannelUpdate, DisableWriting, Registered, IsNoneEvent, kNoneEvent, channelVars
<1> HIDE DEF x, y
<1>8. outputBuffer' \in Seq(Units) /\ wire' \in Seq(Units) /\ StreamIntact'
  <2>1. wire \in Seq(Units)
    BY <1>3 DEF Typed
  <2>2. (wire \o x) \o y = wire \o (x \o y)
    BY <1>5, <2>1, Regroup
  <2>3. wire' \o outputBuffer' = accepted
    BY <1>3, <1>5, <1>6, <2>2 DEF StreamIntact
  <2>4. outputBuffer' \in Seq(Units) /\ wire' \in Seq(Units)
    BY <1>5, <1>6, <2>1
  <2> QED BY <1>1, <2>3, <2>4 DEF StreamIntact
<1>9. pending' \in Seq(Functors) /\ Kinds(pending') \subseteq Kinds(pending) \cup UserKinds
  <2>1. Functor("writeComplete") \in Functors /\ Functor("writeComplete").kind = "writeComplete"
    BY FunctorFacts DEF AllKinds, Owning
  <2>2. pending \in Seq(Functors)
    BY <1>3 DEF Typed
  <2> QED BY <1>7, <2>1, <2>2, KindsOfAppend, ZenonT(60) DEF UserKinds
<1>10. added /\ Open /\ events # {}
  BY <1>1, <1>2 DEF ConnInv, Registration, IsWriting
<1>11. Typed'
  BY <1>1, <1>2, <1>3, <1>7, <1>8, <1>9 DEF Typed
<1>12. Fresh' /\ EstablishedOnce'
  BY <1>1, <1>2, <1>9 DEF ConnInv, Fresh, EstablishedOnce, UserKinds
<1>13. Registration'
  <2>1. /\ state = "kConnected" => ~late
        /\ ~late => ReadBits \subseteq events /\ ReadBits # {}
    BY <1>10, BitsAssumption DEF ConnInv, AfterTheEnd, Registration, ReadBits
  <2>2. /\ ~late => ReadBits \subseteq events' /\ added'
        /\ added' => events' # {}
        /\ added' \/ events' = {}
    <3>1. CASE events' = events /\ added' = added
      BY <1>10, <2>1, <3>1
    <3>2. CASE events' = events \ kWriteEvent /\ added' = (added => events' # {})
      <4>1. ReadBits \subseteq events => ReadBits \subseteq events'
        BY <3>2 DEF ReadBits
      <4> QED BY <1>10, <2>1, <3>2, <4>1
    <3> QED BY <1>7, <3>1, <3>2
  <2> QED BY <1>1, <1>2, <1>10, <2>1, <2>2 DEF Registration, Open, ReadBits
<1>14. AfterTheEnd'
  BY <1>1, <1>2, <1>9 DEF ConnInv, AfterTheEnd, Over, UserKinds
<1>15. OutputWaits'
  <2>1. ~IsWriting(events \ kWriteEvent)
    BY DEF IsWriting
  <2> QED BY <1>1, <1>7, <2>1 DEF OutputWaits, IsWriting
<1>16. Stops'
  BY <1>1, <1>3 DEF Stops
<1> QED BY <1>1, <1>2, <1>8, <1>11, <1>12, <1>13, <1>14, <1>15, <1>16 DEF ConnInv

(* removeConnectionInLoop comes after the end of the connection.            *)
LEMMA RemovalKeeps ==
  ASSUME ConnInv, RemoveConnectionInLoop
  PROVE  ConnInv'
<1> DEFINE f == Functor("conneectDestroyed")
<1>1. f \in Functors /\ f.kind = "conneectDestroyed"
  BY FunctorFacts DEF AllKinds, Owning
<1> HIDE DEF f
<1>2. /\ removals > 0 /\ removals' = removals - 1 /\ stopped = "no"
      /\ UNCHANGED <<state, events, added, work, caller, downs, outputBuffer,
                     writeShut, accepted, wire, late>>
      /\ \/ stopped' = "server_gone" /\ UNCHANGED <<server, pending>>
         \/ server' = "erased" /\ pending' = Append(pending, f) /\ UNCHANGED stopped
  BY DEF RemoveConnectionInLoop, Running, channelVars, outVars, envVars, f
<1>3. pending \in Seq(Functors) /\ removals \in Nat /\ state # "kConnecting"
  BY <1>2, Begun DEF ConnInv, Typed
<1>4. Over /\ (removals <= 1 \/ late)
  BY <1>2 DEF ConnInv, AfterTheEnd
<1>5. pending' \in Seq(Functors) /\ Kinds(pending') \subseteq Kinds(pending) \cup {"conneectDestroyed"}
  BY <1>1, <1>2, <1>3, KindsOfAppend
<1>6. Typed' /\ Ordered(work')
  BY <1>2, <1>3, <1>5 DEF ConnInv, Typed
<1>7. Fresh' /\ EstablishedOnce'
  BY <1>2, <1>3, <1>5 DEF ConnInv, Fresh, EstablishedOnce
<1>8. Registration'
  BY <1>2, <1>4 DEF ConnInv, Registration, Open, Over, ReadBits
<1>9. AfterTheEnd'
  <2>1. Over'
    BY <1>2, <1>4 DEF Over
  <2>2. "closeCallback" \in StepsIn(work') => removals' = 0 \/ late'
    BY <1>2, <1>3 DEF ConnInv, AfterTheEnd
  <2> QED BY <1>2, <1>3, <1>4, <2>1, <2>2 DEF ConnInv, AfterTheEnd
<1>10. OutputWaits' /\ StreamIntact' /\ Stops'
  BY <1>2 DEF ConnInv, OutputWaits, Open, StreamIntact, Stops
<1> QED BY <1>6, <1>7, <1>8, <1>9, <1>10 DEF ConnInv

(* ~TcpServer may come at any time, even before the beginning.              *)
LEMMA DestructsKeeps ==
  ASSUME ConnInv, ServerDestructs
  PROVE  ConnInv'
<1> DEFINE f == Functor("conneectDestroyed")
<1>1. f \in Functors /\ f.kind = "conneectDestroyed"
  BY FunctorFacts DEF AllKinds, Owning
<1> HIDE DEF f
<1>2. /\ server' = "gone"
      /\ UNCHANGED <<state, events, added, work, caller, stopped, downs, outputBuffer,
                     writeShut, accepted, wire, removals, late>>
      /\ pending' = pending \/ pending' = Append(pending, f)
  BY DEF ServerDestructs, channelVars, outVars, envVars, f
<1>3. pending \in Seq(Functors)
  BY DEF ConnInv, Typed
<1>4. pending' \in Seq(Functors) /\ Kinds(pending') \subseteq Kinds(pending) \cup {"conneectDestroyed"}
  BY <1>1, <1>2, <1>3, KindsOfAppend
<1>5. Typed' /\ Ordered(work')
  BY <1>2, <1>4 DEF ConnInv, Typed
<1>6. Fresh'
  <2> SUFFICES ASSUME state = "kConnecting"
               PROVE  /\ pending' # <<>> /\ Head(pending').kind = "conneectEstableished"
                      /\ Kinds(Tail(pending')) \subseteq {"conneectDestroyed"}
    BY <1>2 DEF ConnInv, Fresh
  <2>1. /\ pending # <<>> /\ Head(pending).kind = "conneectEstableished"
        /\ Kinds(Tail(pending)) \subseteq {"conneectDestroyed"}
    BY DEF ConnInv, Fresh
  <2>2. CASE pending' = Append(pending, f)
    <3>1. /\ Head(pending') = Head(pending) /\ Tail(pending') = Append(Tail(pending), f)
          /\ pending' # <<>>
      BY <1>1, <1>3, <2>1, <2>2, HeadTailAppend
    <3>2. Tail(pending) \in Seq(Functors)
      BY <1>3, <2>1, KindsOfTail
    <3>3. Kinds(Tail(pending')) = Kinds(Tail(pending)) \cup {f.kind}
      BY <1>1, <3>1, <3>2, KindsOfAppend
    <3> QED BY <1>1, <2>1, <3>1, <3>3
  <2> QED BY <1>2, <2>1, <2>2
<1>7. EstablishedOnce'
  BY <1>2, <1>4 DEF ConnInv, EstablishedOnce
<1>8. Registration'
  BY <1>2 DEF ConnInv, Registration, Open, ReadBits
<1>9. AfterTheEnd'
  BY <1>2 DEF ConnInv, AfterTheEnd, Over
<1>10. OutputWaits' /\ StreamIntact' /\ Stops'
  BY <1>2 DEF ConnInv, OutputWaits, Open, StreamIntact, Stops
<1> QED BY <1>5, <1>6, <1>7, <1>8, <1>9, <1>10 DEF ConnInv

(* The peer's end, which only the socket knows, and that of the object.     *)
LEMMA EndsKeep ==
  ASSUME ConnInv, PeerCloses \/ Destruct
  PROVE  ConnInv'
<1>1. UNCHANGED <<state, events, added, outputBuffer, pending, work, caller,
                  server, removals, writeShut, accepted, wire, downs, late>>
  BY DEF PeerCloses, Destruct, channelVars, outVars, serverVars, envVars
<1>2. Stops'
  <2>1. CASE PeerCloses
    BY <2>1 DEF PeerCloses, ConnInv, Stops, serverVars
  <2>2. CASE Destruct
    <3>1. server # "holds" /\ server \in {"holds", "erased", "gone"}
      BY <2>2 DEF Destruct, Unreferenced, ConnInv, Typed
    <3>2. server = "gone" \/ state = "kDisconnected" \/ late
      BY <3>1 DEF ConnInv, AfterTheEnd, Over
    <3>3. stopped' = IF state = "kDisconnected" THEN "no" ELSE "destructor_assertion"
      BY <2>2 DEF Destruct
    <3> QED BY <1>1, <3>2, <3>3 DEF Stops
  <2> QED BY <2>1, <2>2
<1> QED BY <1>1, <1>2, Untouched

(* Every step of the connection, its callers and its server keeps the       *)
(* invariant.                                                               *)
LEMMA ConnStep ==
  ConnInv /\ [Next]_vars => ConnInv'
<1> SUFFICES ASSUME ConnInv, [Next]_vars PROVE ConnInv'
  OBVIOUS
<1>1. CASE UNCHANGED vars
  <2>1. UNCHANGED <<state, events, added, outputBuffer, pending, work, caller, stopped,
                    server, removals, writeShut, accepted, wire, downs, late>>
    BY <1>1 DEF vars
  <2>2. Stops'
    BY <2>1 DEF ConnInv, Stops
  <2> QED BY <2>1, <2>2, Untouched
<1>2. ASSUME NEW revents, HandleEvent(revents) PROVE ConnInv'
  BY <1>2, EventKeeps
<1>3. CASE WorkStep
  BY <1>3, QuietWork, PeerCloseKeeps, WriteKeeps, CloseCallbackKeeps, RemoveKeeps DEF WorkStep
<1>4. CASE (\E m \in Msgs : UserSend(m)) \/ SendFunctorRuns
  BY <1>4, SendsKeep
<1>5. CASE UserShutdown \/ ShutdownFunctorRuns
  BY <1>5, ShutdownKeeps
<1>6. CASE RunFunctor
  BY <1>4, <1>5, <1>6, EstablishedKeeps, DestroyedKeeps, QuietFunctors DEF RunFunctor
<1>7. ASSUME NEW t \in Callers,
             (\E m \in Msgs : CallSend(t, m)) \/ CallShutdown(t) \/ CallerStep(t)
      PROVE  ConnInv'
  BY <1>7, QuietCallers, StoreKeeps DEF CallerStep
<1>8. CASE RemoveConnectionInLoop
  BY <1>8, RemovalKeeps
<1>9. CASE ServerDestructs
  BY <1>9, DestructsKeeps
<1>10. CASE PeerCloses \/ Destruct
  BY <1>10, EndsKeep
<1> QED BY <1>1, <1>2, <1>3, <1>4, <1>5, <1>6, <1>7, <1>8, <1>9, <1>10 DEF Next

(* The fairness of Spec plays no part in what follows.                      *)
LEMMA ConnInvariant == SafeSpec => []ConnInv
<1> QED BY ConnInitially, ConnStep, PTL DEF SafeSpec

-----------------------------------------------------------------------------
(* Results.                                                                 *)

(* Every variable keeps its type, a registered channel asks for something,  *)
(* and removeConnectionInLoop is queued at most once unless a late store    *)
(* revived the state.                                                       *)
THEOREM TypeCorrect == SafeSpec => []TypeOK
<1>1. ASSUME ConnInv PROVE TypeOK
  <2>1. /\ state \in States /\ events \subseteq EpollBits /\ added \in BOOLEAN
        /\ added => ~IsNoneEvent(events)
        /\ outputBuffer \in Seq(Units) /\ wire \in Seq(Units)
        /\ caller \in [Callers -> {"out", "checked", "set"} \cup Msgs]
        /\ server \in {"holds", "erased", "gone"}
        /\ removals \in Nat /\ (removals <= 1 \/ late)
    BY <1>1 DEF ConnInv, Typed, Registration, AfterTheEnd, IsNoneEvent, kNoneEvent
  <2>2. \A i \in DOMAIN pending : pending[i].kind \in Owning \cup {"send", "shutdown"}
    BY <1>1 DEF ConnInv, Typed, Functors, AllKinds
  <2>3. \A i \in DOMAIN work : work[i] \in Steps
    BY <1>1 DEF ConnInv, Typed
  <2> QED BY <2>1, <2>2, <2>3 DEF TypeOK, Steps
<1> QED BY <1>1, ConnInvariant, PTL

(* Over every mix of direct, partial, refused and buffered writes, nothing  *)
(* that sendInLoop accepted is lost, doubled or overtaken.                  *)
THEOREM StreamStaysIntact == SafeSpec => []StreamIntact
<1>1. ConnInv => StreamIntact
  BY DEF ConnInv
<1> QED BY <1>1, ConnInvariant, PTL

(* The assertion of handleClose holds: the loop reports events of a         *)
(* registered channel only, and a channel is registered only while its      *)
(* connection is open, also after a late store.                             *)
THEOREM ClosesOnce == SafeSpec => []CloseAsserts
<1>1. ConnInv => CloseAsserts
  BY DEF ConnInv, Stops, CloseAsserts
<1> QED BY <1>1, ConnInvariant, PTL

(* The user hears of the end once, from handleClose or conneectDestroyed.   *)
THEOREM EndToldOnce == SafeSpec => []DownOnce
<1>1. ConnInv => DownOnce
  BY DEF ConnInv, Typed, AfterTheEnd, DownOnce
<1> QED BY <1>1, ConnInvariant, PTL

(* The write side is closed only behind the last buffered unit.             *)
THEOREM ShutdownIsLast == SafeSpec => []ShutdownAfterOutput
<1>1. ASSUME ConnInv PROVE ShutdownAfterOutput
  <2>1. state = "kConnecting" => ~writeShut
    BY <1>1 DEF ConnInv, Fresh
  <2>2. state \in States
    BY <1>1 DEF ConnInv, Typed
  <2> QED BY <1>1, <2>1, <2>2 DEF ConnInv, OutputWaits, Open, States, ShutdownAfterOutput
<1> QED BY <1>1, ConnInvariant, PTL

(* A late store is not forgotten.                                           *)
LEMMA LateStays == late /\ [Next]_vars => late'
BY DEF Next, vars, WorkStep, RunFunctor, CallerStep, HandleEvent, HandleReadData,
       HandleError, HandlePeerClose, WriteSome, WriteNothing, UserReturn, CloseCallback,
       Remove, UserSend, UserShutdown, Established, Destroyed, UserFunctor,
       SendFunctorRuns, ShutdownFunctorRuns, RunsOnDead, CallSend, CallShutdown,
       QueueSend, SetDisconnecting, QueueShutdown, RemoveConnectionInLoop,
       ServerDestructs, PeerCloses, Destruct, envVars

-----------------------------------------------------------------------------
(* What the masks of Channel.cpp come to.                                   *)

(* Nothing is ever written, and no write side closed, before the connection *)
(* ends.                                                                    *)
MaskSilence == ~late => wire = <<>> /\ (writeShut => state = "kDisconnected")

(* An open channel asks for the events of reading and for no others.        *)
Silent ==
  ~late =>
    /\ events = IF Open THEN kReadEvent ELSE kNoneEvent
    /\ "write" \notin StepsIn(work)
    /\ wire = <<>>
    /\ writeShut => state = "kDisconnected"

(* A connection that is taken to be writing neither writes nor arms.        *)
LEMMA SilentSend ==
  ASSUME kReadEvent \cap kWriteEvent # {}, Silent, ~late, Open,
         NEW bytes \in Seq(Units), Len(bytes) = Size, NEW queue, SendInLoop(bytes, queue)
  PROVE  UNCHANGED <<events, wire, writeShut>>
<1>1. state # "kDisconnected" /\ IsWriting(events) /\ wire = <<>>
  BY DEF Open, Silent, IsWriting
<1>2. PICK n \in 0 .. Len(bytes), fault \in BOOLEAN : Sent(bytes, queue, n, fault)
  BY <1>1, SendParts
<1>3. n = 0 /\ wire' = wire \o SubSeq(bytes, 1, n) /\ UNCHANGED <<events, writeShut>>
  BY <1>1, <1>2 DEF Sent, WritesDirectly, Arms, channelVars
<1>4. SubSeq(bytes, 1, n) = <<>>
  BY <1>3, SplitAt
<1>5. wire' = wire
  <2>1. wire \in Seq(Units)
    BY <1>1
  <2> QED BY <1>3, <1>4, <2>1, ConcatEmptySeq
<1> QED BY <1>3, <1>5

LEMMA SilentStep ==
  ASSUME kReadEvent \cap kWriteEvent # {}, "EPOLLOUT" \notin kReadEvent,
         ConnInv, Silent, [Next]_vars
  PROVE  Silent'
<1> SUFFICES ASSUME ~late, ~late' PROVE Silent'
  BY LateStays DEF Silent
<1>0. /\ events = IF Open THEN kReadEvent ELSE kNoneEvent
      /\ "write" \notin StepsIn(work) /\ wire = <<>>
      /\ writeShut => state = "kDisconnected"
      /\ state \in States
  BY DEF Silent, ConnInv, Typed
<1>1. ASSUME UNCHANGED <<events, wire, writeShut, state>>,
             "write" \in StepsIn(work') => "write" \in StepsIn(work)
      PROVE  Silent'
  BY <1>0, <1>1 DEF Silent, Open
<1>2. CASE UNCHANGED vars
  BY <1>1, <1>2 DEF vars
<1>3. ASSUME NEW revents, HandleEvent(revents) PROVE Silent'
  <2>1. "EPOLLOUT" \notin revents
    BY <1>0, <1>3 DEF HandleEvent, Unasked, kNoneEvent
  <2>2. "write" \notin StepsIn(work')
    BY <1>3, <2>1, OrderedCallbacks DEF HandleEvent
  <2> QED BY <1>1, <1>3, <2>2 DEF HandleEvent, channelVars, outVars
<1>4. CASE WorkStep
  <2>1. ASSUME NEW step, Doing(step)
        PROVE  StepsIn(Tail(work)) \subseteq StepsIn(work) /\ step # "write"
    BY <1>0, <2>1, AtWork
  <2>2. CASE HandleReadData
    <3>1. Doing("read") /\ work' = <<"user">> \o Tail(work)
      BY <2>2 DEF HandleReadData
    <3>2. /\ Tail(work) \in Seq(Steps)
          /\ StepsIn(Tail(work)) \subseteq {"error", "write", "user"}
      BY <3>1, AtWork
    <3>3. StepsIn(<<"user">> \o Tail(work)) \subseteq StepsIn(Tail(work)) \cup {"user", "closeCallback"}
      BY <3>2, OrderedPush
    <3>4. "write" \in StepsIn(work') => "write" \in StepsIn(work)
      BY <2>1, <3>1, <3>3
    <3> QED BY <1>1, <2>2, <3>4 DEF HandleReadData, channelVars, outVars
  <2>3. CASE HandlePeerClose
    <3>1. PICK step \in {"read", "close"} : Doing(step)
      BY <2>3 DEF HandlePeerClose
    <3>2. /\ Tail(work) \in Seq(Steps)
          /\ StepsIn(Tail(work)) \subseteq {"error", "write", "user"}
      BY <3>1, AtWork
    <3>3. StepsIn(<<"user", "closeCallback">> \o Tail(work))
            \subseteq StepsIn(Tail(work)) \cup {"user", "closeCallback"}
      BY <3>2, OrderedPush
    <3>4. UNCHANGED <<wire, writeShut>>
      BY <2>3 DEF HandlePeerClose, outVars
    <3>5. CASE state \in {"kConnected", "kDisconnecting"}
      <4>1. /\ state' = "kDisconnected" /\ events' = kNoneEvent
            /\ work' = <<"user", "closeCallback">> \o Tail(work)
        BY <2>3, <3>5 DEF HandlePeerClose, HandleClose, StateAfterClose, MaskAfterClose,
                          ChannelUpdate, AfterClose
      <4>2. "write" \notin StepsIn(work')
        BY <1>0, <2>1, <3>1, <3>3, <4>1
      <4> QED BY <1>0, <3>4, <4>1, <4>2 DEF Silent, Open
    <3>6. CASE state \notin {"kConnected", "kDisconnecting"}
      BY <1>1, <2>3, <3>4, <3>6 DEF HandlePeerClose, HandleClose, channelVars
    <3> QED BY <3>5, <3>6
  <2>4. CASE WriteSome \/ WriteNothing
    BY <2>1, <2>4 DEF WriteSome, WriteNothing
  <2>5. CASE HandleError \/ UserReturn \/ CloseCallback \/ Remove
    <3>1. PICK step : Doing(step)
      BY <2>5 DEF HandleError, UserReturn, CloseCallback, Remove
    <3>2. work' = Tail(work) /\ UNCHANGED <<events, wire, writeShut, state>>
      BY <2>5 DEF HandleError, UserReturn, CloseCallback, Remove, channelVars, outVars
    <3> QED BY <1>1, <2>1, <3>1, <3>2
  <2> QED BY <1>4, <2>2, <2>3, <2>4, <2>5 DEF WorkStep
<1>5. ASSUME NEW m \in Msgs, NEW queue, SendInLoop(Payload(m), queue),
             state # "kConnecting", UNCHANGED <<state, work>>
      PROVE  Silent'
  <2>1. Payload(m) \in Seq(Units) /\ Len(Payload(m)) = Size
    BY PayloadTyped
  <2>2. CASE Open
    <3>1. UNCHANGED <<events, wire, writeShut>>
      BY <1>5, <2>1, <2>2, SilentSend
    <3> QED BY <1>1, <1>5, <3>1
  <2>3. CASE ~Open
    <3>1. state = "kDisconnected"
      BY <1>0, <1>5, <2>3 DEF Open, States
    <3> QED BY <1>1, <1>5, <3>1 DEF SendInLoop, channelVars, outVars
  <2> QED BY <2>2, <2>3
<1>6. ASSUME NEW m \in Msgs, UserSend(m) PROVE Silent'
  BY <1>5, <1>6 DEF UserSend
<1>7. ASSUME ShutdownInLoop, state # "kConnecting", UNCHANGED <<events, work>>,
             \/ state' = state
             \/ state = "kConnected" /\ state' = "kDisconnecting"
      PROVE  Silent'
  <2>1. CASE Open
    <3>1. IsWriting(events)
      BY <1>0, <2>1 DEF IsWriting
    <3>2. UNCHANGED <<wire, writeShut>>
      <4>1. ~writeShut /\ ~ShutsWrite(events)
        BY <1>0, <2>1, <3>1 DEF ShutsWrite, Open
      <4>2. writeShut \in BOOLEAN
        BY DEF ConnInv, Typed
      <4> QED BY <1>7, <4>1, <4>2 DEF ShutdownInLoop
    <3> QED BY <1>0, <1>7, <2>1, <3>2 DEF Silent, Open
  <2>2. CASE ~Open
    <3>1. state = "kDisconnected" /\ state' = state
      BY <1>0, <1>7, <2>2 DEF Open, States
    <3> QED BY <1>0, <1>7, <3>1 DEF ShutdownInLoop, Silent, Open
  <2> QED BY <2>1, <2>2
<1>8. CASE UserShutdown
  <2>1. /\ ShutdownInLoop /\ state = "kConnected" /\ state' = "kDisconnecting"
        /\ UNCHANGED <<events, work>>
    BY <1>8 DEF UserShutdown, channelVars
  <2> QED BY <1>7, <2>1
<1>9. CASE RunFunctor
  <2>1. CASE Established
    <3>1. state = "kConnecting"
      <4>1. NextIs("conneectEstableished")
        BY <2>1 DEF Established
      <4> QED BY <4>1, AtFunctor DEF ConnInv, EstablishedOnce
    <3>2. /\ state' = "kConnected" /\ work' = <<"user">> /\ UNCHANGED <<wire, writeShut>>
          /\ events' = events \cup kReadEvent
      BY <2>1 DEF Established, ChannelUpdate, EnableReading, outVars
    <3>3. "write" \notin StepsIn(work')
      BY <3>2, OrderedFew
    <3> QED BY <1>0, <3>1, <3>2, <3>3 DEF Silent, Open, kNoneEvent
  <2>2. CASE Destroyed
    <3>1. UNCHANGED <<wire, writeShut>>
      BY <2>2 DEF Destroyed, outVars
    <3>2. CASE EndsHere
      <4>1. state' = "kDisconnected" /\ events' = kNoneEvent /\ work' = <<"user", "remove">>
        BY <2>2, <3>2 DEF Destroyed, ChannelUpdate
      <4>2. "write" \notin StepsIn(work')
        BY <4>1, OrderedFew
      <4> QED BY <1>0, <3>1, <4>1, <4>2 DEF Silent, Open
    <3>3. CASE ~EndsHere
      BY <1>1, <2>2, <3>1, <3>3 DEF Destroyed
    <3> QED BY <3>2, <3>3
  <2>3. CASE UserFunctor
    <3>1. "write" \notin StepsIn(work')
      BY <2>3, OrderedFew DEF UserFunctor
    <3> QED BY <1>1, <2>3, <3>1 DEF UserFunctor, channelVars, outVars
  <2>4. CASE SendFunctorRuns
    <3>1. NextIs("send") /\ Head(pending).kind = "send"
      BY <2>4 DEF SendFunctorRuns, NextIs
    <3>2. Head(pending) \in Functors /\ state # "kConnecting"
      BY <3>1, AtFunctor
    <3>3. Head(pending).msg \in Msgs
      BY <3>1, <3>2 DEF Functors
    <3> QED BY <1>5, <2>4, <3>2, <3>3 DEF SendFunctorRuns
  <2>5. CASE ShutdownFunctorRuns
    <3>1. NextIs("shutdown")
      BY <2>5 DEF ShutdownFunctorRuns
    <3>2. state # "kConnecting"
      BY <3>1, AtFunctor
    <3>3. ShutdownInLoop /\ state' = state /\ UNCHANGED <<events, work>>
      BY <2>5 DEF ShutdownFunctorRuns, channelVars
    <3> QED BY <1>7, <3>2, <3>3
  <2>6. CASE RunsOnDead
    BY <1>1, <2>6 DEF RunsOnDead, channelVars, outVars
  <2> QED BY <1>9, <2>1, <2>2, <2>3, <2>4, <2>5, <2>6 DEF RunFunctor
<1>10. ASSUME NEW t \in Callers,
              (\E m \in Msgs : CallSend(t, m)) \/ CallShutdown(t) \/ CallerStep(t)
       PROVE  Silent'
  <2>1. CASE SetDisconnecting(t)
    <3>1. /\ state = "kConnected" /\ state' = "kDisconnecting"
          /\ UNCHANGED <<events, wire, writeShut, work>>
      BY <2>1 DEF SetDisconnecting, channelVars, outVars
    <3> QED BY <1>0, <3>1 DEF Silent, Open
  <2>2. CASE ~SetDisconnecting(t)
    BY <1>1, <1>10, <2>2
       DEF CallSend, CallShutdown, CallerStep, QueueSend, QueueShutdown, channelVars, outVars
  <2> QED BY <2>1, <2>2
<1>11. CASE RemoveConnectionInLoop \/ ServerDestructs \/ PeerCloses \/ Destruct
  BY <1>1, <1>11
     DEF RemoveConnectionInLoop, ServerDestructs, PeerCloses, Destruct, channelVars, outVars
<1> QED BY <1>2, <1>3, <1>4, <1>6, <1>8, <1>9, <1>10, <1>11 DEF Next

(* The two masks of Channel.cpp:10-11 share a bit, and that of reading has  *)
(* no EPOLLOUT: then isWriting() is true of every open connection, whatever *)
(* is sent stays in outputBuffer_, and no shutdown reaches the socket       *)
(* (TcpConnection.cpp:151, 181, 187).                                       *)
THEOREM SharedBitSilences ==
  ASSUME kReadEvent \cap kWriteEvent # {}, "EPOLLOUT" \notin kReadEvent
  PROVE  SafeSpec => []MaskSilence
<1>1. Init => Silent
  <2>1. StepsIn(<<>>) = {}
    BY DEF StepsIn
  <2> QED BY <2>1 DEF Init, Silent, Open
<1>2. ConnInv /\ Silent /\ [Next]_vars => Silent'
  BY SilentStep
<1>3. Silent => MaskSilence
  BY DEF Silent, MaskSilence
<1> QED BY <1>1, <1>2, <1>3, ConnInvariant, PTL DEF SafeSpec

-----------------------------------------------------------------------------
(* The high-water callback.                                                 *)

Places(kind, queue) == {i \in DOMAIN queue : queue[i].kind = kind}

(* How many functors of a kind are queued, when one is queued or taken.     *)
LEMMA QueuedNat ==
  ASSUME NEW kind, NEW q \in Seq(Functors)
  PROVE  /\ IsFiniteSet(Places(kind, q)) /\ Queued(kind, q) \in Nat
         /\ Queued(kind, q) = Cardinality(Places(kind, q))
         /\ Places(kind, q) \subseteq 1 .. Len(q) /\ Len(q) \in Nat
<1>1. Places(kind, q) \in SUBSET (1 .. Len(q)) /\ Len(q) \in Nat
  BY DEF Places
<1>2. IsFiniteSet(1 .. Len(q))
  BY <1>1, FS_Interval
<1>3. IsFiniteSet(Places(kind, q))
  BY <1>1, <1>2, FS_Subset
<1>4. Queued(kind, q) = Cardinality(Places(kind, q))
  BY DEF Queued, Places
<1> QED BY <1>1, <1>3, <1>4, FS_CardinalityType

(* Queueing a functor adds one to the count of its kind.                    *)
LEMMA QueuedAppend ==
  ASSUME NEW kind, NEW q \in Seq(Functors), NEW f \in Functors
  PROVE  Queued(kind, Append(q, f)) = Queued(kind, q) + (IF f.kind = kind THEN 1 ELSE 0)
<1> DEFINE r == Append(q, f)
           n == Len(q) + 1
<1>1. /\ r \in Seq(Functors) /\ DOMAIN r = 1 .. n /\ r[n] = f
      /\ DOMAIN q = 1 .. Len(q) /\ Len(q) \in Nat
      /\ \A i \in 1 .. Len(q) : r[i] = q[i]
  OBVIOUS
<1> HIDE DEF r
<1>2. /\ IsFiniteSet(Places(kind, q)) /\ Queued(kind, q) = Cardinality(Places(kind, q))
      /\ Queued(kind, q) \in Nat /\ n \notin Places(kind, q)
      /\ Queued(kind, r) = Cardinality(Places(kind, r))
  <2>1. n \notin 1 .. Len(q)
    BY <1>1
  <2> HIDE DEF n
  <2> QED BY <1>1, <2>1, QueuedNat
<1>3. Places(kind, r) = Places(kind, q) \cup (IF f.kind = kind THEN {n} ELSE {})
  <2>1. \A i : i \in 1 .. n <=> i \in 1 .. Len(q) \/ i = n
    BY <1>1
  <2> HIDE DEF n
  <2> QED BY <1>1, <2>1 DEF Places
<1>4. Queued(kind, r) = Queued(kind, q) + (IF f.kind = kind THEN 1 ELSE 0)
  <2>1. CASE f.kind = kind
    <3>1. Places(kind, r) = Places(kind, q) \cup {n}
      BY <1>3, <2>1
    <3>2. Cardinality(Places(kind, q) \cup {n}) = Cardinality(Places(kind, q)) + 1
      BY <1>2, FS_AddElement
    <3> QED BY <1>2, <2>1, <3>1, <3>2
  <2>2. CASE f.kind # kind
    <3>1. Places(kind, r) = Places(kind, q)
      BY <1>3, <2>2
    <3> QED BY <1>2, <2>2, <3>1
  <2> QED BY <2>1, <2>2
<1> QED BY <1>4 DEF r

(* Running a functor takes one from the count of its kind.                  *)
LEMMA QueuedTail ==
  ASSUME NEW kind, NEW q \in Seq(Functors), q # <<>>
  PROVE  Queued(kind, q) = Queued(kind, Tail(q)) + (IF Head(q).kind = kind THEN 1 ELSE 0)
<1> DEFINE r == Tail(q)
           S == Places(kind, r)
           T == Places(kind, q) \ {1}
           f == [i \in S |-> i + 1]
<1>1. /\ r \in Seq(Functors) /\ Len(r) = Len(q) - 1 /\ DOMAIN r = 1 .. Len(r)
      /\ \A i \in 1 .. Len(r) : r[i] = q[i + 1]
      /\ Len(q) \in Nat /\ Len(q) > 0 /\ Head(q) = q[1] /\ DOMAIN q = 1 .. Len(q)
  BY HeadTailProperties
<1> HIDE DEF r
<1>2. /\ IsFiniteSet(S) /\ Queued(kind, r) = Cardinality(S) /\ Queued(kind, r) \in Nat
      /\ IsFiniteSet(Places(kind, q)) /\ Queued(kind, q) = Cardinality(Places(kind, q))
      /\ S \subseteq 1 .. Len(r) /\ Queued(kind, q) \in Nat
  BY <1>1, QueuedNat
<1>3. IsFiniteSet(T)
  BY <1>2, FS_RemoveElement
<1>4. \A i \in S : i + 1 \in T
  BY <1>1 DEF Places
<1>5. \A j \in T : j - 1 \in S /\ (j - 1) + 1 = j
  <2> SUFFICES ASSUME NEW j \in T PROVE j - 1 \in S /\ (j - 1) + 1 = j
    OBVIOUS
  <2>1. j \in 1 .. Len(q) /\ j # 1 /\ q[j].kind = kind
    BY <1>1 DEF Places
  <2>2. j - 1 \in 1 .. Len(r) /\ (j - 1) + 1 = j
    BY <1>1, <2>1
  <2>3. r[j - 1] = q[j]
    BY <1>1, <2>2
  <2> QED BY <1>1, <2>1, <2>2, <2>3 DEF Places
<1>6. S \subseteq Int
  BY <1>2
<1> HIDE DEF S, T
<1>7. f \in Injection(S, T) /\ f \in Surjection(S, T)
  <2>1. f \in [S -> T]
    BY <1>4
  <2>2. \A a, b \in S : f[a] = f[b] => a = b
    BY <1>6
  <2>3. \A j \in T : \E i \in S : f[i] = j
    <3> SUFFICES ASSUME NEW j \in T PROVE \E i \in S : f[i] = j
      OBVIOUS
    <3>1. j - 1 \in S /\ f[j - 1] = j
      BY <1>5
    <3> QED BY <3>1
  <2> HIDE DEF f
  <2> QED BY <2>1, <2>2, <2>3 DEF Injection, IsInjective, Surjection
<1>8. Cardinality(S) = Cardinality(T)
  BY <1>3, <1>7, FS_Injection
<1>9. Cardinality(T) = IF 1 \in Places(kind, q) THEN Cardinality(Places(kind, q)) - 1
                       ELSE Cardinality(Places(kind, q))
  BY <1>2, FS_RemoveElement DEF T
<1>10. 1 \in Places(kind, q) <=> Head(q).kind = kind
  BY <1>1 DEF Places
<1>11. Queued(kind, q) = Queued(kind, r) + (IF Head(q).kind = kind THEN 1 ELSE 0)
  BY <1>2, <1>8, <1>9, <1>10
<1> QED BY <1>11 DEF r

(* A step that reaches or passes the mark queues the callback, another does *)
(* not.                                                                     *)
Crosses ==
  (Len(outputBuffer) < HighWaterMark /\ Len(outputBuffer') >= HighWaterMark)
    <=> Queued("highWaterMark", pending') > Queued("highWaterMark", pending)

(* Steps by which the output does not grow queue no such callback.          *)
LEMMA NoCrossing ==
  ASSUME ConnInv, Len(outputBuffer') <= Len(outputBuffer),
         \/ pending' = pending
         \/ pending # <<>> /\ pending' = Tail(pending)
         \/ \E f \in Functors : f.kind # "highWaterMark" /\ pending' = Append(pending, f),
         outputBuffer' \in Seq(Units)
  PROVE  Crosses
<1>1. pending \in Seq(Functors) /\ outputBuffer \in Seq(Units)
  BY DEF ConnInv, Typed
<1>2. HighWaterMark \in Nat /\ Len(outputBuffer) \in Nat /\ Len(outputBuffer') \in Nat
  BY <1>1, SizeAssumption
<1>3. Queued("highWaterMark", pending) \in Nat
  BY <1>1, QueuedNat
<1>4. ~(Queued("highWaterMark", pending') > Queued("highWaterMark", pending))
  <2>1. CASE pending' = pending
    BY <1>3, <2>1
  <2>2. CASE pending # <<>> /\ pending' = Tail(pending)
    <3>1. pending' \in Seq(Functors)
      BY <1>1, <2>2, KindsOfTail
    <3>2. Queued("highWaterMark", pending') \in Nat
      BY <3>1, QueuedNat
    <3>3. Queued("highWaterMark", pending)
            = Queued("highWaterMark", pending')
                + (IF Head(pending).kind = "highWaterMark" THEN 1 ELSE 0)
      BY <1>1, <2>2, QueuedTail
    <3> QED BY <1>3, <3>2, <3>3
  <2>3. ASSUME NEW f \in Functors, f.kind # "highWaterMark", pending' = Append(pending, f)
        PROVE  ~(Queued("highWaterMark", pending') > Queued("highWaterMark", pending))
    <3>1. Queued("highWaterMark", pending') = Queued("highWaterMark", pending) + 0
      BY <1>1, <2>3, QueuedAppend
    <3> QED BY <1>3, <3>1
  <2> QED BY <2>1, <2>2, <2>3
<1> QED BY <1>2, <1>4 DEF Crosses

(* sendInLoop compares the lengths before and after the rest is appended.   *)
LEMMA SendCrosses ==
  ASSUME ConnInv, NEW bytes \in Seq(Units), NEW queue \in Seq(Functors),
         Queued("highWaterMark", queue) = Queued("highWaterMark", pending),
         NEW n \in 0 .. Len(bytes), NEW fault \in BOOLEAN,
         Sent(bytes, queue, n, fault)
  PROVE  Crosses
<1> DEFINE rest == IF fault THEN <<>> ELSE SubSeq(bytes, n + 1, Len(bytes))
           h == HighWater(Len(rest))
           c == IF n = Len(bytes) THEN <<Functor("writeComplete")>> ELSE <<>>
           hw == "highWaterMark"
           l == Len(outputBuffer)
           k == Len(rest)
<1>1. pending \in Seq(Functors) /\ outputBuffer \in Seq(Units)
  BY DEF ConnInv, Typed
<1>2. pending' = (queue \o h) \o c /\ outputBuffer' = outputBuffer \o rest
  BY DEF Sent
<1>3. rest \in Seq(Units)
  BY SplitAt
<1>4. /\ l \in Nat /\ k \in Nat /\ HighWaterMark \in Nat
      /\ Len(outputBuffer') = l + k
  BY <1>1, <1>2, <1>3, SizeAssumption, ConcatProperties
<1>5. /\ Functor(hw) \in Functors /\ Functor(hw).kind = hw
      /\ Functor("writeComplete") \in Functors
      /\ Functor("writeComplete").kind = "writeComplete"
  BY FunctorFacts DEF AllKinds, Owning
<1>6. h = IF l < HighWaterMark /\ l + k >= HighWaterMark THEN <<Functor(hw)>> ELSE <<>>
  BY DEF HighWater
<1> HIDE DEF rest, h, l, k
<1>7. /\ queue \o h \in Seq(Functors)
      /\ Queued(hw, queue \o h) = Queued(hw, queue)
           + (IF l < HighWaterMark /\ l + k >= HighWaterMark THEN 1 ELSE 0)
  <2>1. CASE l < HighWaterMark /\ l + k >= HighWaterMark
    <3>1. queue \o h = Append(queue, Functor(hw))
      BY <1>5, <1>6, <2>1, AppendIsConcat
    <3>2. Queued(hw, Append(queue, Functor(hw))) = Queued(hw, queue) + 1
      BY <1>5, QueuedAppend
    <3>3. Append(queue, Functor(hw)) \in Seq(Functors)
      BY <1>5, KindsOfAppend
    <3> QED BY <2>1, <3>1, <3>2, <3>3
  <2>2. CASE ~(l < HighWaterMark /\ l + k >= HighWaterMark)
    <3>1. queue \o h = queue
      BY <1>6, <2>2, ConcatEmptySeq
    <3>2. Queued(hw, queue) \in Nat
      BY QueuedNat
    <3> QED BY <2>2, <3>1, <3>2
  <2> QED BY <2>1, <2>2
<1>8. Queued(hw, (queue \o h) \o c) = Queued(hw, queue \o h)
  <2>1. CASE c = <<>>
    BY <1>7, <2>1, ConcatEmptySeq
  <2>2. CASE c = <<Functor("writeComplete")>>
    <3>1. (queue \o h) \o c = Append(queue \o h, Functor("writeComplete"))
      BY <1>5, <1>7, <2>2, AppendIsConcat
    <3> DEFINE q == queue \o h
    <3> HIDE DEF q
    <3>2. q \in Seq(Functors)
      BY <1>7 DEF q
    <3>3. Queued(hw, Append(q, Functor("writeComplete"))) = Queued(hw, q) + 0
      BY <1>5, <3>2, QueuedAppend
    <3>4. Queued(hw, q) \in Nat
      BY <3>2, QueuedNat
    <3>5. Queued(hw, Append(q, Functor("writeComplete"))) = Queued(hw, q)
      BY <3>3, <3>4
    <3>6. q \o c = Append(q, Functor("writeComplete"))
      BY <3>1 DEF q
    <3>7. Queued(hw, q \o c) = Queued(hw, q)
      BY <3>5, <3>6
    <3> QED BY <3>7 DEF q
  <2> QED BY <2>1, <2>2
<1>9. Queued(hw, queue) \in Nat
  BY QueuedNat
<1>10. Queued(hw, pending') = Queued(hw, pending)
         + (IF l < HighWaterMark /\ l + k >= HighWaterMark THEN 1 ELSE 0)
  BY <1>2, <1>7, <1>8
<1> QED BY <1>4, <1>9, <1>10 DEF Crosses, l

(* Every caller of sendInLoop.                                              *)
LEMMA SendersCross ==
  ASSUME ConnInv, NEW m \in Msgs, NEW queue \in Seq(Functors), SendInLoop(Payload(m), queue),
         \/ queue = pending
         \/ pending # <<>> /\ queue = Tail(pending) /\ Head(pending).kind = "send"
  PROVE  Crosses
<1>1. pending \in Seq(Functors) /\ outputBuffer \in Seq(Units)
  BY DEF ConnInv, Typed
<1>2. Payload(m) \in Seq(Units) /\ Len(Payload(m)) = Size
  BY PayloadTyped
<1>3. CASE state = "kDisconnected"
  <2>1. pending' = queue /\ outputBuffer' = outputBuffer
    BY <1>3 DEF SendInLoop, outVars
  <2>2. Len(outputBuffer') <= Len(outputBuffer) /\ outputBuffer' \in Seq(Units)
    BY <1>1, <2>1
  <2> QED BY <2>1, <2>2, NoCrossing
<1>4. CASE state # "kDisconnected"
  <2>1. PICK n \in 0 .. Len(Payload(m)), fault \in BOOLEAN : Sent(Payload(m), queue, n, fault)
    BY <1>2, <1>4, SendParts
  <2>2. Queued("highWaterMark", queue) = Queued("highWaterMark", pending)
    <3>1. CASE queue = pending
      BY <3>1
    <3>2. CASE pending # <<>> /\ queue = Tail(pending) /\ Head(pending).kind = "send"
      <4>1. Queued("highWaterMark", pending) = Queued("highWaterMark", queue) + 0
        BY <1>1, <3>2, QueuedTail
      <4>2. Queued("highWaterMark", queue) \in Nat
        BY QueuedNat
      <4> QED BY <4>1, <4>2
    <3> QED BY <3>1, <3>2
  <2> QED BY <1>2, <2>1, <2>2, SendCrosses
<1> QED BY <1>3, <1>4

(* No step but a send that crosses the mark queues the high-water callback. *)
LEMMA CrossStep ==
  ConnInv /\ [Next]_vars => Crosses
<1> SUFFICES ASSUME ConnInv, [Next]_vars PROVE Crosses
  OBVIOUS
<1>1. pending \in Seq(Functors) /\ outputBuffer \in Seq(Units)
  BY DEF ConnInv, Typed
<1>2. ASSUME outputBuffer' = outputBuffer,
             \/ pending' = pending
             \/ pending # <<>> /\ pending' = Tail(pending)
             \/ \E f \in Functors : f.kind # "highWaterMark" /\ pending' = Append(pending, f)
      PROVE  Crosses
  BY <1>1, <1>2, NoCrossing
<1>3. ASSUME NEW m \in Msgs, UserSend(m) PROVE Crosses
  <2>1. SendInLoop(Payload(m), pending)
    BY <1>3 DEF UserSend
  <2> QED BY <1>1, <2>1, SendersCross
<1>4. ASSUME SendFunctorRuns PROVE Crosses
  <2>1. /\ NextIs("send") /\ SendInLoop(Payload(Head(pending).msg), Tail(pending))
    BY <1>4 DEF SendFunctorRuns
  <2>2. pending # <<>> /\ Head(pending).kind = "send"
    BY <2>1 DEF NextIs
  <2>3. Tail(pending) \in Seq(Functors) /\ Head(pending) \in Functors
    BY <1>1, <2>2, KindsOfTail
  <2>4. Head(pending).msg \in Msgs
    BY <2>2, <2>3 DEF Functors
  <2> QED BY <2>1, <2>2, <2>3, <2>4, SendersCross
<1>5. ASSUME WriteSome PROVE Crosses
  <2>1. PICK n \in 1 .. Len(outputBuffer) :
           /\ outputBuffer' = SubSeq(outputBuffer, n + 1, Len(outputBuffer))
           /\ \/ pending' = Append(pending, Functor("writeComplete"))
              \/ pending' = pending
    BY <1>5 DEF WriteSome
  <2>2. n \in 0 .. Len(outputBuffer) /\ Len(outputBuffer) \in Nat
    BY <1>1
  <2>3. /\ outputBuffer' \in Seq(Units)
        /\ Len(outputBuffer') = Len(outputBuffer) - n
    BY <1>1, <2>1, <2>2, SplitAt
  <2>4. Len(outputBuffer') <= Len(outputBuffer)
    BY <2>2, <2>3
  <2>5. Functor("writeComplete") \in Functors /\ Functor("writeComplete").kind # "highWaterMark"
    BY FunctorFacts DEF AllKinds, Owning
  <2> QED BY <2>1, <2>3, <2>4, <2>5, NoCrossing
<1>6. CASE UNCHANGED vars
  BY <1>2, <1>6 DEF vars
<1>7. ASSUME NEW revents, HandleEvent(revents) PROVE Crosses
  BY <1>2, <1>7 DEF HandleEvent, outVars
<1>8. CASE WorkStep
  <2>1. CASE HandlePeerClose
    BY <1>2, <2>1 DEF HandlePeerClose, outVars
  <2>2. CASE WriteSome
    BY <1>5, <2>2
  <2> QED BY <1>2, <1>8, <2>1, <2>2
      DEF WorkStep, HandleReadData, HandleError, WriteNothing, UserReturn, CloseCallback,
          Remove, outVars
<1>9. CASE RunFunctor
  <2>1. ASSUME NEW kind, NextIs(kind) PROVE pending # <<>>
    BY <2>1 DEF NextIs
  <2>2. CASE Established \/ Destroyed \/ UserFunctor \/ RunsOnDead
    BY <1>2, <2>1, <2>2 DEF Established, Destroyed, UserFunctor, RunsOnDead, outVars
  <2>3. CASE ShutdownFunctorRuns
    BY <1>2, <2>1, <2>3 DEF ShutdownFunctorRuns, ShutdownInLoop
  <2> QED BY <1>4, <1>9, <2>2, <2>3 DEF RunFunctor
<1>10. CASE UserShutdown
  BY <1>2, <1>10 DEF UserShutdown, ShutdownInLoop
<1>11. ASSUME NEW t \in Callers,
              (\E m \in Msgs : CallSend(t, m)) \/ CallShutdown(t) \/ CallerStep(t)
       PROVE  Crosses
  <2>1. CASE QueueSend(t)
    <3>1. PICK m \in Msgs : pending' = Append(pending, SendFunctor(m))
      BY <2>1 DEF QueueSend
    <3>2. SendFunctor(m) \in Functors /\ SendFunctor(m).kind # "highWaterMark"
      BY FunctorFacts
    <3> QED BY <1>2, <2>1, <3>1, <3>2 DEF QueueSend, outVars
  <2>2. CASE QueueShutdown(t)
    <3>1. Functor("shutdown") \in Functors /\ Functor("shutdown").kind # "highWaterMark"
      BY FunctorFacts DEF AllKinds
    <3> QED BY <1>2, <2>2, <3>1 DEF QueueShutdown, outVars
  <2> QED BY <1>2, <1>11, <2>1, <2>2
      DEF CallSend, CallShutdown, CallerStep, SetDisconnecting, outVars
<1>12. CASE RemoveConnectionInLoop \/ ServerDestructs
  <2>1. Functor("conneectDestroyed") \in Functors
        /\ Functor("conneectDestroyed").kind # "highWaterMark"
    BY FunctorFacts DEF AllKinds, Owning
  <2> QED BY <1>2, <1>12, <2>1 DEF RemoveConnectionInLoop, ServerDestructs, outVars
<1>13. CASE PeerCloses \/ Destruct
  BY <1>2, <1>13 DEF PeerCloses, Destruct, outVars
<1> QED BY <1>3, <1>6, <1>7, <1>8, <1>9, <1>10, <1>11, <1>12, <1>13 DEF Next

(* The high-water callback is queued at every crossing of the mark and at   *)
(* nothing else.                                                            *)
THEOREM CrossingsAreTold == SafeSpec => HighWaterCrossings
<1>1. ConnInv /\ [Next]_vars => [Crosses]_vars
  BY CrossStep
<1>2. SafeSpec => [][Crosses]_vars
  BY <1>1, ConnInvariant, PTL DEF SafeSpec
<1> QED BY <1>2 DEF HighWaterCrossings, Crosses

=============================================================================
