---------------------------- MODULE ChannelProofs ----------------------------
(***************************************************************************)
(* Proofs about the channel to the metadata actor, for every set of calls, *)
(* every capacity and every number of panics and crashes: dispatch         *)
(* implements an atomic call, and a store that is closed does not hold the *)
(* database.                                                               *)
(***************************************************************************)
EXTENDS Channel, SequenceTheorems, TLAPS

------------------------------------------------------------------------------
(* Sequences and their elements.                                           *)

\* The elements of the empty sequence, of one that has grown and of one that has
\* lost its head.
LEMMA RangeFacts ==
  ASSUME NEW S, NEW s \in Seq(S)
  PROVE  /\ Range(<<>>) = {}
         /\ \A x \in S : Range(Append(s, x)) = Range(s) \cup {x}
         /\ s # <<>> => Range(s) = Range(Tail(s)) \cup {Head(s)}
         /\ Range(s) \subseteq S
<1>1. Range(<<>>) = {}
  BY DEF Range
<1>2. ASSUME NEW x \in S
      PROVE  Range(Append(s, x)) = Range(s) \cup {x}
  <2> DEFINE t == Append(s, x)
  <2>1. /\ t \in Seq(S) /\ Len(t) = Len(s) + 1 /\ t[Len(s) + 1] = x
        /\ \A i \in 1..Len(s) : t[i] = s[i]
    BY AppendProperties
  <2>2. DOMAIN s = 1..Len(s) /\ DOMAIN t = 1..Len(s) + 1 /\ Len(s) \in Nat
    BY <2>1, LenProperties
  <2> HIDE DEF t
  <2>3. ASSUME NEW y \in Range(t)
        PROVE  y \in Range(s) \cup {x}
    <3>1. PICK i \in 1..Len(s) + 1 : y = t[i]
      BY <2>2 DEF Range
    <3>2. i \in 1..Len(s) \/ i = Len(s) + 1
      BY <2>2
    <3> QED
      BY <2>1, <2>2, <3>1, <3>2 DEF Range
  <2>4. ASSUME NEW y \in Range(s) \cup {x}
        PROVE  y \in Range(t)
    <3>1. PICK i \in 1..Len(s) + 1 : y = t[i]
      BY <2>1, <2>2 DEF Range
    <3> QED
      BY <2>2, <3>1 DEF Range
  <2> QED
    BY <2>3, <2>4 DEF t
<1>3. ASSUME s # <<>>
      PROVE  Range(s) = Range(Tail(s)) \cup {Head(s)}
  <2> DEFINE t == Tail(s)
  <2>1. /\ t \in Seq(S) /\ Len(t) = Len(s) - 1 /\ Head(s) = s[1]
        /\ \A i \in 1..Len(t) : t[i] = s[i + 1]
        /\ Len(s) \in Nat /\ Len(s) >= 1
    BY <1>3, HeadTailProperties, EmptySeq, LenProperties
  <2>2. DOMAIN s = 1..Len(s) /\ DOMAIN t = 1..Len(s) - 1
    BY <2>1, LenProperties
  <2> HIDE DEF t
  <2>3. ASSUME NEW y \in Range(s)
        PROVE  y \in Range(t) \cup {s[1]}
    <3>1. PICK i \in 1..Len(s) : y = s[i]
      BY <2>2 DEF Range
    <3>2. CASE i = 1
      BY <3>1, <3>2
    <3>3. CASE i # 1
      <4>1. i - 1 \in 1..Len(t) /\ i - 1 + 1 = i
        BY <2>1, <3>3
      <4> QED
        BY <2>1, <2>2, <3>1, <4>1 DEF Range
    <3> QED
      BY <3>2, <3>3
  <2>4. ASSUME NEW y \in Range(t) \cup {s[1]}
        PROVE  y \in Range(s)
    <3>1. PICK i \in 1..Len(s) : y = s[i]
      <4>1. CASE y = s[1]
        BY <2>1, <4>1
      <4>2. CASE y \in Range(t)
        <5>1. PICK i \in 1..Len(t) : y = t[i]
          BY <2>1, <2>2, <4>2 DEF Range
        <5>2. i + 1 \in 1..Len(s) /\ y = s[i + 1]
          BY <2>1, <5>1
        <5> QED
          BY <5>2
      <4> QED
        BY <4>1, <4>2
    <3> QED
      BY <2>2, <3>1 DEF Range
  <2> QED
    BY <2>1, <2>3, <2>4 DEF t
<1>4. Range(s) \subseteq S
  <2>1. \A i \in 1..Len(s) : s[i] \in S
    BY ElementOfSeq
  <2> QED
    BY <2>1, LenProperties DEF Range
<1> QED
  BY <1>1, <1>2, <1>3, <1>4

\* Calls that are in a sequence once.
Once(s) ==
  \A i, j \in 1..Len(s) : s[i] = s[j] /\ s[i] \in Calls => i = j

\* A sequence stays so when a call is added that is not in it, and when its head
\* goes; the head is then in it no more.
LEMMA OnceFacts ==
  ASSUME NEW S, NEW s \in Seq(S), Once(s)
  PROVE  /\ \A x \in S : x \notin Calls \/ x \notin Range(s) => Once(Append(s, x))
         /\ s # <<>> => Once(Tail(s))
         /\ s # <<>> /\ Head(s) \in Calls => Head(s) \notin Range(Tail(s))
<1>1. ASSUME NEW x \in S, x \notin Calls \/ x \notin Range(s)
      PROVE  Once(Append(s, x))
  <2> DEFINE t == Append(s, x)
  <2>1. /\ Len(t) = Len(s) + 1 /\ t[Len(s) + 1] = x /\ Len(s) \in Nat
        /\ \A i \in 1..Len(s) : t[i] = s[i]
    BY AppendProperties, LenProperties
  <2>2. x \in Calls => \A i \in 1..Len(s) : s[i] # x
    BY <1>1, LenProperties DEF Range
  <2> HIDE DEF t
  <2>3. ASSUME NEW i \in 1..Len(t), NEW j \in 1..Len(t), t[i] = t[j], t[i] \in Calls
        PROVE  i = j
    <3>1. (i \in 1..Len(s) \/ i = Len(s) + 1) /\ (j \in 1..Len(s) \/ j = Len(s) + 1)
      BY <2>1
    <3> QED
      BY <2>1, <2>2, <2>3, <3>1 DEF Once
  <2> QED
    BY <2>3 DEF Once, t
<1>2. ASSUME s # <<>>
      PROVE  Once(Tail(s)) /\ (Head(s) \in Calls => Head(s) \notin Range(Tail(s)))
  <2> DEFINE t == Tail(s)
  <2>1. /\ t \in Seq(S) /\ Len(t) = Len(s) - 1 /\ Head(s) = s[1]
        /\ \A i \in 1..Len(t) : t[i] = s[i + 1]
        /\ Len(s) \in Nat /\ Len(s) >= 1
    BY <1>2, HeadTailProperties, EmptySeq, LenProperties
  <2>2. DOMAIN t = 1..Len(t)
    BY <2>1, LenProperties
  <2> HIDE DEF t
  <2>3. Once(t)
    <3>1. ASSUME NEW i \in 1..Len(t), NEW j \in 1..Len(t), t[i] = t[j], t[i] \in Calls
          PROVE  i = j
      <4>1. i + 1 \in 1..Len(s) /\ j + 1 \in 1..Len(s) /\ s[i + 1] = s[j + 1]
            /\ s[i + 1] \in Calls
        BY <2>1, <3>1
      <4>2. i + 1 = j + 1
        BY <4>1 DEF Once
      <4> QED
        BY <4>2
    <3> QED
      BY <3>1 DEF Once
  <2>4. ASSUME s[1] \in Calls, s[1] \in Range(t)
        PROVE  FALSE
    <3>1. PICK i \in 1..Len(t) : s[1] = t[i]
      BY <2>2, <2>4 DEF Range
    <3>2. i + 1 \in 1..Len(s) /\ 1 \in 1..Len(s) /\ s[1] = s[i + 1]
      BY <2>1, <3>1
    <3>3. 1 = i + 1
      BY <2>4, <3>2 DEF Once
    <3> QED
      BY <3>3
  <2> QED
    BY <2>1, <2>3, <2>4 DEF t
<1> QED
  BY <1>1, <1>2

------------------------------------------------------------------------------
(* The inductive invariant.                                                *)

\* Thread, database lock and handle go together, and only a running actor has
\* operations in its channel.
ThreadOK ==
  /\ store = "closed" <=> actor = "none"
  /\ store = "opening" <=> actor \in {"starting", "bootstrapping"}
  /\ lock = "actor" <=> actor \in {"bootstrapping", "running"}
  /\ actor # "running" => queue = <<>>

\* What is in the channel was sent once, by a caller that waits or has gone away,
\* and has not been executed.
QueueOK ==
  /\ Once(queue)
  /\ \A c \in Calls :
       c \in Range(queue) => c \notin Range(log) /\ call[c] \in {"waiting", "cancelled"}

\* A call that was not sent, or was refused, has not been executed; one that was
\* executed has its own place in the log as its answer.
RepliesOK ==
  \A c \in Calls :
    /\ call[c] \in {"new", "sending", "refused"} => c \notin Range(log)
    /\ call[c] = "answered" => c \in Range(log)
    /\ c \in Range(log) <=> reply[c] # NoAnswer
    /\ reply[c] # NoAnswer => reply[c] \in 1..Len(log) /\ log[reply[c]] = c

ChannelInv == TypeOK /\ ThreadOK /\ QueueOK /\ RepliesOK

\* Opening, joining and the other process leave the calls alone.
LEMMA LifecycleOK ==
  ASSUME ChannelInv,
         \/ Open \/ ActorCreates \/ ActorNotReady \/ ActorReady
         \/ BootstrapFails \/ UnjoinedReleases \/ OtherProcess \/ Join
  PROVE  ChannelInv'
<1> USE DEF Open, ActorCreates, ActorNotReady, ActorReady, BootstrapFails, UnjoinedReleases,
            OtherProcess, Join
<1>1. UNCHANGED <<queue, call, reply, log>>
  OBVIOUS
<1>2. QueueOK' /\ RepliesOK'
  BY <1>1 DEF ChannelInv, QueueOK, RepliesOK, Once
<1>3. faults' \in 0..MaxFaults
  BY ChannelAssumption DEF ChannelInv, TypeOK
<1>4. store' \in Stores /\ actor' \in Actors /\ lock' \in LockStates
  BY DEF ChannelInv, TypeOK, Stores, Actors, LockStates
<1>5. TypeOK'
  BY <1>1, <1>3, <1>4 DEF ChannelInv, TypeOK
<1>6. ThreadOK'
  BY <1>1 DEF ChannelInv, TypeOK, ThreadOK, Stores, Actors, LockStates
<1> QED
  BY <1>2, <1>5, <1>6 DEF ChannelInv

\* What one caller does on its own: it begins, is refused, takes its answer or
\* goes away.
LEMMA CallerOK ==
  ASSUME ChannelInv, NEW c \in Calls,
         Begin(c) \/ SendRefused(c) \/ Receive(c) \/ ReplyDropped(c) \/ Cancel(c)
  PROVE  ChannelInv'
<1>1. UNCHANGED <<store, actor, lock, queue, reply, log, faults>>
  BY DEF Begin, SendRefused, Receive, ReplyDropped, Cancel
<1>2. PICK s \in CallStates : call' = [call EXCEPT ![c] = s]
  BY DEF Begin, SendRefused, Receive, ReplyDropped, Cancel, CallStates
<1>3. TypeOK' /\ ThreadOK'
  BY <1>1, <1>2 DEF ChannelInv, TypeOK, ThreadOK
<1>4. /\ call'[c] = s
      /\ \A d \in Calls : d # c => call'[d] = call[d]
  BY <1>2 DEF ChannelInv, TypeOK
<1>5. call[c] \in {"new", "sending", "waiting"}
  BY DEF Begin, SendRefused, Receive, ReplyDropped, Cancel, InFlight
<1>6. c \in Range(queue) => call'[c] \in {"waiting", "cancelled"}
  <2>1. ASSUME c \in Range(queue)
        PROVE  call[c] = "waiting" /\ c \notin Range(log) /\ actor = "running"
    <3>1. Range(<<>>) = {}
      BY DEF Range
    <3> QED
      BY <1>5, <2>1, <3>1 DEF ChannelInv, QueueOK, ThreadOK
  <2>2. reply[c] # NoAnswer => c \in Range(log)
    BY DEF ChannelInv, RepliesOK
  <2> QED
    BY <1>2, <1>4, <2>1, <2>2 DEF Begin, SendRefused, Receive, ReplyDropped, Cancel, ChannelInv,
       TypeOK
<1>7. QueueOK'
  BY <1>1, <1>4, <1>6 DEF ChannelInv, QueueOK, Once
<1>8. /\ call'[c] \in {"new", "sending", "refused"} => c \notin Range(log)
      /\ call'[c] = "answered" => c \in Range(log)
  BY <1>4 DEF Begin, SendRefused, Receive, ReplyDropped, Cancel, ChannelInv, RepliesOK, TypeOK
<1>9. RepliesOK'
  BY <1>1, <1>4, <1>8 DEF ChannelInv, RepliesOK
<1> QED
  BY <1>3, <1>7, <1>9 DEF ChannelInv

\* An operation enters the channel once, because its caller has not sent it before.
LEMMA SendOK ==
  ASSUME ChannelInv, NEW c \in Calls, Send(c)
  PROVE  ChannelInv'
<1> DEFINE S == Calls \cup {Shutdown}
<1>1. queue \in Seq(S) /\ Len(queue) < Capacity /\ queue' = Append(queue, c) /\ c \in S
  BY DEF ChannelInv, TypeOK, Send
<1>2. queue' \in Seq(S) /\ Len(queue') = Len(queue) + 1 /\ Len(queue) \in Nat
  BY <1>1, AppendProperties, LenProperties
<1>3. Range(queue') = Range(queue) \cup {c}
  BY <1>1, RangeFacts
<1>4. c \notin Range(queue) /\ c \notin Range(log)
  BY DEF Send, ChannelInv, QueueOK, RepliesOK
<1>5. Once(queue')
  BY <1>1, <1>4, OnceFacts DEF ChannelInv, QueueOK
<1>6. /\ call' = [call EXCEPT ![c] = "waiting"]
      /\ UNCHANGED <<store, actor, lock, reply, log, faults>> /\ actor = "running"
  BY DEF Send
<1>7. /\ call'[c] = "waiting" /\ call' \in [Calls -> CallStates]
      /\ \A d \in Calls : d # c => call'[d] = call[d]
  BY <1>6 DEF ChannelInv, TypeOK, CallStates
<1>8. TypeOK'
  BY <1>1, <1>2, <1>6, <1>7, ChannelAssumption DEF ChannelInv, TypeOK
<1>9. ThreadOK'
  BY <1>6 DEF ChannelInv, ThreadOK
<1>10. QueueOK'
  BY <1>3, <1>4, <1>5, <1>6, <1>7 DEF ChannelInv, QueueOK
<1>11. RepliesOK'
  BY <1>6, <1>7 DEF ChannelInv, RepliesOK
<1> QED
  BY <1>8, <1>9, <1>10, <1>11 DEF ChannelInv

\* What the actor's turn does to the channel and the log.
LEMMA ExecuteFacts ==
  ASSUME ChannelInv, Execute
  PROVE  /\ Head(queue) \in Calls
         /\ Range(queue) = Range(queue') \cup {Head(queue)}
         /\ Head(queue) \notin Range(queue')
         /\ Range(log') = Range(log) \cup {Head(queue)}
         /\ Head(queue) \notin Range(log)
         /\ call[Head(queue)] \in {"waiting", "cancelled"}
         /\ Len(log') = Len(log) + 1 /\ log'[Len(log')] = Head(queue)
         /\ \A i \in 1..Len(log) : log'[i] = log[i]
         /\ Len(log) \in Nat
         /\ queue' \in Seq(Calls \cup {Shutdown}) /\ Len(queue') = Len(queue) - 1
         /\ log' \in Seq(Calls) /\ Once(queue')
<1> DEFINE S == Calls \cup {Shutdown}
           c == Head(queue)
<1>1. queue \in Seq(S) /\ log \in Seq(Calls) /\ queue # <<>> /\ c # Shutdown
      /\ queue' = Tail(queue) /\ log' = Append(log, c)
  BY DEF ChannelInv, TypeOK, Execute
<1>2. c \in S /\ queue' \in Seq(S) /\ Len(queue') = Len(queue) - 1
  BY <1>1, HeadTailProperties
<1>3. c \in Calls
  BY <1>1, <1>2
<1>4. Range(queue) = Range(queue') \cup {c}
  BY <1>1, RangeFacts
<1>5. Once(queue') /\ c \notin Range(queue')
  BY <1>1, <1>3, OnceFacts DEF ChannelInv, QueueOK
<1>6. c \notin Range(log) /\ call[c] \in {"waiting", "cancelled"}
  BY <1>3, <1>4 DEF ChannelInv, QueueOK
<1> HIDE DEF c
<1>7. Range(log') = Range(log) \cup {c}
  BY <1>1, <1>3, RangeFacts
<1>8. /\ log' \in Seq(Calls) /\ Len(log') = Len(log) + 1 /\ log'[Len(log) + 1] = c
      /\ \A i \in 1..Len(log) : log'[i] = log[i]
      /\ Len(log) \in Nat
  BY <1>1, <1>3, AppendProperties, LenProperties
<1> QED
  BY <1>2, <1>3, <1>4, <1>5, <1>6, <1>7, <1>8 DEF c

\* The actor executes the operation at the head, once, and answers with its place.
LEMMA ExecuteOK ==
  ASSUME ChannelInv, Execute
  PROVE  ChannelInv'
<1> DEFINE c == Head(queue)
<1>1. /\ c \in Calls /\ c \notin Range(queue') /\ c \notin Range(log)
      /\ Range(queue) = Range(queue') \cup {c} /\ Range(log') = Range(log) \cup {c}
      /\ call[c] \in {"waiting", "cancelled"}
      /\ Len(log') = Len(log) + 1 /\ log'[Len(log')] = c
      /\ \A i \in 1..Len(log) : log'[i] = log[i]
      /\ Len(log) \in Nat
      /\ queue' \in Seq(Calls \cup {Shutdown}) /\ Len(queue') = Len(queue) - 1
      /\ log' \in Seq(Calls) /\ Once(queue')
  BY ExecuteFacts
<1>2. /\ reply' = [reply EXCEPT ![c] = Len(log')]
      /\ UNCHANGED <<store, actor, lock, call, faults>> /\ actor = "running"
  BY DEF Execute
<1>3. Len(queue) \in Nat
  BY LenProperties DEF ChannelInv, TypeOK
<1> HIDE DEF c
<1>4. /\ reply' \in [Calls -> Nat \cup {NoAnswer}] /\ reply'[c] = Len(log')
      /\ \A d \in Calls : d # c => reply'[d] = reply[d]
  BY <1>1, <1>2 DEF ChannelInv, TypeOK
<1>5. TypeOK'
  BY <1>1, <1>2, <1>3, <1>4, ChannelAssumption DEF ChannelInv, TypeOK
<1>6. ThreadOK'
  BY <1>2 DEF ChannelInv, ThreadOK
<1>7. QueueOK'
  BY <1>1, <1>2 DEF ChannelInv, QueueOK
<1>8. ASSUME NEW d \in Calls
      PROVE  /\ call'[d] \in {"new", "sending", "refused"} => d \notin Range(log')
             /\ call'[d] = "answered" => d \in Range(log')
             /\ d \in Range(log') <=> reply'[d] # NoAnswer
             /\ reply'[d] # NoAnswer => reply'[d] \in 1..Len(log') /\ log'[reply'[d]] = d
  <2>1. CASE d = c
    BY <1>1, <1>2, <1>4, <2>1, ChannelAssumption
  <2>2. CASE d # c
    BY <1>1, <1>2, <1>4, <2>2 DEF ChannelInv, RepliesOK
  <2> QED
    BY <2>1, <2>2
<1>9. RepliesOK'
  BY <1>8 DEF RepliesOK
<1> QED
  BY <1>5, <1>6, <1>7, <1>9 DEF ChannelInv

\* When the actor ends, by a panic or by Shutdown, its channel is dropped.
LEMMA EndOK ==
  ASSUME ChannelInv, ActorPanics \/ ActorStops
  PROVE  ChannelInv'
<1>1. /\ actor = "running" /\ actor' = "ended" /\ lock' = "free" /\ queue' = <<>>
      /\ UNCHANGED <<store, call, reply, log>>
  BY DEF ActorPanics, ActorStops
<1>2. faults' \in 0..MaxFaults
  BY ChannelAssumption DEF ActorPanics, ActorStops, ChannelInv, TypeOK
<1>3. Range(<<>>) = {} /\ Once(<<>>) /\ Len(<<>>) = 0 /\ <<>> \in Seq(Calls \cup {Shutdown})
  BY EmptySeq DEF Range, Once
<1>4. TypeOK'
  BY <1>1, <1>2, <1>3, ChannelAssumption DEF ChannelInv, TypeOK, Actors, LockStates
<1>5. ThreadOK'
  BY <1>1 DEF ChannelInv, ThreadOK
<1>6. QueueOK' /\ RepliesOK'
  BY <1>1, <1>3 DEF ChannelInv, QueueOK, RepliesOK
<1> QED
  BY <1>4, <1>5, <1>6 DEF ChannelInv

\* Drop adds Shutdown to the channel, or nothing.
LEMMA DropOK ==
  ASSUME ChannelInv, Drop
  PROVE  /\ ChannelInv'
         /\ \A c \in Calls : c \in Range(queue') <=> c \in Range(queue)
<1> DEFINE S == Calls \cup {Shutdown}
<1>1. queue \in Seq(S) /\ Shutdown \in S /\ Shutdown \notin Calls
      /\ Len(queue) \in Nat /\ Len(queue) <= Capacity /\ Capacity \in Nat
  BY ChannelAssumption, LenProperties DEF ChannelInv, TypeOK
<1>2. \/ queue' = queue
      \/ /\ queue' = Append(queue, Shutdown) /\ Len(queue) < Capacity
         /\ actor = "running"
  BY DEF Drop
<1>3. /\ queue' \in Seq(S) /\ Len(queue') <= Capacity /\ Once(queue')
      /\ \A c \in Calls : c \in Range(queue') <=> c \in Range(queue)
  <2>1. CASE queue' = queue
    BY <1>1, <2>1 DEF ChannelInv, QueueOK
  <2>2. CASE queue' = Append(queue, Shutdown) /\ Len(queue) < Capacity
    <3>1. queue' \in Seq(S) /\ Len(queue') = Len(queue) + 1
      BY <1>1, <2>2, AppendProperties
    <3>2. Range(queue') = Range(queue) \cup {Shutdown}
      BY <1>1, <2>2, RangeFacts
    <3>3. Once(queue')
      BY <1>1, <2>2, OnceFacts DEF ChannelInv, QueueOK
    <3> QED
      BY <1>1, <2>2, <3>1, <3>2, <3>3
  <2> QED
    BY <1>2, <2>1, <2>2
<1>4. /\ store = "open" /\ store' = "joining"
      /\ UNCHANGED <<actor, lock, call, reply, log, faults>>
  BY DEF Drop
<1>5. TypeOK'
  BY <1>3, <1>4 DEF ChannelInv, TypeOK, Stores
<1>6. ThreadOK'
  BY <1>2, <1>4 DEF ChannelInv, ThreadOK
<1>7. QueueOK' /\ RepliesOK'
  BY <1>3, <1>4 DEF ChannelInv, QueueOK, RepliesOK
<1> QED
  BY <1>3, <1>5, <1>6, <1>7 DEF ChannelInv

\* A crash takes channel and callers with it; the log stays.
LEMMA CrashOK ==
  ASSUME ChannelInv, Crash
  PROVE  ChannelInv'
<1>1. /\ store' = "closed" /\ actor' = "none" /\ queue' = <<>> /\ lock' # "actor"
      /\ lock' \in LockStates /\ UNCHANGED <<reply, log>>
  BY DEF Crash, ChannelInv, TypeOK, LockStates
<1>2. faults' \in 0..MaxFaults
  BY ChannelAssumption DEF Crash, ChannelInv, TypeOK
<1>3. Range(<<>>) = {} /\ Once(<<>>) /\ Len(<<>>) = 0 /\ <<>> \in Seq(Calls \cup {Shutdown})
  BY EmptySeq DEF Range, Once
<1>4. /\ call' \in [Calls -> CallStates]
      /\ \A c \in Calls : call'[c] = call[c] \/ call'[c] = "lost"
  BY DEF Crash, ChannelInv, TypeOK, CallStates
<1>5. TypeOK'
  BY <1>1, <1>2, <1>3, <1>4, ChannelAssumption DEF ChannelInv, TypeOK, Stores, Actors
<1>6. ThreadOK'
  BY <1>1 DEF ThreadOK
<1>7. QueueOK' /\ RepliesOK'
  BY <1>1, <1>3, <1>4 DEF ChannelInv, QueueOK, RepliesOK
<1> QED
  BY <1>5, <1>6, <1>7 DEF ChannelInv

\* Nothing has been sent at the start, and every step keeps the invariant.
LEMMA ChannelInvariant == Spec => []ChannelInv
<1>1. Init => ChannelInv
  <2> SUFFICES ASSUME Init
               PROVE  ChannelInv
    OBVIOUS
  <2>1. Range(<<>>) = {} /\ Once(<<>>) /\ Len(<<>>) = 0
        /\ <<>> \in Seq(Calls \cup {Shutdown}) /\ <<>> \in Seq(Calls)
    BY EmptySeq DEF Range, Once
  <2> QED
    BY <2>1, ChannelAssumption DEF Init, ChannelInv, TypeOK, ThreadOK, QueueOK, RepliesOK,
         Stores, Actors, LockStates, CallStates
<1>2. ChannelInv /\ [Next]_vars => ChannelInv'
  <2> SUFFICES ASSUME ChannelInv, [Next]_vars
               PROVE  ChannelInv'
    OBVIOUS
  <2>1. CASE UNCHANGED vars
    BY <2>1 DEF vars, ChannelInv, TypeOK, ThreadOK, QueueOK, RepliesOK, Once
  <2> QED
    BY <2>1, LifecycleOK, CallerOK, SendOK, ExecuteOK, EndOK, DropOK, CrashOK DEF Next
<1> QED
  BY <1>1, <1>2, PTL DEF Spec

\* Every variable always has its type; in particular the channel never holds more
\* than its capacity, whatever the callers and the actor do.
THEOREM ChannelTypeCorrect == Spec => []TypeOK
<1>1. ChannelInv => TypeOK
  BY DEF ChannelInv
<1> QED
  BY <1>1, ChannelInvariant, PTL

\* When Drop has returned or the process has died, no thread of this process holds
\* the database, and none ever does that open has left behind but one that failed
\* in bootstrap_tables.
THEOREM ClosedIsUnlocked == Spec => []ClosedMeansUnlocked
<1>1. ChannelInv => ClosedMeansUnlocked
  BY DEF ChannelInv, TypeOK, LockStates, ThreadOK, ClosedMeansUnlocked
<1> QED
  BY <1>1, ChannelInvariant, PTL

------------------------------------------------------------------------------
(* The channel implements atomic calls.                                    *)

AbstractAnswer ==
  [c \in Calls |-> IF call[c] = "answered" THEN reply[c] ELSE NoAnswer]

\* What AbstractStatus is for one call, by cases.
LEMMA StatusCases ==
  ASSUME ChannelInv, NEW c \in Calls
  PROVE  /\ c \in Range(log) /\ call[c] = "answered" => AbstractStatus[c] = "answered"
         /\ c \in Range(log) /\ call[c] # "answered" => AbstractStatus[c] = "applied"
         /\ c \notin Range(log) /\ call[c] = "new" => AbstractStatus[c] = "new"
         /\ c \notin Range(log) /\ call[c] = "refused" => AbstractStatus[c] = "refused"
         /\ c \notin Range(log) /\ (call[c] \in {"sending", "waiting"} \/ c \in Range(queue))
              => AbstractStatus[c] = "open"
         /\ c \notin Range(log) /\ call[c] \notin {"new", "refused", "sending", "waiting"}
              /\ c \notin Range(queue) => AbstractStatus[c] = "lost"
BY DEF AbstractStatus, InFlight, ChannelInv, QueueOK, RepliesOK

\* The same after a step.
LEMMA StatusCasesNext ==
  ASSUME ChannelInv', NEW c \in Calls
  PROVE  /\ c \in Range(log') /\ call'[c] = "answered" => AbstractStatus'[c] = "answered"
         /\ c \in Range(log') /\ call'[c] # "answered" => AbstractStatus'[c] = "applied"
         /\ c \notin Range(log') /\ call'[c] = "new" => AbstractStatus'[c] = "new"
         /\ c \notin Range(log') /\ call'[c] = "refused" => AbstractStatus'[c] = "refused"
         /\ c \notin Range(log') /\ (call'[c] \in {"sending", "waiting"} \/ c \in Range(queue'))
              => AbstractStatus'[c] = "open"
         /\ c \notin Range(log') /\ call'[c] \notin {"new", "refused", "sending", "waiting"}
              /\ c \notin Range(queue') => AbstractStatus'[c] = "lost"
BY DEF AbstractStatus, InFlight, ChannelInv, QueueOK, RepliesOK

\* A step that changes the status of one call, to s.
LEMMA OneStatus ==
  ASSUME NEW c \in Calls, NEW s, AbstractStatus'[c] = s,
         \A d \in Calls : d # c => AbstractStatus'[d] = AbstractStatus[d]
  PROVE  AbstractStatus' = [AbstractStatus EXCEPT ![c] = s]
BY DEF AbstractStatus

\* A step that changes no status.
LEMMA NoStatus ==
  ASSUME \A d \in Calls : AbstractStatus'[d] = AbstractStatus[d]
  PROVE  AbstractStatus' = AbstractStatus
BY DEF AbstractStatus

\* Open calls may be lost together.
LEMMA Losing ==
  ASSUME \A d \in Calls : \/ AbstractStatus'[d] = AbstractStatus[d]
                          \/ AbstractStatus[d] = "open" /\ AbstractStatus'[d] = "lost",
         UNCHANGED <<log, AbstractAnswer>>
  PROVE  Abstract!Next
<1> DEFINE lost == {d \in Calls : AbstractStatus[d] = "open" /\ AbstractStatus'[d] = "lost"}
<1>1. lost \in SUBSET {d \in Calls : AbstractStatus[d] = "open"}
  OBVIOUS
<1>2. AbstractStatus' = [d \in Calls |-> IF d \in lost THEN "lost" ELSE AbstractStatus[d]]
  BY DEF AbstractStatus
<1> HIDE DEF lost
<1>3. Abstract!Lose
  BY <1>1, <1>2 DEF Abstract!Lose, AbstractAnswer
<1> QED
  BY <1>3 DEF Abstract!Next

\* Nothing that the abstract call knows of changes.
LEMMA Stutters ==
  ASSUME ChannelInv, ChannelInv', UNCHANGED <<call, reply, log>>,
         \A c \in Calls : c \in Range(queue') <=> c \in Range(queue)
  PROVE  UNCHANGED <<AbstractStatus, log, AbstractAnswer>>
<1>1. ASSUME NEW d \in Calls
      PROVE  AbstractStatus'[d] = AbstractStatus[d]
  BY DEF AbstractStatus, InFlight
<1> QED
  BY <1>1, NoStatus DEF AbstractAnswer

\* A step of one caller that changes its own state from a to b.
LEMMA CallerKeepsOthers ==
  ASSUME ChannelInv, NEW c \in Calls, NEW b, call' = [call EXCEPT ![c] = b],
         UNCHANGED <<reply, log>>,
         \A d \in Calls : d # c => (d \in Range(queue') <=> d \in Range(queue))
  PROVE  /\ call'[c] = b
         /\ \A d \in Calls : d # c => AbstractStatus'[d] = AbstractStatus[d]
         /\ b # "answered" /\ call[c] # "answered" => UNCHANGED AbstractAnswer
<1>1. call'[c] = b /\ \A d \in Calls : d # c => call'[d] = call[d]
  BY DEF ChannelInv, TypeOK
<1>2. ASSUME NEW d \in Calls, d # c
      PROVE  AbstractStatus'[d] = AbstractStatus[d]
  BY <1>1, <1>2 DEF AbstractStatus, InFlight
<1>3. ASSUME b # "answered", call[c] # "answered"
      PROVE  UNCHANGED AbstractAnswer
  BY <1>1, <1>3 DEF AbstractAnswer
<1> QED
  BY <1>1, <1>2, <1>3

\* What a caller does is a step of its abstract call, or none.
LEMMA CallerRefines ==
  ASSUME ChannelInv, ChannelInv', NEW c \in Calls,
         \/ Begin(c) \/ Send(c) \/ SendRefused(c) \/ Receive(c) \/ ReplyDropped(c) \/ Cancel(c)
  PROVE  Abstract!Next \/ UNCHANGED <<AbstractStatus, log, AbstractAnswer>>
<1>1. CASE Begin(c)
  <2>1. /\ call'[c] = "sending" /\ UNCHANGED <<log, AbstractAnswer>>
        /\ \A d \in Calls : d # c => AbstractStatus'[d] = AbstractStatus[d]
    BY <1>1, CallerKeepsOthers DEF Begin
  <2>2. AbstractStatus[c] = "new" /\ AbstractStatus'[c] = "open"
    BY <1>1, <2>1, StatusCases, StatusCasesNext DEF Begin, ChannelInv, RepliesOK
  <2>3. AbstractStatus' = [AbstractStatus EXCEPT ![c] = "open"]
    BY <2>1, <2>2, OneStatus
  <2>4. Abstract!Begin(c)
    BY <2>1, <2>2, <2>3 DEF Abstract!Begin, AbstractAnswer
  <2> QED
    BY <2>4 DEF Abstract!Next
<1>2. CASE Send(c)
  <2> DEFINE S == Calls \cup {Shutdown}
  <2>0. queue \in Seq(S) /\ queue' = Append(queue, c) /\ c \in S
    BY <1>2 DEF ChannelInv, TypeOK, Send
  <2>1. Range(queue') = Range(queue) \cup {c}
    BY <2>0, RangeFacts
  <2>2. /\ call'[c] = "waiting" /\ UNCHANGED <<log, AbstractAnswer>>
        /\ \A d \in Calls : d # c => AbstractStatus'[d] = AbstractStatus[d]
    BY <1>2, <2>1, CallerKeepsOthers DEF Send
  <2>3. AbstractStatus[c] = "open" /\ AbstractStatus'[c] = "open"
    BY <1>2, <2>2, StatusCases, StatusCasesNext DEF Send, ChannelInv, RepliesOK
  <2>4. AbstractStatus' = AbstractStatus
    BY <2>2, <2>3, NoStatus
  <2> QED
    BY <2>2, <2>4
<1>3. CASE SendRefused(c) \/ ReplyDropped(c)
  <2>1. /\ call[c] \in {"sending", "waiting"} /\ c \notin Range(log)
        /\ call' = [call EXCEPT ![c] = "refused"] /\ UNCHANGED <<reply, log, queue>>
    BY <1>3 DEF SendRefused, ReplyDropped, ChannelInv, RepliesOK
  <2>2. /\ call'[c] = "refused" /\ UNCHANGED <<log, AbstractAnswer>>
        /\ \A d \in Calls : d # c => AbstractStatus'[d] = AbstractStatus[d]
    BY <2>1, CallerKeepsOthers
  <2>3. AbstractStatus[c] = "open" /\ AbstractStatus'[c] = "refused"
    BY <2>1, <2>2, StatusCases, StatusCasesNext
  <2>4. AbstractStatus' = [AbstractStatus EXCEPT ![c] = "refused"]
    BY <2>2, <2>3, OneStatus
  <2>5. Abstract!Refuse(c)
    BY <2>2, <2>3, <2>4 DEF Abstract!Refuse, AbstractAnswer
  <2> QED
    BY <2>5 DEF Abstract!Next
<1>4. CASE Receive(c)
  <2>1. /\ call[c] = "waiting" /\ reply[c] # NoAnswer /\ c \in Range(log)
        /\ reply[c] \in 1..Len(log) /\ log[reply[c]] = c
        /\ call' = [call EXCEPT ![c] = "answered"] /\ UNCHANGED <<reply, log, queue>>
    BY <1>4 DEF Receive, ChannelInv, RepliesOK
  <2>2. /\ call'[c] = "answered"
        /\ \A d \in Calls : d # c => AbstractStatus'[d] = AbstractStatus[d]
    BY <2>1, CallerKeepsOthers
  <2>3. AbstractStatus[c] = "applied" /\ AbstractStatus'[c] = "answered"
    BY <2>1, <2>2, StatusCases, StatusCasesNext
  <2>4. AbstractStatus' = [AbstractStatus EXCEPT ![c] = "answered"]
    BY <2>2, <2>3, OneStatus
  <2>5. AbstractAnswer' = [AbstractAnswer EXCEPT ![c] = reply[c]]
    BY <2>1 DEF AbstractAnswer, ChannelInv, TypeOK
  <2>6. DOMAIN log = 1..Len(log)
    BY LenProperties DEF ChannelInv, TypeOK
  <2>7. Abstract!Answer(c)
    BY <2>1, <2>3, <2>4, <2>5, <2>6 DEF Abstract!Answer, AbstractAnswer
  <2> QED
    BY <2>7 DEF Abstract!Next
<1>5. CASE Cancel(c)
  <2>1. /\ call[c] \in {"sending", "waiting"}
        /\ call' = [call EXCEPT ![c] = "cancelled"] /\ UNCHANGED <<reply, log, queue>>
    BY <1>5 DEF Cancel, InFlight
  <2>2. /\ call'[c] = "cancelled" /\ UNCHANGED <<log, AbstractAnswer>>
        /\ \A d \in Calls : d # c => AbstractStatus'[d] = AbstractStatus[d]
    BY <2>1, CallerKeepsOthers
  <2>3. \/ AbstractStatus'[c] = AbstractStatus[c]
        \/ AbstractStatus[c] = "open" /\ AbstractStatus'[c] = "lost"
    BY <2>1, <2>2, StatusCases, StatusCasesNext
  <2>4. Abstract!Next
    BY <2>2, <2>3, Losing
  <2> QED
    BY <2>4
<1> QED
  BY <1>1, <1>2, <1>3, <1>4, <1>5

\* The actor's turn is the moment at which a call takes effect.
LEMMA ExecuteRefines ==
  ASSUME ChannelInv, ChannelInv', Execute
  PROVE  Abstract!Next
<1> DEFINE c == Head(queue)
<1>1. /\ c \in Calls /\ c \notin Range(queue') /\ c \notin Range(log)
      /\ Range(queue) = Range(queue') \cup {c} /\ Range(log') = Range(log) \cup {c}
      /\ call[c] \in {"waiting", "cancelled"}
  BY ExecuteFacts
<1>2. /\ reply' = [reply EXCEPT ![c] = Len(log')] /\ UNCHANGED call
      /\ log' = Append(log, c)
  BY DEF Execute
<1> HIDE DEF c
<1>3. AbstractStatus[c] = "open" /\ AbstractStatus'[c] = "applied"
  BY <1>1, <1>2, StatusCases, StatusCasesNext
<1>4. ASSUME NEW d \in Calls, d # c
      PROVE  AbstractStatus'[d] = AbstractStatus[d]
  BY <1>1, <1>2, <1>4 DEF AbstractStatus, InFlight
<1>5. AbstractStatus' = [AbstractStatus EXCEPT ![c] = "applied"]
  BY <1>1, <1>3, <1>4, OneStatus
<1>6. AbstractAnswer' = AbstractAnswer
  <2>1. \A d \in Calls : call[d] = "answered" => reply'[d] = reply[d]
    BY <1>1, <1>2 DEF ChannelInv, TypeOK
  <2> QED
    BY <1>2, <2>1 DEF AbstractAnswer
<1>7. Abstract!Apply(c)
  BY <1>2, <1>3, <1>5, <1>6 DEF Abstract!Apply, AbstractAnswer
<1> QED
  BY <1>1, <1>7 DEF Abstract!Next

\* A panic, a shutdown and a crash lose what nobody can wait for any more.
LEMMA EndRefines ==
  ASSUME ChannelInv, ChannelInv', ActorPanics \/ ActorStops \/ Crash
  PROVE  Abstract!Next
<1>1. /\ queue' = <<>> /\ UNCHANGED <<reply, log>>
      /\ \A c \in Calls : \/ call'[c] = call[c]
                          \/ call[c] \in {"sending", "waiting"} /\ call'[c] = "lost"
  BY DEF ActorPanics, ActorStops, Crash, InFlight
<1>2. Range(<<>>) = {}
  BY DEF Range
<1>3. ASSUME NEW d \in Calls
      PROVE  \/ AbstractStatus'[d] = AbstractStatus[d]
             \/ AbstractStatus[d] = "open" /\ AbstractStatus'[d] = "lost"
  BY <1>1, <1>2, StatusCases, StatusCasesNext DEF ChannelInv, TypeOK, CallStates
<1>4. UNCHANGED AbstractAnswer
  BY <1>1 DEF AbstractAnswer
<1> QED
  BY <1>1, <1>3, <1>4, Losing

\* dispatch is an atomic call: whatever is cancelled, wherever the actor panics and
\* whenever the process dies, an operation is executed at most once, within its
\* call, and ActorDied means that it was not and will not be.
THEOREM DispatchIsAtomic == Spec => CallsAreAtomic
<1>1. Init => Abstract!Init
  <2>1. Range(<<>>) = {}
    BY DEF Range
  <2> QED
    BY <2>1 DEF Init, Abstract!Init, AbstractStatus
<1>2. ChannelInv /\ ChannelInv' /\ [Next]_vars
        => [Abstract!Next]_(Abstract!absVars)
  <2> SUFFICES ASSUME ChannelInv, ChannelInv', [Next]_vars
               PROVE  Abstract!Next \/ UNCHANGED <<AbstractStatus, log, AbstractAnswer>>
    BY DEF Abstract!absVars, AbstractAnswer
  <2>1. CASE UNCHANGED vars
    BY <2>1, Stutters DEF vars
  <2>2. CASE \/ Open \/ ActorCreates \/ ActorNotReady \/ ActorReady
             \/ BootstrapFails \/ UnjoinedReleases \/ OtherProcess \/ Join
    <3>1. UNCHANGED <<queue, call, reply, log>>
      BY <2>2 DEF Open, ActorCreates, ActorNotReady, ActorReady, BootstrapFails,
           UnjoinedReleases, OtherProcess, Join
    <3> QED
      BY <3>1, Stutters
  <2>3. CASE Drop
    <3>1. UNCHANGED <<call, reply, log>>
      BY <2>3 DEF Drop
    <3> QED
      BY <2>3, <3>1, DropOK, Stutters
  <2> QED
    BY <2>1, <2>2, <2>3, CallerRefines, ExecuteRefines, EndRefines DEF Next
<1> QED
  BY <1>1, <1>2, ChannelInvariant, PTL DEF Spec, CallsAreAtomic, Abstract!Spec
==============================================================================
