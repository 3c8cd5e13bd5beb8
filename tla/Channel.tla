------------------------------- MODULE Channel -------------------------------
(***************************************************************************)
(* How the callers of the metadata store reach the thread that owns the    *)
(* database (src/src/storage/db/mod.rs and actor::run): a bounded channel  *)
(* of operations, a one-shot channel for each answer, the opening of the   *)
(* store and its Drop, which asks the thread to stop and joins it.         *)
(*                                                                         *)
(* Tables and operations are those of MetaStore; here an operation is a    *)
(* call, its effect a place in the log of committed transactions.  A       *)
(* caller is a future: it may be dropped at each of its awaits, and what   *)
(* it has sent stays in the channel.                                       *)
(***************************************************************************)
EXTENDS Naturals, Sequences, FiniteSets, Functions

CONSTANTS
  Calls,      \* calls, each made once
  Capacity,   \* operations the channel holds: 256
  Shutdown,   \* the message Op::Shutdown
  NoAnswer,   \* nothing in a one-shot channel
  MaxFaults   \* bound: crashes, panics and failures to open

ASSUME ChannelAssumption ==
  /\ Capacity \in Nat \ {0}
  /\ Shutdown \notin Calls
  /\ NoAnswer \notin Nat
  /\ MaxFaults \in Nat

VARIABLES
  store,   \* the MetaStore value of this process
  actor,   \* the thread s3lite-redb
  lock,    \* who has the database file open; redb lets one
  queue,   \* the channel
  call,    \* where each caller is
  reply,   \* what the one-shot channel of each call holds
  log,     \* the transactions committed so far, on disk
  faults   \* for the bound

vars == <<store, actor, lock, queue, call, reply, log, faults>>

Stores == {"closed", "opening", "open", "joining"}

Actors == {"none", "starting", "bootstrapping", "running", "ended"}

\* unjoined: the thread of an open that has failed and returned.
LockStates == {"free", "actor", "unjoined", "other"}

\* sending: waits for room in the channel.  waiting: waits for the answer.
CallStates == {"new", "sending", "waiting", "answered", "refused", "cancelled",
               "lost"}

InFlight == {c \in Calls : call[c] \in {"sending", "waiting"}}

Init ==
  /\ store = "closed"
  /\ actor = "none"
  /\ lock = "free"
  /\ queue = <<>>
  /\ call = [c \in Calls |-> "new"]
  /\ reply = [c \in Calls |-> NoAnswer]
  /\ log = <<>>
  /\ faults = 0

------------------------------------------------------------------------------
(* Opening.                                                                *)

\* MetaStore::open up to its await: the thread is spawned.
Open ==
  /\ store = "closed"
  /\ store' = "opening"
  /\ actor' = "starting"
  /\ UNCHANGED <<lock, queue, call, reply, log, faults>>

\* Database::create takes the file's lock.
ActorCreates ==
  /\ actor = "starting"
  /\ lock = "free"
  /\ lock' = "actor"
  /\ actor' = "bootstrapping"
  /\ UNCHANGED <<store, queue, call, reply, log, faults>>

\* Someone has the file, or it cannot be read: the thread ends and open returns
\* the error.
ActorNotReady ==
  /\ actor = "starting"
  /\ \/ lock # "free" /\ UNCHANGED faults
     \/ faults < MaxFaults /\ faults' = faults + 1
  /\ actor' = "none"
  /\ store' = "closed"
  /\ UNCHANGED <<lock, queue, call, reply, log>>

\* bootstrap_tables has created the tables, and open returns the handle.
ActorReady ==
  /\ actor = "bootstrapping"
  /\ actor' = "running"
  /\ store' = "open"
  /\ UNCHANGED <<lock, queue, call, reply, log, faults>>

\* bootstrap_tables fails: open returns the error and forgets the thread, which
\* has yet to drop the database.
BootstrapFails ==
  /\ actor = "bootstrapping"
  /\ faults < MaxFaults
  /\ faults' = faults + 1
  /\ actor' = "none"
  /\ lock' = "unjoined"
  /\ store' = "closed"
  /\ UNCHANGED <<queue, call, reply, log>>

\* The forgotten thread returns, or its process exits.
UnjoinedReleases ==
  /\ lock = "unjoined"
  /\ lock' = "free"
  /\ UNCHANGED <<store, actor, queue, call, reply, log, faults>>

\* A second process, such as a backup, opens the same data directory or closes
\* it again.
OtherProcess ==
  /\ \/ lock = "free" /\ lock' = "other"
     \/ lock = "other" /\ lock' = "free"
  /\ UNCHANGED <<store, actor, queue, call, reply, log, faults>>

------------------------------------------------------------------------------
(* A call: dispatch and the loop of the actor.                             *)

Begin(c) ==
  /\ store = "open"
  /\ call[c] = "new"
  /\ call' = [call EXCEPT ![c] = "sending"]
  /\ UNCHANGED <<store, actor, lock, queue, reply, log, faults>>

\* Mutant of Send: the channel has no bound.
SendUnbounded(c) ==
  /\ call[c] = "sending"
  /\ actor = "running"
  /\ queue' = Append(queue, c)
  /\ call' = [call EXCEPT ![c] = "waiting"]
  /\ UNCHANGED <<store, actor, lock, reply, log, faults>>

\* sender.send: waits while the channel is full.
Send(c) ==
  /\ call[c] = "sending"
  /\ actor = "running"
  /\ Len(queue) < Capacity
  /\ queue' = Append(queue, c)
  /\ call' = [call EXCEPT ![c] = "waiting"]
  /\ UNCHANGED <<store, actor, lock, reply, log, faults>>

\* The receiver is gone: MetaError::ActorDied.
SendRefused(c) ==
  /\ call[c] = "sending"
  /\ actor = "ended"
  /\ call' = [call EXCEPT ![c] = "refused"]
  /\ UNCHANGED <<store, actor, lock, queue, reply, log, faults>>

\* One turn of the actor's loop: the transaction commits and the answer is sent,
\* whether or not someone still waits for it.
Execute ==
  /\ actor = "running"
  /\ queue # <<>>
  /\ Head(queue) # Shutdown
  /\ queue' = Tail(queue)
  /\ log' = Append(log, Head(queue))
  /\ reply' = [reply EXCEPT ![Head(queue)] = Len(log')]
  /\ UNCHANGED <<store, actor, lock, call, faults>>

Receive(c) ==
  /\ call[c] = "waiting"
  /\ reply[c] # NoAnswer
  /\ call' = [call EXCEPT ![c] = "answered"]
  /\ UNCHANGED <<store, actor, lock, queue, reply, log, faults>>

\* Mutant of ReplyDropped: only an answer ends the wait.
ReplyAwaited(c) ==
  /\ call[c] = "waiting"
  /\ actor = "ended"
  /\ reply[c] # NoAnswer
  /\ call' = [call EXCEPT ![c] = "refused"]
  /\ UNCHANGED <<store, actor, lock, queue, reply, log, faults>>

\* The operation was dropped with the actor, and its one-shot sender with it.
ReplyDropped(c) ==
  /\ call[c] = "waiting"
  /\ actor = "ended"
  /\ reply[c] = NoAnswer
  /\ call' = [call EXCEPT ![c] = "refused"]
  /\ UNCHANGED <<store, actor, lock, queue, reply, log, faults>>

\* The caller's future is dropped, say because its client disconnected.
Cancel(c) ==
  /\ c \in InFlight
  /\ call' = [call EXCEPT ![c] = "cancelled"]
  /\ UNCHANGED <<store, actor, lock, queue, reply, log, faults>>

\* Mutant of ActorPanics: the panic comes after the commit.
ActorPanicsLate ==
  /\ actor = "running"
  /\ queue # <<>>
  /\ Head(queue) # Shutdown
  /\ faults < MaxFaults
  /\ actor' = "ended"
  /\ lock' = "free"
  /\ queue' = <<>>
  /\ log' = Append(log, Head(queue))
  /\ faults' = faults + 1
  /\ UNCHANGED <<store, call, reply>>

\* A handler panics before its commit, after which none does anything but build
\* its answer: the thread unwinds, which drops the
\* transaction, the database, the receiver and every operation in the channel.
ActorPanics ==
  /\ actor = "running"
  /\ queue # <<>>
  /\ Head(queue) # Shutdown
  /\ faults < MaxFaults
  /\ actor' = "ended"
  /\ lock' = "free"
  /\ queue' = <<>>
  /\ faults' = faults + 1
  /\ UNCHANGED <<store, call, reply, log>>

------------------------------------------------------------------------------
(* Closing.                                                                *)

\* Mutant of Drop: the thread is not joined.
DropDetached ==
  /\ store = "open"
  /\ InFlight = {}
  /\ store' = "closed"
  /\ queue' = IF actor = "running" /\ Len(queue) < Capacity
              THEN Append(queue, Shutdown) ELSE queue
  /\ UNCHANGED <<actor, lock, call, reply, log, faults>>

\* Drop of the last handle, so nobody is inside a call; operations of callers
\* that were dropped may still be in the channel.  try_send gives up when the
\* channel is full or the actor is gone.  Then the thread is joined.
Drop ==
  /\ store = "open"
  /\ InFlight = {}
  /\ store' = "joining"
  /\ queue' = IF actor = "running" /\ Len(queue) < Capacity
              THEN Append(queue, Shutdown) ELSE queue
  /\ UNCHANGED <<actor, lock, call, reply, log, faults>>

\* Mutant of ActorStops: takes Shutdown off the channel and goes on.
ActorIgnoresShutdown ==
  /\ actor = "running"
  /\ queue # <<>>
  /\ Head(queue) = Shutdown
  /\ queue' = Tail(queue)
  /\ UNCHANGED <<store, actor, lock, call, reply, log, faults>>

\* Op::Shutdown: the loop ends, the database and the receiver are dropped.
ActorStops ==
  /\ actor = "running"
  /\ queue # <<>>
  /\ Head(queue) = Shutdown
  /\ actor' = "ended"
  /\ lock' = "free"
  /\ queue' = <<>>
  /\ UNCHANGED <<store, call, reply, log, faults>>

Join ==
  /\ store = "joining"
  /\ actor = "ended"
  /\ store' = "closed"
  /\ actor' = "none"
  /\ UNCHANGED <<lock, queue, call, reply, log, faults>>

\* The process dies.  What was committed is on disk; channel, answers and
\* callers are gone, and so is the lock.
Crash ==
  /\ store # "closed"
  /\ faults < MaxFaults
  /\ store' = "closed"
  /\ actor' = "none"
  /\ lock' = IF lock \in {"actor", "unjoined"} THEN "free" ELSE lock
  /\ queue' = <<>>
  /\ call' = [c \in Calls |-> IF c \in InFlight THEN "lost" ELSE call[c]]
  /\ faults' = faults + 1
  /\ UNCHANGED <<reply, log>>

------------------------------------------------------------------------------

Next ==
  \/ Open \/ ActorCreates \/ ActorNotReady \/ ActorReady
  \/ BootstrapFails \/ UnjoinedReleases \/ OtherProcess
  \/ \E c \in Calls : \/ Begin(c) \/ Send(c) \/ SendRefused(c)
                      \/ Receive(c) \/ ReplyDropped(c) \/ Cancel(c)
  \/ Execute \/ ActorPanics
  \/ Drop \/ ActorStops \/ Join
  \/ Crash

\* The operating system schedules the thread and tokio the callers.  Callers
\* that wait for room get it in the order they came (a fair semaphore), hence
\* strong fairness of Send.  No fairness of Open, Begin, Cancel or Drop.
Fairness ==
  /\ WF_vars(ActorCreates \/ ActorNotReady) /\ WF_vars(ActorReady)
  /\ WF_vars(UnjoinedReleases)
  /\ WF_vars(Execute) /\ WF_vars(ActorStops) /\ WF_vars(Join)
  /\ \A c \in Calls : /\ SF_vars(Send(c))
                      /\ WF_vars(SendRefused(c) \/ Receive(c) \/ ReplyDropped(c))

Spec == Init /\ [][Next]_vars /\ Fairness

------------------------------------------------------------------------------
(* Properties.                                                             *)

\* Every variable holds a value of its type and the channel is never fuller
\* than its capacity.
TypeOK ==
  /\ store \in Stores
  /\ actor \in Actors
  /\ lock \in LockStates
  /\ queue \in Seq(Calls \cup {Shutdown})
  /\ Len(queue) <= Capacity
  /\ call \in [Calls -> CallStates]
  /\ reply \in [Calls -> Nat \cup {NoAnswer}]
  /\ log \in Seq(Calls)
  /\ faults \in 0..MaxFaults

\* A call as its callers may understand it.  A refused one is refused whatever
\* the log says, so that one that was executed all the same would be seen.  One
\* that was cancelled is open while its operation is in the channel.
AbstractStatus ==
  [c \in Calls |->
     IF call[c] = "refused" THEN "refused"
     ELSE IF c \in Range(log)
          THEN IF call[c] = "answered" THEN "answered" ELSE "applied"
     ELSE IF call[c] = "new" THEN "new"
     ELSE IF c \in InFlight \cup Range(queue) THEN "open"
     ELSE "lost"]

Abstract ==
  INSTANCE AtomicCalls
    WITH status <- AbstractStatus,
         answer <- [c \in Calls |->
                      IF call[c] = "answered" THEN reply[c] ELSE NoAnswer]

\* dispatch is an atomic call.  Whatever is cancelled, whenever the actor
\* panics or the process dies, an operation is executed at most once, inside
\* its call; its caller gets its own answer; and ActorDied means that nothing
\* has happened and nothing will.
CallsAreAtomic == Abstract!Spec

\* When Drop has returned, or the process has died, or open was refused the file,
\* no thread of this process holds the database: whoever opens the data directory
\* next is not turned away by a thread that lingers.  This is what the join in
\* Drop is for.  The exception is an open that failed in bootstrap_tables: nobody
\* joins its thread, and an open that follows at once may be refused because of
\* it.
ClosedMeansUnlocked ==
  store = "closed" => actor = "none" /\ lock \in {"free", "unjoined", "other"}

\* Every call ends, with an answer or with ActorDied, however full the channel
\* was and whatever became of the actor.
EveryCallEnds == \A c \in Calls : c \in InFlight ~> c \notin InFlight

\* Drop returns if its Shutdown found room or the actor is gone.  (If it found
\* none, the thread executes what is in the channel and waits for ever for the
\* next operation, because the sender it waits for belongs to the store that is
\* being dropped; Drop waits for the thread.)
DropReturns ==
  (store = "joining" /\ (Shutdown \in Range(queue) \/ actor = "ended"))
    ~> store = "closed"

==============================================================================
