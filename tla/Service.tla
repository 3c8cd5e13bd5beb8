------------------------------ MODULE Service ------------------------------
(***************************************************************************)
(* The process around the store: it boots from a configuration file        *)
(* (main.rs, serve_command), publishes a new configuration on SIGHUP       *)
(* (reload_loop), takes requests through signature check, routing and      *)
(* handler (auth.rs, dispatch.rs), and notifies the webhooks subscribed to *)
(* what a handler committed (events.rs), with one retry and a dead-letter  *)
(* queue.  An operator edits the file, signals and stops the process; the  *)
(* process may crash; a client may go away.                                *)
(*                                                                         *)
(* A request reads the published configuration three times, at three       *)
(* different moments: on entry for its signature, in dispatch for its      *)
(* address, and in emit for the subscriptions.                             *)
(*                                                                         *)
(* What a handler does to the store is the subject of other modules; here  *)
(* it commits or it does not.                                              *)
(***************************************************************************)
EXTENDS Dispatch, Functions

CONSTANTS
  Reqs,
  Workload,   \* [Reqs -> sets of requests, see Dispatch]
  Files,      \* contents that the configuration file may have
  FirstFile,  \* the one it has at first
  MaxRetries, \* MAX_RETRIES
  MaxEdits, MaxHups, MaxFaults, \* bounds on the environment
  None        \* no request, no event

ASSUME ServiceAssumption ==
  /\ FirstFile \in Files
  /\ {MaxRetries, MaxEdits, MaxHups, MaxFaults} \subseteq Nat

VARIABLES
  file,      \* the content of config.toml
  current,   \* the published configuration (AppState::config), NoConfig while down
  cert,      \* what the TLS listener presents; NoCert: plain HTTP
  hup,       \* a SIGHUP is pending
  reload,    \* reload_loop: "idle", or "cert" between its two steps
  proc,      \* "down", "up", or "draining" after SIGTERM
  req, task, \* requests, deliveries
  dlq,       \* the EVENTS_DLQ table: key -> delivery
  used       \* how often each bounded thing has happened

config == <<file, current, cert, hup, reload>>
vars == <<config, proc, req, task, dlq, used>>

Subs == UNION {LoadConfig(f).subs : f \in {g \in Files : LoadConfig(g) # NoConfig}}
Deliveries == Reqs \X Subs
Bounds == [edits |-> MaxEdits, hups |-> MaxHups, faults |-> MaxFaults]

\* A bounded thing happens once more.
Use(thing) ==
  /\ used[thing] < Bounds[thing]
  /\ used' = [used EXCEPT ![thing] = @ + 1]

Blank(pc) == [pc |-> pc, q |-> None, entry |-> NoConfig, arm |-> 0, event |-> None]
Finished == {"answered", "refused", "gone"}

\* A delivery before its first or after its last attempt.
At(pc) == [pc |-> pc, failed |-> 0]
Over == {"none", "delivered", "dead", "lost"}

Init ==
  /\ file = FirstFile
  /\ current = NoConfig /\ cert = NoCert /\ hup = FALSE /\ reload = "idle"
  /\ proc = "down"
  /\ req = [r \in Reqs |-> Blank("new")]
  /\ task = [d \in Deliveries |-> At("none")]
  /\ dlq = <<>>
  /\ used = [thing \in DOMAIN Bounds |-> 0]

------------------------------------------------------------------------------
(* Configuration and process.                                              *)

\* The operator rewrites config.toml.
EditConfig ==
  /\ Use("edits")
  /\ file' \in Files \ {file}
  /\ UNCHANGED <<current, cert, hup, reload, proc, req, task, dlq>>

\* serve_command.  A configuration or a certificate that does not load keeps
\* the process from starting.
Boot ==
  /\ proc = "down"
  /\ LoadConfig(file) # NoConfig
  /\ proc' = "up"
  /\ current' = LoadConfig(file)
  /\ cert' = LoadConfig(file).tls
  /\ UNCHANGED <<file, hup, reload, req, task, dlq, used>>

\* SIGHUPs that nobody has received yet are one.
Hup ==
  /\ proc # "down"
  /\ Use("hups")
  /\ hup' = TRUE
  /\ UNCHANGED <<file, current, cert, reload, proc, req, task, dlq>>

\* Mutant of ReloadConfig: a file that does not load publishes a configuration
\* without subscriptions.
ReloadConfigDefault ==
  /\ proc # "down" /\ hup /\ reload = "idle"
  /\ hup' = FALSE
  /\ current' = IF LoadConfig(file) = NoConfig THEN [current EXCEPT !.subs = {}]
                ELSE LoadConfig(file)
  /\ reload' = IF cert # NoCert THEN "cert" ELSE "idle"
  /\ UNCHANGED <<file, cert, proc, req, task, dlq, used>>

\* reload_loop, first half.  A file that does not load changes nothing.
ReloadConfig ==
  /\ proc # "down" /\ hup /\ reload = "idle"
  /\ hup' = FALSE
  /\ current' = IF LoadConfig(file) = NoConfig THEN current ELSE LoadConfig(file)
  /\ reload' = IF cert # NoCert THEN "cert" ELSE "idle"
  /\ UNCHANGED <<file, cert, proc, req, task, dlq, used>>

\* Mutant of ReloadCert: forgets a SIGHUP that came while it was reading.
ReloadCertDeaf ==
  /\ reload = "cert"
  /\ reload' = "idle"
  /\ hup' = FALSE
  /\ cert' \in {cert} \cup ({current.tls} \ {NoCert})
  /\ UNCHANGED <<file, current, proc, req, task, dlq, used>>

\* reload_loop, second half, of a process that booted with TLS: the
\* certificate of the current configuration, if it has one and if it loads.
ReloadCert ==
  /\ reload = "cert"
  /\ reload' = "idle"
  /\ cert' \in {cert} \cup ({current.tls} \ {NoCert})
  /\ UNCHANGED <<file, current, hup, proc, req, task, dlq, used>>

\* SIGTERM or SIGINT: no new requests.
Stop ==
  /\ proc = "up"
  /\ Use("faults")
  /\ proc' = "draining"
  /\ UNCHANGED <<config, req, task, dlq>>

\* The process is gone, and with it the requests and deliveries under way.
Down ==
  /\ proc' = "down"
  /\ current' = NoConfig /\ cert' = NoCert /\ hup' = FALSE /\ reload' = "idle"
  /\ req' = [r \in Reqs |-> IF req[r].pc \in Finished \cup {"new"} THEN req[r]
                            ELSE Blank("gone")]
  /\ task' = [d \in Deliveries |-> IF task[d].pc \in Over THEN task[d]
                                   ELSE At("lost")]
  /\ UNCHANGED <<file, dlq>>

\* The end of a graceful stop: axum::serve waits for the requests, the TLS
\* server for ten seconds; neither waits for deliveries.
Exit ==
  /\ proc = "draining"
  /\ \/ cert # NoCert
     \/ \A r \in Reqs : req[r].pc \in Finished \cup {"new"}
  /\ Down
  /\ UNCHANGED used

Crash ==
  /\ proc # "down"
  /\ Use("faults")
  /\ Down

------------------------------------------------------------------------------
(* Requests.                                                               *)

\* The public routes answer at once; otherwise sigv4_mw takes its snapshot of
\* the configuration.
Arrive(r) ==
  /\ proc = "up"
  /\ req[r].pc = "new"
  /\ \E q \in Workload[r] :
       req' = [req EXCEPT ![r] =
                 IF Public(q) THEN Blank("answered")
                 ELSE [Blank("entered") EXCEPT !.q = q, !.entry = current]]
  /\ UNCHANGED <<config, proc, task, dlq, used>>

\* Mutant of Authenticate: verifies with the configuration current by then.
AuthenticateLate(r) ==
  /\ req[r].pc = "entered"
  /\ req' = [req EXCEPT ![r] = IF Admitted(req[r].q, current)
                               THEN [@ EXCEPT !.pc = "admitted"]
                               ELSE Blank("refused")]
  /\ UNCHANGED <<config, proc, task, dlq, used>>

\* The rest of sigv4_mw, with the snapshot taken on entry.
Authenticate(r) ==
  /\ req[r].pc = "entered"
  /\ req' = [req EXCEPT ![r] = IF Admitted(req[r].q, req[r].entry)
                               THEN [@ EXCEPT !.pc = "admitted"]
                               ELSE Blank("refused")]
  /\ UNCHANGED <<config, proc, task, dlq, used>>

\* dispatch, up to the handler's first instruction; the address comes from the
\* configuration current now.
Route(r) ==
  /\ req[r].pc = "admitted"
  /\ LET q == req[r].q
         a == Address(q, current)
     IN req' = [req EXCEPT ![r] =
                  IF Routable(q, a)
                  THEN [@ EXCEPT !.pc = "handling",
                                 !.arm = ChosenArm(q, a),
                                 !.event = [bucket |-> a.bucket, key |-> a.key, type |-> None]]
                  ELSE Blank("refused")]
  /\ UNCHANGED <<config, proc, task, dlq, used>>

\* A handler answers without an event: it failed, only read, or removed nothing.
HandlerReturns(r) ==
  /\ req[r].pc = "handling"
  /\ req' = [req EXCEPT ![r] = Blank("answered")]
  /\ UNCHANGED <<config, proc, task, dlq, used>>

\* A handler that emits an event has committed its transaction.
Commit(r) ==
  /\ req[r].pc = "handling"
  /\ \E type \in EventsOf(Arms[req[r].arm].handler, req[r].q) :
       req' = [req EXCEPT ![r].pc = "committed", ![r].event.type = type]
  /\ UNCHANGED <<config, proc, task, dlq, used>>

\* emit and the answer: a delivery for every subscription that matches in the
\* configuration current now.
Emit(r) ==
  /\ req[r].pc = "committed"
  /\ req' = [req EXCEPT ![r] = [Blank("answered") EXCEPT !.event = req[r].event]]
  /\ task' = [d \in Deliveries |->
                IF /\ d[1] = r
                   /\ d[2] \in current.subs
                   /\ Matches(d[2], req[r].event)
                THEN At("check")
                ELSE task[d]]
  /\ UNCHANGED <<config, proc, dlq, used>>

\* The client goes away: the request is dropped where it stands.
Disconnect(r) ==
  /\ req[r].pc \notin Finished \cup {"new"}
  /\ Use("faults")
  /\ req' = [req EXCEPT ![r] = Blank("gone")]
  /\ UNCHANGED <<config, proc, task, dlq>>

------------------------------------------------------------------------------
(* Deliveries: deliver_with_retry.                                         *)

\* ssrf_safe, before each attempt: the addresses the name resolves to are
\* allowed, or the delivery is given up.
Check(d) ==
  /\ task[d].pc = "check"
  /\ task' \in {[task EXCEPT ![d].pc = "post"], [task EXCEPT ![d] = At("insert")]}
  /\ UNCHANGED <<config, proc, req, dlq, used>>

\* A 2xx answer within PER_ATTEMPT_TIMEOUT.
Succeed(d) ==
  /\ task[d].pc = "post"
  /\ task' = [task EXCEPT ![d] = At("delivered")]
  /\ UNCHANGED <<config, proc, req, dlq, used>>

\* Mutant of Fail: retries for ever.
FailUncounted(d) ==
  /\ task[d].pc = "post"
  /\ task' = [task EXCEPT ![d].pc = "sleep"]
  /\ UNCHANGED <<config, proc, req, dlq, used>>

\* Mutant of Fail: one attempt too many.
FailOnceMore(d) ==
  /\ task[d].pc = "post"
  /\ task' = [task EXCEPT ![d] = IF @.failed <= MaxRetries
                                 THEN [pc |-> "sleep", failed |-> @.failed + 1]
                                 ELSE At("insert")]
  /\ UNCHANGED <<config, proc, req, dlq, used>>

\* Another answer, an error or a timeout (the receiver may have had the request
\* all the same): sleep and try again, or give up.
Fail(d) ==
  /\ task[d].pc = "post"
  /\ task' = [task EXCEPT ![d] = IF @.failed < MaxRetries
                                 THEN [pc |-> "sleep", failed |-> @.failed + 1]
                                 ELSE At("insert")]
  /\ UNCHANGED <<config, proc, req, dlq, used>>

Wake(d) ==
  /\ task[d].pc = "sleep"
  /\ task' = [task EXCEPT ![d].pc = "check"]
  /\ UNCHANGED <<config, proc, req, dlq, used>>

\* Mutant of NextDlqKey: one more than the first key.
NextDlqKeyFirst == IF dlq = <<>> THEN 1 ELSE Min(DOMAIN dlq) + 1

\* handle_insert_dlq: one more than the last key of the table.
NextDlqKey == IF dlq = <<>> THEN 1 ELSE Max(DOMAIN dlq) + 1

\* meta.insert_dlq_entry.
InsertDlq(d) ==
  /\ task[d].pc = "insert"
  /\ task' = [task EXCEPT ![d] = At("dead")]
  /\ dlq' = [k \in DOMAIN dlq \cup {NextDlqKey} |-> IF k = NextDlqKey THEN d ELSE dlq[k]]
  /\ UNCHANGED <<config, proc, req, used>>

\* The HTTP client cannot be built, or the transaction fails: only a log line.
GiveUp(d) ==
  /\ \/ task[d].pc = "insert"
     \/ task[d] = At("check")
  /\ Use("faults")
  /\ task' = [task EXCEPT ![d] = At("lost")]
  /\ UNCHANGED <<config, proc, req, dlq>>

------------------------------------------------------------------------------
Deliver(d) == Check(d) \/ Succeed(d) \/ Fail(d) \/ Wake(d) \/ InsertDlq(d)

Next ==
  \/ EditConfig \/ Boot \/ Hup \/ ReloadConfig \/ ReloadCert
  \/ Stop \/ Exit \/ Crash
  \/ \E r \in Reqs : \/ Arrive(r) \/ Authenticate(r) \/ Route(r) \/ HandlerReturns(r)
                     \/ Commit(r) \/ Emit(r) \/ Disconnect(r)
  \/ \E d \in Deliveries : Deliver(d) \/ GiveUp(d)

\* Every await of reload_loop and of deliver_with_retry ends by itself: a file
\* read, a name lookup, an attempt of at most PER_ATTEMPT_TIMEOUT, a sleep, a
\* call of the metadata actor.  Nothing is assumed of the operator, of clients
\* or of receivers.
Fairness ==
  /\ WF_vars(ReloadConfig) /\ WF_vars(ReloadCert)
  /\ \A d \in Deliveries : WF_vars(Deliver(d))

Spec == Init /\ [][Next]_vars /\ Fairness

------------------------------------------------------------------------------
(* Properties.                                                             *)

\* Every variable has its type; a delivery makes at most MaxRetries + 1 attempts.
TypeOK ==
  /\ file \in Files
  /\ current \in {LoadConfig(f) : f \in Files} \cup {NoConfig}
  /\ cert \in {f.cert : f \in Files} \cup {NoCert}
  /\ hup \in BOOLEAN /\ reload \in {"idle", "cert"}
  /\ proc \in {"down", "up", "draining"} /\ (proc = "down" <=> current = NoConfig)
  /\ \A r \in Reqs :
       /\ req[r].pc \in {"new", "entered", "admitted", "handling", "committed"} \cup Finished
       /\ req[r].q \in Workload[r] \cup {None}
       /\ req[r].entry \in {LoadConfig(f) : f \in Files} \cup {NoConfig}
       /\ req[r].arm \in {0} \cup DOMAIN Arms
  /\ task \in [Deliveries -> [pc : {"check", "post", "sleep", "insert"} \cup Over,
                              failed : 0 .. MaxRetries]]
  /\ DOMAIN dlq = 1 .. Cardinality(DOMAIN dlq) /\ Range(dlq) \subseteq Deliveries
  /\ \A thing \in DOMAIN Bounds : used[thing] \in 0 .. Bounds[thing]

\* Only a preflight runs unsigned.  Every other handler runs for requests that
\* were signed with the root key that was current when they arrived, and not
\* after a presigned URL has expired: from the moment a SIGHUP has rotated the
\* key, no request that comes with the old one gets through, and no reload lets
\* an unsigned one slip by.
HandledOnlyIfSigned ==
  \A r \in Reqs :
    req[r].pc \in {"handling", "committed"}
      => \/ Arms[req[r].arm].handler = "preflight"
         \/ /\ req[r].q.signer = req[r].entry.root
            /\ req[r].q.sound
            /\ req[r].q.expires = NotPresigned \/ req[r].q.age <= req[r].q.expires

\* The catch-all arms of dispatch come after the arms for subresources: no arm
\* that asks for more than the one chosen would have matched as well.
MostSpecificArm ==
  \A r \in Reqs :
    req[r].pc = "handling"
      => LET q == req[r].q
             chosen == Arms[req[r].arm]
         IN ~ \E i \in DOMAIN Arms :
                /\ Arms[i].method = q.method
                /\ chosen.levels \subseteq Arms[i].levels
                /\ Arms[i].needs \subseteq q.has
                /\ chosen.needs \subseteq Arms[i].needs /\ chosen.needs # Arms[i].needs

\* The subscriptions that every file that loads contains.
Steady == {s \in Subs : \A f \in Files : LoadConfig(f) = NoConfig \/ s \in f.webhooks}

\* When a handler has answered for a change, a delivery was started for every
\* subscription that the operator has never removed, whatever reloads happened
\* during the request and whatever broken files they met.
AnsweredIsNotified ==
  \A r \in Reqs, s \in Steady :
    (req[r].pc = "answered" /\ req[r].event # None /\ Matches(s, req[r].event))
      => task[<<r, s>>].pc # "none"

\* What has become of a delivery agrees with what the dead-letter queue holds:
\* one that used up its attempts is there under exactly one key, whatever was
\* inserted since and across restarts; no other is there; and only a stop, a
\* crash or a fault loses one.
DeliveryLedger ==
  \A d \in Deliveries :
    LET keys == {k \in DOMAIN dlq : dlq[k] = d}
    IN /\ Cardinality(keys) = IF task[d].pc = "dead" THEN 1 ELSE 0
       /\ task[d].pc = "lost" => used["faults"] > 0

\* A delivery that was started ends: delivered, in the queue, or lost.
EveryDeliveryEnds ==
  \A d \in Deliveries : task[d].pc \notin Over ~> task[d].pc \in Over

\* A SIGHUP is never lost: a file that loads is published unless the operator
\* changes it again or the process ends, also when the signal comes while an
\* earlier reload is still reading the certificate.
ReloadTakesEffect ==
  \A f \in Files :
    (hup /\ file = f /\ LoadConfig(f) # NoConfig)
      ~> (file # f \/ current = NoConfig \/ current = LoadConfig(f))

==============================================================================
