---------------------------- MODULE ServiceProofs ----------------------------
(***************************************************************************)
(* That the process around the store runs handlers only for requests that  *)
(* were signed, chooses their arms well, and accounts for every delivery,  *)
(* for every set of requests, of configuration files, of subscriptions and *)
(* every number of retries, signals, edits and faults.                     *)
(***************************************************************************)
EXTENDS Service, FiniteSetTheorems, WellFoundedInduction, TLAPS

------------------------------------------------------------------------------
(* The inductive invariant.                                                *)

\* A record with the fields of a request.
IsReq(x) == x = [pc |-> x.pc, q |-> x.q, entry |-> x.entry, arm |-> x.arm, event |-> x.event]

\* req, used and dlq are functions on the right sets, dlq without gaps.
ShapeOK ==
  /\ req = [r \in Reqs |-> req[r]] /\ \A r \in Reqs : IsReq(req[r])
  /\ used \in [DOMAIN Bounds -> Nat]
  /\ dlq \in Seq(Deliveries)

\* What a request or a reload under way says about the process, and what a
\* process that is stopping says about the faults that have happened.
ProcessOK ==
  /\ reload = "cert" => proc # "down"
  /\ proc = "draining" => used["faults"] > 0
  /\ \A r \in Reqs : req[r].pc \notin Finished \cup {"new"} => proc # "down"

\* Between signature check and answer a request stays one that the snapshot
\* taken on entry admits, and keeps the arm found for the address it had.
RequestOK(x) ==
  /\ x.pc \in {"admitted", "handling", "committed"} => Admitted(x.q, x.entry)
  /\ x.pc \in {"handling", "committed"} =>
       \E f \in Files :
         /\ LoadConfig(f) # NoConfig
         /\ MatchingArms(x.q, Address(x.q, LoadConfig(f))) # {}
         /\ x.arm = ChosenArm(x.q, Address(x.q, LoadConfig(f)))

RequestsOK == \A r \in Reqs : RequestOK(req[r])

\* Deliveries belong to requests that have answered; the queue holds exactly
\* the dead ones, each once.
LedgerOK ==
  /\ \A d \in Deliveries :
       /\ task[d].pc # "none" => req[d[1]].pc = "answered"
       /\ task[d].pc = "dead" <=> \E k \in DOMAIN dlq : dlq[k] = d
       /\ task[d].pc = "lost" => used["faults"] > 0
  /\ \A k, l \in DOMAIN dlq : dlq[k] = dlq[l] => k = l

ServiceInv == TypeOK /\ ShapeOK /\ ProcessOK /\ RequestsOK /\ LedgerOK /\ AnsweredIsNotified

------------------------------------------------------------------------------
(* The routing table.                                                      *)

\* What a row of the table has to do with its place: the service comes first,
\* then the bucket's arms, then the object's; the arms that need nothing close
\* each part; only two arms need more than one thing.
PlaceOK(i) ==
  Arms[i].levels = IF i = 1 THEN {"service"} ELSE IF i = 14 THEN {"bucket", "object"}
                   ELSE IF i < 19 THEN {"bucket"} ELSE {"object"}

MethodOK(i) ==
  /\ i # 14 => Arms[i].method # "OPTIONS"
  /\ i \in {19, 20} => Arms[i].method = "POST"
  /\ i \in {21, 22} => Arms[i].method = "PUT"

NeedsOK(i) ==
  /\ Arms[i].needs = {} <=> i = 1 \/ i \in 14 .. 18 \/ i > 32
  /\ i \notin {21, 22} => \A x, y \in Arms[i].needs : x = y

\* Every arm of dispatch::handle is where these say.
LEMMA TableRows ==
  /\ \A i \in DOMAIN Arms : i \in 1 .. 36 /\ PlaceOK(i) /\ MethodOK(i) /\ NeedsOK(i)
  /\ Arms[14].handler = "preflight"
  /\ Arms[21].needs = {"uploadId", "partNumber", "copy-source"}
  /\ Arms[22].needs = {"uploadId", "partNumber"}
<1>1. ASSUME NEW i \in 1 .. 36
      PROVE  PlaceOK(i)
  <2>1. /\ PlaceOK(1) /\ PlaceOK(2) /\ PlaceOK(3) /\ PlaceOK(4) /\ PlaceOK(5) /\ PlaceOK(6)
        /\ PlaceOK(7) /\ PlaceOK(8) /\ PlaceOK(9) /\ PlaceOK(10) /\ PlaceOK(11) /\ PlaceOK(12)
    BY DEF PlaceOK, Arms, Arm
  <2>2. /\ PlaceOK(13) /\ PlaceOK(14) /\ PlaceOK(15) /\ PlaceOK(16) /\ PlaceOK(17) /\ PlaceOK(18)
        /\ PlaceOK(19) /\ PlaceOK(20) /\ PlaceOK(21) /\ PlaceOK(22) /\ PlaceOK(23) /\ PlaceOK(24)
    BY DEF PlaceOK, Arms, Arm
  <2>3. /\ PlaceOK(25) /\ PlaceOK(26) /\ PlaceOK(27) /\ PlaceOK(28) /\ PlaceOK(29) /\ PlaceOK(30)
        /\ PlaceOK(31) /\ PlaceOK(32) /\ PlaceOK(33) /\ PlaceOK(34) /\ PlaceOK(35) /\ PlaceOK(36)
    BY DEF PlaceOK, Arms, Arm
  <2> QED
    BY <2>1, <2>2, <2>3
<1>2. ASSUME NEW i \in 1 .. 36
      PROVE  MethodOK(i)
  <2>1. /\ MethodOK(1) /\ MethodOK(2) /\ MethodOK(3) /\ MethodOK(4) /\ MethodOK(5) /\ MethodOK(6)
        /\ MethodOK(7) /\ MethodOK(8) /\ MethodOK(9) /\ MethodOK(10) /\ MethodOK(11) /\ MethodOK(12)
    BY DEF MethodOK, Arms, Arm
  <2>2. /\ MethodOK(13) /\ MethodOK(14) /\ MethodOK(15) /\ MethodOK(16) /\ MethodOK(17) /\ MethodOK(18)
        /\ MethodOK(19) /\ MethodOK(20) /\ MethodOK(21) /\ MethodOK(22) /\ MethodOK(23) /\ MethodOK(24)
    BY DEF MethodOK, Arms, Arm
  <2>3. /\ MethodOK(25) /\ MethodOK(26) /\ MethodOK(27) /\ MethodOK(28) /\ MethodOK(29) /\ MethodOK(30)
        /\ MethodOK(31) /\ MethodOK(32) /\ MethodOK(33) /\ MethodOK(34) /\ MethodOK(35) /\ MethodOK(36)
    BY DEF MethodOK, Arms, Arm
  <2> QED
    BY <2>1, <2>2, <2>3
<1>3. ASSUME NEW i \in 1 .. 36
      PROVE  NeedsOK(i)
  <2>1. /\ NeedsOK(1) /\ NeedsOK(2) /\ NeedsOK(3) /\ NeedsOK(4) /\ NeedsOK(5) /\ NeedsOK(6)
        /\ NeedsOK(7) /\ NeedsOK(8) /\ NeedsOK(9) /\ NeedsOK(10) /\ NeedsOK(11) /\ NeedsOK(12)
    BY DEF NeedsOK, Arms, Arm
  <2>2. /\ NeedsOK(13) /\ NeedsOK(14) /\ NeedsOK(15) /\ NeedsOK(16) /\ NeedsOK(17) /\ NeedsOK(18)
        /\ NeedsOK(19) /\ NeedsOK(20) /\ NeedsOK(21) /\ NeedsOK(22) /\ NeedsOK(23) /\ NeedsOK(24)
    BY DEF NeedsOK, Arms, Arm
  <2>3. /\ NeedsOK(25) /\ NeedsOK(26) /\ NeedsOK(27) /\ NeedsOK(28) /\ NeedsOK(29) /\ NeedsOK(30)
        /\ NeedsOK(31) /\ NeedsOK(32) /\ NeedsOK(33) /\ NeedsOK(34) /\ NeedsOK(35) /\ NeedsOK(36)
    BY DEF NeedsOK, Arms, Arm
  <2> QED
    BY <2>1, <2>2, <2>3
<1>4. DOMAIN Arms = 1 .. 36
  BY DEF Arms
<1>5. /\ Arms[14].handler = "preflight"
      /\ Arms[21].needs = {"uploadId", "partNumber", "copy-source"}
      /\ Arms[22].needs = {"uploadId", "partNumber"}
  BY DEF Arms, Arm
<1> QED
  BY <1>1, <1>2, <1>3, <1>4, <1>5

\* No arm comes before one that matches less: of two arms for the same method
\* that both match, the one that asks for more comes first.
LEMMA SpecificFirst ==
  ASSUME NEW i \in DOMAIN Arms, NEW j \in DOMAIN Arms, i < j,
         Arms[i].method = Arms[j].method, Arms[i].levels \subseteq Arms[j].levels,
         Arms[i].needs \subseteq Arms[j].needs
  PROVE  Arms[i].needs = Arms[j].needs
<1>1. i \in 1 .. 36 /\ j \in 1 .. 36
  BY TableRows
<1>2. PlaceOK(i) /\ MethodOK(i) /\ NeedsOK(i) /\ PlaceOK(j) /\ MethodOK(j) /\ NeedsOK(j)
  BY TableRows
<1> SUFFICES ASSUME Arms[i].needs # Arms[j].needs
             PROVE  FALSE
  OBVIOUS
<1>3. Arms[j].needs # {}
  OBVIOUS
<1>4. CASE Arms[i].needs = {}
  BY <1>1, <1>2, <1>3, <1>4 DEF PlaceOK, MethodOK, NeedsOK
<1>5. CASE i \in {21, 22}
  BY <1>1, <1>2, <1>3, <1>5, TableRows DEF PlaceOK, MethodOK, NeedsOK
<1>6. CASE Arms[i].needs # {} /\ i \notin {21, 22}
  <2>1. j \in {21, 22}
    BY <1>2, <1>6 DEF PlaceOK, MethodOK, NeedsOK
  <2> QED
    BY <1>1, <1>2, <1>6, <2>1 DEF PlaceOK, MethodOK, NeedsOK
<1> QED
  BY <1>4, <1>5, <1>6

\* The order of the numbers as a relation.
LEMMA NatOrder ==
  \E R : IsWellFoundedOn(R, Nat) /\ \A x, y \in Nat : <<y, x>> \in R <=> y < x
<1> DEFINE R == OpToRel(<, Nat)
<1>1. IsWellFoundedOn(R, Nat)
  BY NatLessThanWellFounded
<1>2. \A x, y \in Nat : <<y, x>> \in R <=> y < x
  BY DEF OpToRel
<1> QED
  BY <1>1, <1>2, Zenon

\* A nonempty set of numbers has a least one.
LEMMA LeastNumber ==
  ASSUME NEW T, T \subseteq Nat, T # {}
  PROVE  \E x \in T : \A y \in T : x <= y
<1>1. PICK R : IsWellFoundedOn(R, Nat) /\ \A x, y \in Nat : <<y, x>> \in R <=> y < x
  BY NatOrder
<1>2. PICK x \in T : \A y \in T : ~ (<<y, x>> \in R)
  BY <1>1, WFMin
<1>3. ASSUME NEW y \in T
      PROVE  x <= y
  <2>1. x \in Nat /\ y \in Nat
    OBVIOUS
  <2>2. ~ (<<y, x>> \in R)
    BY <1>2
  <2>3. ~ (y < x)
    BY <1>1, <2>1, <2>2, Zenon
  <2> QED
    BY <2>1, <2>3
<1> QED
  BY <1>3

\* The match takes an arm that matches, and none that comes before it does.
LEMMA ChosenIsFirst ==
  ASSUME NEW q, NEW a, MatchingArms(q, a) # {}
  PROVE  /\ ChosenArm(q, a) \in MatchingArms(q, a)
         /\ \A i \in MatchingArms(q, a) : ChosenArm(q, a) <= i
<1>1. MatchingArms(q, a) \subseteq Nat
  BY TableRows DEF MatchingArms
<1>2. \E x \in MatchingArms(q, a) : \A y \in MatchingArms(q, a) : x <= y
  BY <1>1, LeastNumber
<1> QED
  BY <1>2 DEF ChosenArm, Min

------------------------------------------------------------------------------
(* Steps that leave most of the state alone.                               *)

Loaded == {LoadConfig(f) : f \in Files} \cup {NoConfig}

\* The fields of a request r have their types.
GoodRequest(r, x) ==
  /\ IsReq(x)
  /\ x.pc \in {"new", "entered", "admitted", "handling", "committed"} \cup Finished
  /\ x.q \in Workload[r] \cup {None}
  /\ x.entry \in Loaded
  /\ x.arm \in {0} \cup DOMAIN Arms

GoodTask == [pc : {"check", "post", "sleep", "insert"} \cup Over, failed : 0 .. MaxRetries]

\* Of the bounded things none is forgotten.
UsedGrows ==
  /\ used' \in [DOMAIN Bounds -> Nat]
  /\ \A thing \in DOMAIN Bounds : used'[thing] \in 0 .. Bounds[thing]
  /\ used["faults"] > 0 => used'["faults"] > 0

\* The keys of the bounded things.
LEMMA BoundsDomain ==
  /\ DOMAIN Bounds = {"edits", "hups", "faults"}
  /\ \A thing \in DOMAIN Bounds : Bounds[thing] \in Nat
BY ServiceAssumption DEF Bounds

\* Nothing bounded has happened.
LEMMA UsedStays ==
  ASSUME TypeOK, ShapeOK, UNCHANGED used
  PROVE  UsedGrows
BY DEF TypeOK, ShapeOK, UsedGrows

\* One bounded thing has happened within its bound; a fault leaves its mark.
LEMMA UsedOnce ==
  ASSUME TypeOK, ShapeOK, NEW thing \in DOMAIN Bounds, Use(thing)
  PROVE  UsedGrows /\ (thing = "faults" => used'["faults"] > 0)
<1>1. used \in [DOMAIN Bounds -> Nat]
  BY DEF ShapeOK
<1>2. used[thing] < Bounds[thing] /\ used' = [used EXCEPT ![thing] = used[thing] + 1]
  BY DEF Use
<1>3. \A t \in DOMAIN Bounds : used[t] \in 0 .. Bounds[t]
  BY DEF TypeOK
<1>4. used' \in [DOMAIN Bounds -> Nat]
  BY <1>1, <1>2
<1>5. \A t \in DOMAIN Bounds : used'[t] \in 0 .. Bounds[t] /\ (used[t] > 0 => used'[t] > 0)
  <2> SUFFICES ASSUME NEW t \in DOMAIN Bounds
               PROVE  used'[t] \in 0 .. Bounds[t] /\ (used[t] > 0 => used'[t] > 0)
    OBVIOUS
  <2>1. used'[t] = IF t = thing THEN used[t] + 1 ELSE used[t]
    BY <1>1, <1>2
  <2>2. used[t] \in Nat /\ Bounds[t] \in Nat
    BY <1>1, BoundsDomain
  <2> QED
    BY <1>2, <1>3, <2>1, <2>2
<1>6. thing = "faults" => used'["faults"] > 0
  <2>1. used'[thing] = used[thing] + 1 /\ used[thing] \in Nat
    BY <1>1, <1>2
  <2> QED
    BY <2>1
<1> QED
  BY <1>4, <1>5, <1>6, BoundsDomain DEF UsedGrows

\* What holds of the requests, of the deliveries and of the queue goes on holding
\* when only the configuration and the process change.
LEMMA AroundStep ==
  ASSUME ServiceInv, UNCHANGED <<req, task, dlq>>, UsedGrows
  PROVE  ShapeOK' /\ RequestsOK' /\ LedgerOK' /\ AnsweredIsNotified'
<1> USE DEF ServiceInv
<1>1. ShapeOK'
  BY DEF ShapeOK, UsedGrows
<1>2. RequestsOK'
  BY DEF RequestsOK
<1>3. LedgerOK'
  BY DEF LedgerOK, UsedGrows
<1>4. AnsweredIsNotified'
  BY DEF AnsweredIsNotified
<1> QED
  BY <1>1, <1>2, <1>3, <1>4

\* A step of one request that does not start deliveries.
LEMMA RequestStep ==
  ASSUME ServiceInv, NEW r \in Reqs, NEW x, req' = [req EXCEPT ![r] = x],
         UNCHANGED <<config, proc, task, dlq>>, UsedGrows,
         GoodRequest(r, x), RequestOK(x),
         req[r].pc \notin Finished, x.pc = "answered" => x.event = None,
         x.pc \notin Finished \cup {"new"} => proc # "down"
  PROVE  ServiceInv'
<1> USE DEF ServiceInv
<1>0. /\ req = [s \in Reqs |-> req[s]]
      /\ \A s \in Reqs : req'[s] = IF s = r THEN x ELSE req[s]
      /\ req' = [s \in Reqs |-> req'[s]]
  BY DEF ShapeOK
<1>1. TypeOK'
  <2>1. UNCHANGED <<file, current, cert, hup, reload, proc, task, dlq>>
    BY DEF config
  <2>2. \A s \in Reqs : GoodRequest(s, req[s])
    BY DEF TypeOK, ShapeOK, GoodRequest, Loaded
  <2>3. \A s \in Reqs : GoodRequest(s, req'[s])
    BY <1>0, <2>2
  <2> QED
    BY <2>1, <2>3 DEF TypeOK, UsedGrows, GoodRequest, Loaded
<1>2. ShapeOK'
  BY <1>0 DEF ShapeOK, UsedGrows, GoodRequest
<1>3. ProcessOK'
  BY <1>0 DEF ProcessOK, UsedGrows, config
<1>4. RequestsOK'
  BY <1>0 DEF RequestsOK
<1>5. LedgerOK'
  <2> SUFFICES ASSUME NEW d \in Deliveries, task[d].pc # "none"
               PROVE  req'[d[1]].pc = "answered"
    BY DEF LedgerOK, UsedGrows
  <2>1. req[d[1]].pc = "answered" /\ d[1] \in Reqs
    BY DEF LedgerOK, Deliveries
  <2> QED
    BY <1>0, <2>1 DEF Finished
<1>6. AnsweredIsNotified'
  BY <1>0 DEF AnsweredIsNotified
<1> QED
  BY <1>1, <1>2, <1>3, <1>4, <1>5, <1>6

\* A step of one delivery that is under way, not into the queue.
LEMMA DeliveryStep ==
  ASSUME ServiceInv, NEW d \in Deliveries, NEW t \in GoodTask, task' = [task EXCEPT ![d] = t],
         UNCHANGED <<config, proc, req, dlq>>, UsedGrows,
         task[d].pc \notin Over, t.pc \notin {"none", "dead"},
         t.pc = "lost" => used'["faults"] > 0
  PROVE  ServiceInv'
<1> USE DEF ServiceInv
<1>0. /\ task \in [Deliveries -> GoodTask] /\ task' \in [Deliveries -> GoodTask]
      /\ \A e \in Deliveries : task'[e] = IF e = d THEN t ELSE task[e]
  BY DEF TypeOK, GoodTask
<1>1. TypeOK'
  BY <1>0 DEF TypeOK, UsedGrows, GoodTask, config
<1>2. ShapeOK'
  BY DEF ShapeOK, UsedGrows
<1>3. ProcessOK'
  BY DEF ProcessOK, UsedGrows, config
<1>4. RequestsOK'
  BY DEF RequestsOK
<1>5. LedgerOK'
  <2> SUFFICES ASSUME NEW e \in Deliveries
               PROVE  /\ task'[e].pc # "none" => req[e[1]].pc = "answered"
                      /\ task'[e].pc = "dead" <=> \E k \in DOMAIN dlq : dlq[k] = e
                      /\ task'[e].pc = "lost" => used'["faults"] > 0
    BY DEF LedgerOK
  <2>1. /\ task[e].pc # "none" => req[e[1]].pc = "answered"
        /\ task[e].pc = "dead" <=> \E k \in DOMAIN dlq : dlq[k] = e
        /\ task[e].pc = "lost" => used'["faults"] > 0
    BY DEF LedgerOK, UsedGrows
  <2> QED
    BY <1>0, <2>1 DEF Over
<1>6. AnsweredIsNotified'
  <2> SUFFICES ASSUME NEW r \in Reqs, NEW s \in Steady, task[<<r, s>>].pc # "none"
               PROVE  task'[<<r, s>>].pc # "none"
    BY DEF AnsweredIsNotified
  <2>1. <<r, s>> \in Deliveries
    BY DEF Deliveries, Steady
  <2> QED
    BY <1>0, <2>1
<1> QED
  BY <1>1, <1>2, <1>3, <1>4, <1>5, <1>6

------------------------------------------------------------------------------
(* One lemma per action.                                                   *)

\* What a file that loads is loaded into.
LEMMA LoadedFields ==
  ASSUME NEW f, LoadConfig(f) # NoConfig
  PROVE  LoadConfig(f).tls = f.cert /\ LoadConfig(f).subs = f.webhooks
BY DEF LoadConfig

\* The published configuration of a process that is not down is that of a file.
LEMMA CurrentIsLoaded ==
  ASSUME TypeOK, proc # "down"
  PROVE  \E f \in Files : current = LoadConfig(f) /\ LoadConfig(f) # NoConfig
BY DEF TypeOK

\* The record of a request that has just entered.
LEMMA EnteredRecord ==
  ASSUME NEW q, NEW c
  PROVE  [Blank("entered") EXCEPT !.q = q, !.entry = c]
           = [pc |-> "entered", q |-> q, entry |-> c, arm |-> 0, event |-> None]
<1>1. PICK y : y = [Blank("entered") EXCEPT !.q = q]
  OBVIOUS
<1>2. y = [pc |-> "entered", q |-> q, entry |-> NoConfig, arm |-> 0, event |-> None]
  BY <1>1 DEF Blank
<1>3. [Blank("entered") EXCEPT !.q = q, !.entry = c] = [y EXCEPT !.entry = c]
  BY <1>1
<1> QED
  BY <1>2, <1>3

\* The record of a request whose handler starts.
LEMMA RoutedRecord ==
  ASSUME NEW x, IsReq(x), NEW c, NEW e
  PROVE  [x EXCEPT !.pc = "handling", !.arm = c, !.event = e]
           = [pc |-> "handling", q |-> x.q, entry |-> x.entry, arm |-> c, event |-> e]
<1>1. PICK y : y = [x EXCEPT !.pc = "handling"]
  OBVIOUS
<1>2. y = [pc |-> "handling", q |-> x.q, entry |-> x.entry, arm |-> x.arm, event |-> x.event]
  BY <1>1 DEF IsReq
<1>3. PICK z : z = [y EXCEPT !.arm = c]
  OBVIOUS
<1>4. z = [pc |-> "handling", q |-> x.q, entry |-> x.entry, arm |-> c, event |-> x.event]
  BY <1>2, <1>3
<1>5. [x EXCEPT !.pc = "handling", !.arm = c, !.event = e] = [z EXCEPT !.event = e]
  BY <1>1, <1>3
<1> QED
  BY <1>4, <1>5

\* Two updates along paths into the same request are one update of it.
LEMMA CommittedRecord ==
  ASSUME ShapeOK, NEW r \in Reqs, NEW t
  PROVE  \E e : [req EXCEPT ![r].pc = "committed", ![r].event.type = t]
                  = [req EXCEPT ![r] = [pc |-> "committed", q |-> req[r].q, entry |-> req[r].entry,
                                      arm |-> req[r].arm, event |-> e]]
<1>0. IsReq(req[r]) /\ req = [s \in Reqs |-> req[s]]
  BY DEF ShapeOK
<1>1. PICK g : g = [req EXCEPT ![r].pc = "committed"]
  OBVIOUS
<1>2. PICK y : y = [req[r] EXCEPT !.pc = "committed"]
  OBVIOUS
<1>3. y = [pc |-> "committed", q |-> req[r].q, entry |-> req[r].entry, arm |-> req[r].arm,
           event |-> req[r].event]
  BY <1>0, <1>2 DEF IsReq
<1>4. g = [req EXCEPT ![r] = y]
  BY <1>0, <1>1, <1>2
<1>5. PICK e : e = [y.event EXCEPT !.type = t]
  OBVIOUS
<1>6. [req EXCEPT ![r].pc = "committed", ![r].event.type = t] = [g EXCEPT ![r].event.type = t]
  BY <1>1
<1>7. g[r] = y
  BY <1>0, <1>4
<1>8. [g EXCEPT ![r].event.type = t] = [g EXCEPT ![r] = [g[r] EXCEPT !.event.type = t]]
  OBVIOUS
<1>9. [y EXCEPT !.event.type = t] = [y EXCEPT !.event = e]
  BY <1>5
<1>10. PICK z : z = [y EXCEPT !.event = e]
  OBVIOUS
<1>11. z = [pc |-> "committed", q |-> req[r].q, entry |-> req[r].entry, arm |-> req[r].arm,
            event |-> e]
  BY <1>3, <1>10
<1>12. [g EXCEPT ![r] = z] = [req EXCEPT ![r] = z]
  BY <1>4
<1>13. [req EXCEPT ![r].pc = "committed", ![r].event.type = t] = [req EXCEPT ![r] = z]
  BY <1>6, <1>7, <1>8, <1>9, <1>10, <1>12, Zenon
<1> QED
  BY <1>11, <1>13, Zenon

\* A finished request without an event.
LEMMA BlankRequest ==
  ASSUME NEW r, NEW pc \in {"new"} \cup Finished
  PROVE  /\ GoodRequest(r, Blank(pc)) /\ RequestOK(Blank(pc))
         /\ Blank(pc).pc = pc /\ Blank(pc).event = None
BY DEF GoodRequest, IsReq, Blank, Loaded, RequestOK, Finished

\* Before the first boot the invariant holds.
LEMMA InitOK ==
  ASSUME Init
  PROVE  ServiceInv
<1>1. TypeOK
  <2>1. \A r \in Reqs : GoodRequest(r, req[r])
    BY BlankRequest DEF Init
  <2>2. task \in [Deliveries -> GoodTask]
    BY ServiceAssumption DEF Init, At, GoodTask, Over
  <2>3. DOMAIN dlq = 1 .. Cardinality(DOMAIN dlq) /\ Range(dlq) \subseteq Deliveries
    <3>1. DOMAIN dlq = {}
      BY DEF Init
    <3>2. Cardinality(DOMAIN dlq) = 0
      BY <3>1, FS_EmptySet
    <3> QED
      BY <3>1, <3>2 DEF Range
  <2>4. \A thing \in DOMAIN Bounds : used[thing] \in 0 .. Bounds[thing]
    BY BoundsDomain DEF Init
  <2> QED
    BY <2>1, <2>2, <2>3, <2>4, ServiceAssumption DEF Init, TypeOK, GoodRequest, GoodTask, Loaded
<1>2. ShapeOK
  <2>1. \A r \in Reqs : IsReq(req[r])
    BY BlankRequest DEF Init, GoodRequest
  <2> QED
    BY <2>1 DEF Init, ShapeOK
<1>3. ProcessOK
  BY BlankRequest DEF Init, ProcessOK
<1>4. RequestsOK
  BY BlankRequest DEF Init, RequestsOK
<1>5. LedgerOK
  BY DEF Init, LedgerOK, At
<1>6. AnsweredIsNotified
  BY BlankRequest DEF Init, AnsweredIsNotified
<1> QED
  BY <1>1, <1>2, <1>3, <1>4, <1>5, <1>6 DEF ServiceInv

\* An edit of the file reaches nothing until it is loaded.
LEMMA EditConfigOK ==
  ASSUME ServiceInv, EditConfig
  PROVE  ServiceInv'
<1> USE DEF ServiceInv
<1>1. UsedGrows
  BY UsedOnce, BoundsDomain DEF EditConfig
<1>2. ShapeOK' /\ RequestsOK' /\ LedgerOK' /\ AnsweredIsNotified'
  BY <1>1, AroundStep DEF EditConfig
<1>3. TypeOK'
  BY <1>1 DEF EditConfig, TypeOK, UsedGrows
<1>4. ProcessOK'
  BY <1>1 DEF EditConfig, ProcessOK, UsedGrows
<1> QED
  BY <1>2, <1>3, <1>4

\* serve_command publishes a file that loads.
LEMMA BootOK ==
  ASSUME ServiceInv, Boot
  PROVE  ServiceInv'
<1> USE DEF ServiceInv
<1>1. UsedGrows
  BY UsedStays DEF Boot
<1>2. ShapeOK' /\ RequestsOK' /\ LedgerOK' /\ AnsweredIsNotified'
  BY <1>1, AroundStep DEF Boot
<1>3. TypeOK'
  <2>1. file \in Files /\ cert' = file.cert
    BY LoadedFields DEF Boot, TypeOK
  <2> QED
    BY <2>1 DEF Boot, TypeOK
<1>4. ProcessOK'
  BY DEF Boot, ProcessOK
<1> QED
  BY <1>2, <1>3, <1>4

\* A signal is only noted.
LEMMA HupOK ==
  ASSUME ServiceInv, Hup
  PROVE  ServiceInv'
<1> USE DEF ServiceInv
<1>1. UsedGrows
  BY UsedOnce, BoundsDomain DEF Hup
<1>2. ShapeOK' /\ RequestsOK' /\ LedgerOK' /\ AnsweredIsNotified'
  BY <1>1, AroundStep DEF Hup
<1>3. TypeOK'
  BY <1>1 DEF Hup, TypeOK, UsedGrows
<1>4. ProcessOK'
  BY <1>1 DEF Hup, ProcessOK, UsedGrows
<1> QED
  BY <1>2, <1>3, <1>4

\* reload_loop publishes a file that loads, or leaves the configuration as it was.
LEMMA ReloadConfigOK ==
  ASSUME ServiceInv, ReloadConfig
  PROVE  ServiceInv'
<1> USE DEF ServiceInv
<1>1. UsedGrows
  BY UsedStays DEF ReloadConfig
<1>2. ShapeOK' /\ RequestsOK' /\ LedgerOK' /\ AnsweredIsNotified'
  BY <1>1, AroundStep DEF ReloadConfig
<1>3. TypeOK'
  BY DEF ReloadConfig, TypeOK
<1>4. ProcessOK'
  BY DEF ReloadConfig, ProcessOK
<1> QED
  BY <1>2, <1>3, <1>4

\* The certificate comes from the published configuration.
LEMMA ReloadCertOK ==
  ASSUME ServiceInv, ReloadCert
  PROVE  ServiceInv'
<1> USE DEF ServiceInv
<1>1. UsedGrows
  BY UsedStays DEF ReloadCert
<1>2. ShapeOK' /\ RequestsOK' /\ LedgerOK' /\ AnsweredIsNotified'
  BY <1>1, AroundStep DEF ReloadCert
<1>3. TypeOK'
  <2>1. PICK f \in Files : current = LoadConfig(f) /\ LoadConfig(f) # NoConfig
    BY CurrentIsLoaded DEF ReloadCert, ProcessOK
  <2>2. current.tls = f.cert
    BY <2>1, LoadedFields
  <2> QED
    BY <2>2 DEF ReloadCert, TypeOK
<1>4. ProcessOK'
  BY DEF ReloadCert, ProcessOK
<1> QED
  BY <1>2, <1>3, <1>4

\* A process that is stopping has seen a fault.
LEMMA StopOK ==
  ASSUME ServiceInv, Stop
  PROVE  ServiceInv'
<1> USE DEF ServiceInv
<1>1. UsedGrows /\ used'["faults"] > 0
  BY UsedOnce, BoundsDomain DEF Stop
<1>2. ShapeOK' /\ RequestsOK' /\ LedgerOK' /\ AnsweredIsNotified'
  BY <1>1, AroundStep DEF Stop
<1>3. TypeOK'
  BY <1>1 DEF Stop, TypeOK, UsedGrows, config
<1>4. ProcessOK'
  BY <1>1 DEF Stop, ProcessOK, UsedGrows, config
<1> QED
  BY <1>2, <1>3, <1>4

\* When the process ends, requests and deliveries under way are gone, which is a
\* fault's doing; the others and the queue stay as they are.
LEMMA DownOK ==
  ASSUME ServiceInv, Down, UsedGrows, used'["faults"] > 0
  PROVE  ServiceInv'
<1> USE DEF ServiceInv
<1>1. \A r \in Reqs : /\ req'[r] = req[r] \/ req'[r] = Blank("gone")
                      /\ req'[r].pc \in Finished \cup {"new"}
                      /\ req[r].pc = "answered" => req'[r] = req[r]
  <2> SUFFICES ASSUME NEW r \in Reqs
               PROVE  /\ req'[r] = req[r] \/ req'[r] = Blank("gone")
                      /\ req'[r].pc \in Finished \cup {"new"}
                      /\ req[r].pc = "answered" => req'[r] = req[r]
    OBVIOUS
  <2>1. req'[r] = IF req[r].pc \in Finished \cup {"new"} THEN req[r] ELSE Blank("gone")
    BY DEF Down
  <2>2. Blank("gone").pc \in Finished
    BY DEF Blank, Finished
  <2> QED
    BY <2>1, <2>2 DEF Finished
<1>2. \A r \in Reqs : GoodRequest(r, req'[r])
  <2>1. \A r \in Reqs : GoodRequest(r, req[r])
    BY DEF TypeOK, ShapeOK, GoodRequest, Loaded
  <2>2. \A r \in Reqs : GoodRequest(r, Blank("gone"))
    BY BlankRequest DEF Finished
  <2> QED
    BY <1>1, <2>1, <2>2
<1>3. \A d \in Deliveries : task'[d] = IF task[d].pc \in Over THEN task[d] ELSE At("lost")
  BY DEF Down
<1>4. At("lost") \in GoodTask /\ At("lost").pc = "lost"
  BY ServiceAssumption DEF At, GoodTask, Over
<1>5. TypeOK'
  <2>1. task' \in [Deliveries -> GoodTask]
    <3>1. task' = [d \in Deliveries |-> task'[d]] /\ task \in [Deliveries -> GoodTask]
      BY DEF Down, TypeOK, GoodTask
    <3> QED
      BY <1>3, <1>4, <3>1
  <2> QED
    BY <1>2, <2>1 DEF Down, TypeOK, UsedGrows, GoodRequest, GoodTask, Loaded
<1>6. ShapeOK'
  BY <1>2 DEF Down, ShapeOK, UsedGrows, GoodRequest
<1>7. ProcessOK'
  BY <1>1 DEF Down, ProcessOK
<1>8. RequestsOK'
  <2>1. RequestOK(Blank("gone"))
    BY BlankRequest DEF Finished
  <2> QED
    BY <1>1, <2>1 DEF RequestsOK
<1>9. LedgerOK'
  <2>1. dlq' = dlq
    BY DEF Down
  <2> SUFFICES ASSUME NEW d \in Deliveries
               PROVE  /\ task'[d].pc # "none" => req'[d[1]].pc = "answered"
                      /\ task'[d].pc = "dead" <=> \E k \in DOMAIN dlq : dlq[k] = d
                      /\ task'[d].pc = "lost" => used'["faults"] > 0
    BY <2>1 DEF LedgerOK
  <2>2. /\ task[d].pc # "none" => req[d[1]].pc = "answered"
        /\ task[d].pc = "dead" <=> \E k \in DOMAIN dlq : dlq[k] = d
    BY DEF LedgerOK
  <2>3. d[1] \in Reqs
    BY DEF Deliveries
  <2> QED
    BY <1>1, <1>3, <1>4, <2>2, <2>3 DEF Over
<1>10. AnsweredIsNotified'
  <2> SUFFICES ASSUME NEW r \in Reqs, NEW s \in Steady, req'[r].pc = "answered",
                      req'[r].event # None, Matches(s, req'[r].event)
               PROVE  task'[<<r, s>>].pc # "none"
    BY DEF AnsweredIsNotified
  <2>1. req'[r] = req[r]
    BY <1>1 DEF Blank
  <2>2. task[<<r, s>>].pc # "none" /\ <<r, s>> \in Deliveries
    BY <2>1 DEF AnsweredIsNotified, Deliveries, Steady
  <2> QED
    BY <1>3, <1>4, <2>2
<1> QED
  BY <1>5, <1>6, <1>7, <1>8, <1>9, <1>10

\* A request enters with the configuration current then.
LEMMA ArriveOK ==
  ASSUME ServiceInv, NEW r \in Reqs, Arrive(r)
  PROVE  ServiceInv'
<1> USE DEF ServiceInv
<1>1. PICK q \in Workload[r] :
        req' = [req EXCEPT ![r] = IF Public(q) THEN Blank("answered")
                                  ELSE [Blank("entered") EXCEPT !.q = q, !.entry = current]]
  BY DEF Arrive
<1>2. UsedGrows
  BY UsedStays DEF Arrive
<1>3. proc # "down" /\ req[r].pc \notin Finished
  BY DEF Arrive, Finished
<1>4. CASE Public(q)
  <2>1. req' = [req EXCEPT ![r] = Blank("answered")]
    BY <1>1, <1>4
  <2> QED
    BY <1>2, <1>3, <2>1, BlankRequest, RequestStep DEF Arrive, Finished
<1>5. CASE ~ Public(q)
  <2> DEFINE x == [pc |-> "entered", q |-> q, entry |-> current, arm |-> 0, event |-> None]
  <2>1. req' = [req EXCEPT ![r] = x]
    BY <1>1, <1>5, EnteredRecord
  <2>2. GoodRequest(r, x) /\ RequestOK(x)
    BY DEF GoodRequest, IsReq, RequestOK, TypeOK, Loaded
  <2>3. x.pc = "entered"
    OBVIOUS
  <2> HIDE DEF x
  <2> QED
    BY <1>2, <1>3, <2>1, <2>2, <2>3, RequestStep DEF Arrive
<1> QED
  BY <1>4, <1>5

\* sigv4_mw admits by the snapshot that RequestOK speaks of.
LEMMA AuthenticateOK ==
  ASSUME ServiceInv, NEW r \in Reqs, Authenticate(r)
  PROVE  ServiceInv'
<1> USE DEF ServiceInv
<1>1. UsedGrows
  BY UsedStays DEF Authenticate
<1>2. req[r].pc = "entered" /\ req[r].pc \notin Finished /\ proc # "down"
  BY DEF Authenticate, Finished, ProcessOK
<1>3. CASE Admitted(req[r].q, req[r].entry)
  <2> DEFINE x == [pc |-> "admitted", q |-> req[r].q, entry |-> req[r].entry,
                   arm |-> req[r].arm, event |-> req[r].event]
  <2>1. req' = [req EXCEPT ![r] = x]
    <3>1. IsReq(req[r])
      BY DEF ShapeOK
    <3>2. [req[r] EXCEPT !.pc = "admitted"] = x
      BY <3>1 DEF IsReq
    <3> QED
      BY <1>3, <3>2 DEF Authenticate
  <2>2. GoodRequest(r, x) /\ RequestOK(x)
    BY <1>3 DEF GoodRequest, IsReq, RequestOK, TypeOK, Loaded
  <2>3. x.pc = "admitted"
    OBVIOUS
  <2> HIDE DEF x
  <2> QED
    BY <1>1, <1>2, <2>1, <2>2, <2>3, RequestStep DEF Authenticate
<1>4. CASE ~ Admitted(req[r].q, req[r].entry)
  <2>1. req' = [req EXCEPT ![r] = Blank("refused")]
    BY <1>4 DEF Authenticate
  <2> QED
    BY <1>1, <1>2, <2>1, BlankRequest, RequestStep DEF Authenticate, Finished
<1> QED
  BY <1>3, <1>4

\* dispatch finds the arm by the address under the configuration current now.
LEMMA RouteOK ==
  ASSUME ServiceInv, NEW r \in Reqs, Route(r)
  PROVE  ServiceInv'
<1> USE DEF ServiceInv
<1> DEFINE q == req[r].q
           a == Address(q, current)
<1>1. UsedGrows
  BY UsedStays DEF Route
<1>2. req[r].pc = "admitted" /\ req[r].pc \notin Finished /\ proc # "down"
  BY DEF Route, Finished, ProcessOK
<1>3. CASE Routable(q, a)
  <2> DEFINE e == [bucket |-> a.bucket, key |-> a.key, type |-> None]
             x == [pc |-> "handling", q |-> q, entry |-> req[r].entry,
                   arm |-> ChosenArm(q, a), event |-> e]
  <2>1. req' = [req EXCEPT ![r] = x]
    <3>1. IsReq(req[r])
      BY DEF ShapeOK
    <3>2. req' = [req EXCEPT ![r] = [req[r] EXCEPT !.pc = "handling",
                                       !.arm = ChosenArm(q, a), !.event = e]]
      BY <1>3 DEF Route
    <3> HIDE DEF e
    <3>3. [req[r] EXCEPT !.pc = "handling", !.arm = ChosenArm(q, a), !.event = e] = x
      BY <3>1, RoutedRecord
    <3> QED
      BY <3>2, <3>3
  <2>2. MatchingArms(q, a) # {}
    BY <1>3 DEF Routable
  <2>3. ChosenArm(q, a) \in DOMAIN Arms
    BY <2>2, ChosenIsFirst DEF MatchingArms
  <2>4. GoodRequest(r, x)
    BY <2>3 DEF GoodRequest, IsReq, TypeOK, Loaded
  <2>5. RequestOK(x)
    <3>1. Admitted(q, req[r].entry)
      BY <1>2 DEF RequestsOK, RequestOK
    <3>2. PICK f \in Files : current = LoadConfig(f) /\ LoadConfig(f) # NoConfig
      BY <1>2, CurrentIsLoaded
    <3> QED
      BY <2>2, <3>1, <3>2 DEF RequestOK
  <2>6. x.pc = "handling"
    OBVIOUS
  <2> HIDE DEF x
  <2> QED
    BY <1>1, <1>2, <2>1, <2>4, <2>5, <2>6, RequestStep DEF Route
<1>4. CASE ~ Routable(q, a)
  <2>1. req' = [req EXCEPT ![r] = Blank("refused")]
    BY <1>4 DEF Route
  <2> QED
    BY <1>1, <1>2, <2>1, BlankRequest, RequestStep DEF Route, Finished
<1> QED
  BY <1>3, <1>4

\* An answer without an event owes nobody a delivery.
LEMMA HandlerReturnsOK ==
  ASSUME ServiceInv, NEW r \in Reqs, HandlerReturns(r)
  PROVE  ServiceInv'
<1> USE DEF ServiceInv
<1>1. UsedGrows
  BY UsedStays DEF HandlerReturns
<1> QED
  BY <1>1, BlankRequest, RequestStep DEF HandlerReturns, Finished

\* A request that is dropped owes nobody a delivery.
LEMMA DisconnectOK ==
  ASSUME ServiceInv, NEW r \in Reqs, Disconnect(r)
  PROVE  ServiceInv'
<1> USE DEF ServiceInv
<1>1. UsedGrows
  BY UsedOnce, BoundsDomain DEF Disconnect
<1> QED
  BY <1>1, BlankRequest, RequestStep DEF Disconnect, Finished

\* A commit adds the event; signature and arm stay.
LEMMA CommitOK ==
  ASSUME ServiceInv, NEW r \in Reqs, Commit(r)
  PROVE  ServiceInv'
<1> USE DEF ServiceInv
<1>1. UsedGrows
  BY UsedStays DEF Commit
<1>2. req[r].pc = "handling" /\ req[r].pc \notin Finished /\ proc # "down"
  BY DEF Commit, Finished, ProcessOK
<1>3. PICK type : req' = [req EXCEPT ![r].pc = "committed", ![r].event.type = type]
  BY DEF Commit
<1>5. PICK e : req' = [req EXCEPT ![r] = [pc |-> "committed", q |-> req[r].q,
                         entry |-> req[r].entry, arm |-> req[r].arm, event |-> e]]
  <2>1. \E e : [req EXCEPT ![r].pc = "committed", ![r].event.type = type]
                = [req EXCEPT ![r] = [pc |-> "committed", q |-> req[r].q,
                     entry |-> req[r].entry, arm |-> req[r].arm, event |-> e]]
    BY CommittedRecord
  <2> QED
    BY <1>3, <2>1, Zenon
<1> DEFINE x == [pc |-> "committed", q |-> req[r].q, entry |-> req[r].entry,
                 arm |-> req[r].arm, event |-> e]
<1>6. GoodRequest(r, x)
  BY DEF GoodRequest, IsReq, TypeOK, Loaded
<1>7. RequestOK(x)
  BY <1>2 DEF RequestsOK, RequestOK
<1>8. x.pc = "committed" /\ req' = [req EXCEPT ![r] = x]
  BY <1>5
<1>9. UNCHANGED <<config, proc, task, dlq>>
  BY DEF Commit
<1> HIDE DEF x
<1> QED
  BY <1>1, <1>2, <1>6, <1>7, <1>8, <1>9, RequestStep

\* emit starts deliveries for a request that had none, and for all of the steady
\* subscriptions that match: those are in every file that loads, so in the
\* configuration current now.
LEMMA EmitOK ==
  ASSUME ServiceInv, NEW r \in Reqs, Emit(r)
  PROVE  ServiceInv'
<1> USE DEF ServiceInv
<1> DEFINE x == [pc |-> "answered", q |-> None, entry |-> NoConfig, arm |-> 0,
                 event |-> req[r].event]
           started(d) == d[1] = r /\ d[2] \in current.subs /\ Matches(d[2], req[r].event)
<1>1. req[r].pc = "committed" /\ proc # "down" /\ UsedGrows
  BY UsedStays DEF Emit, ProcessOK, Finished
<1>2. /\ \A s \in Reqs : req'[s] = IF s = r THEN x ELSE req[s]
      /\ req' = [s \in Reqs |-> req'[s]]
  <2>1. [Blank("answered") EXCEPT !.event = req[r].event] = x
    BY DEF Blank
  <2>2. req' = [req EXCEPT ![r] = x] /\ req = [s \in Reqs |-> req[s]]
    BY <2>1 DEF Emit, ShapeOK
  <2> QED
    BY <2>2
<1>3. GoodRequest(r, x) /\ RequestOK(x) /\ x.pc = "answered" /\ x.event = req[r].event
  BY DEF GoodRequest, IsReq, Loaded, Finished, RequestOK
<1> HIDE DEF x
<1>4. \A d \in Deliveries : task'[d] = IF started(d) THEN At("check") ELSE task[d]
  BY DEF Emit
<1>5. At("check") \in GoodTask /\ At("check").pc = "check"
  BY ServiceAssumption DEF At, GoodTask
<1>6. UNCHANGED <<file, current, cert, hup, reload, proc, dlq, used>>
  BY DEF Emit, config
<1>7. TypeOK'
  <2>1. \A s \in Reqs : GoodRequest(s, req[s])
    BY DEF TypeOK, ShapeOK, GoodRequest, Loaded
  <2>2. \A s \in Reqs : GoodRequest(s, req'[s])
    BY <1>2, <1>3, <2>1
  <2>3. task' \in [Deliveries -> GoodTask]
    <3>1. task' = [d \in Deliveries |-> task'[d]] /\ task \in [Deliveries -> GoodTask]
      BY DEF Emit, TypeOK, GoodTask
    <3> QED
      BY <1>4, <1>5, <3>1
  <2> QED
    BY <1>6, <2>2, <2>3 DEF TypeOK, GoodRequest, GoodTask, Loaded
<1>8. ShapeOK'
  BY <1>2, <1>3, <1>6 DEF ShapeOK, GoodRequest
<1>9. ProcessOK'
  BY <1>1, <1>2, <1>6 DEF ProcessOK
<1>10. RequestsOK'
  BY <1>2, <1>3 DEF RequestsOK
<1>11. LedgerOK'
  <2> SUFFICES ASSUME NEW d \in Deliveries
               PROVE  /\ task'[d].pc # "none" => req'[d[1]].pc = "answered"
                      /\ task'[d].pc = "dead" <=> \E k \in DOMAIN dlq : dlq[k] = d
                      /\ task'[d].pc = "lost" => used["faults"] > 0
    BY <1>6 DEF LedgerOK
  <2>1. /\ task[d].pc # "none" => req[d[1]].pc = "answered"
        /\ task[d].pc = "dead" <=> \E k \in DOMAIN dlq : dlq[k] = d
        /\ task[d].pc = "lost" => used["faults"] > 0
        /\ d[1] \in Reqs
    BY DEF LedgerOK, Deliveries
  <2>2. CASE d[1] = r
    <3>1. task[d].pc = "none" /\ req'[d[1]].pc = "answered"
      BY <1>1, <1>2, <1>3, <2>1, <2>2
    <3> QED
      BY <1>4, <1>5, <2>1, <3>1
  <2>3. CASE d[1] # r
    BY <1>2, <1>4, <2>1, <2>3
  <2> QED
    BY <2>2, <2>3
<1>12. AnsweredIsNotified'
  <2> SUFFICES ASSUME NEW s \in Reqs, NEW w \in Steady, req'[s].pc = "answered",
                      req'[s].event # None, Matches(w, req'[s].event)
               PROVE  task'[<<s, w>>].pc # "none"
    BY DEF AnsweredIsNotified
  <2>1. <<s, w>> \in Deliveries
    BY DEF Deliveries, Steady
  <2>2. CASE s = r
    <3>1. PICK f \in Files : current = LoadConfig(f) /\ LoadConfig(f) # NoConfig
      BY <1>1, CurrentIsLoaded
    <3>2. w \in f.webhooks
      BY <3>1 DEF Steady
    <3>3. w \in current.subs
      BY <3>1, <3>2, LoadedFields
    <3>4. Matches(w, req[r].event)
      BY <1>2, <1>3, <2>2
    <3>5. started(<<s, w>>)
      BY <2>2, <3>3, <3>4
    <3> QED
      BY <1>4, <1>5, <2>1, <3>5
  <2>3. CASE s # r
    <3>1. task[<<s, w>>].pc # "none"
      BY <1>2, <2>3 DEF AnsweredIsNotified
    <3> QED
      BY <1>4, <1>5, <2>1, <3>1
  <2> QED
    BY <2>2, <2>3
<1> QED
  BY <1>7, <1>8, <1>9, <1>10, <1>11, <1>12

\* The steps of deliver_with_retry up to its end, and the faults that end it.
LEMMA AttemptOK ==
  ASSUME ServiceInv, NEW d \in Deliveries,
         Check(d) \/ Succeed(d) \/ Fail(d) \/ Wake(d) \/ GiveUp(d)
  PROVE  ServiceInv'
<1> USE DEF ServiceInv
<1>1. task[d] \in GoodTask /\ task \in [Deliveries -> GoodTask]
  BY DEF TypeOK, GoodTask
<1>2. \A pc \in {"insert", "delivered", "lost"} : At(pc) \in GoodTask /\ At(pc).pc = pc
  BY ServiceAssumption DEF At, GoodTask, Over
<1>3. CASE Check(d)
  <2>1. UsedGrows /\ task[d].pc \notin Over
    BY <1>3, UsedStays DEF Check, Over
  <2>2. CASE task' = [task EXCEPT ![d].pc = "post"]
    <3>1. PICK t : t = [task[d] EXCEPT !.pc = "post"]
      OBVIOUS
    <3>2. t \in GoodTask /\ t.pc = "post" /\ task' = [task EXCEPT ![d] = t]
      BY <1>1, <2>2, <3>1 DEF GoodTask
    <3> QED
      BY <1>3, <2>1, <3>2, DeliveryStep DEF Check
  <2>3. CASE task' = [task EXCEPT ![d] = At("insert")]
    BY <1>2, <1>3, <2>1, <2>3, DeliveryStep DEF Check
  <2> QED
    BY <1>3, <2>2, <2>3 DEF Check
<1>4. CASE Succeed(d)
  <2>1. UsedGrows /\ task[d].pc \notin Over
    BY <1>4, UsedStays DEF Succeed, Over
  <2> QED
    BY <1>2, <1>4, <2>1, DeliveryStep DEF Succeed
<1>5. CASE Fail(d)
  <2>1. UsedGrows /\ task[d].pc \notin Over
    BY <1>5, UsedStays DEF Fail, Over
  <2>2. CASE task[d].failed < MaxRetries
    <3>1. PICK t : t = [pc |-> "sleep", failed |-> task[d].failed + 1]
      OBVIOUS
    <3>2. task' = [task EXCEPT ![d] = t]
      BY <1>5, <2>2, <3>1 DEF Fail
    <3>3. t \in GoodTask /\ t.pc = "sleep"
      BY <1>1, <2>2, <3>1, ServiceAssumption DEF GoodTask
    <3> QED
      BY <1>5, <2>1, <3>2, <3>3, DeliveryStep DEF Fail
  <2>3. CASE ~ (task[d].failed < MaxRetries)
    <3>1. task' = [task EXCEPT ![d] = At("insert")]
      BY <1>5, <2>3 DEF Fail
    <3> QED
      BY <1>2, <1>5, <2>1, <3>1, DeliveryStep DEF Fail
  <2> QED
    BY <2>2, <2>3
<1>6. CASE Wake(d)
  <2>1. UsedGrows /\ task[d].pc \notin Over
    BY <1>6, UsedStays DEF Wake, Over
  <2>2. PICK t : t = [task[d] EXCEPT !.pc = "check"]
    OBVIOUS
  <2>3. t \in GoodTask /\ t.pc = "check" /\ task' = [task EXCEPT ![d] = t]
    BY <1>1, <1>6, <2>2 DEF GoodTask, Wake
  <2> QED
    BY <1>6, <2>1, <2>3, DeliveryStep DEF Wake
<1>7. CASE GiveUp(d)
  <2>1. UsedGrows /\ used'["faults"] > 0
    BY <1>7, UsedOnce, BoundsDomain DEF GiveUp
  <2>2. task[d].pc \notin Over
    BY <1>7 DEF GiveUp, At, Over
  <2> QED
    BY <1>2, <1>7, <2>1, <2>2, DeliveryStep DEF GiveUp
<1> QED
  BY <1>3, <1>4, <1>5, <1>6, <1>7

\* The largest of the first n numbers.
LEMMA LastOfInterval ==
  ASSUME NEW n \in Nat \ {0}
  PROVE  Max(1 .. n) = n
BY DEF Max

\* The queue is a sequence, and the next key is the one after its last.
LEMMA QueueKeys ==
  ASSUME ShapeOK
  PROVE  NextDlqKey = Len(dlq) + 1 /\ DOMAIN dlq = 1 .. Len(dlq) /\ Len(dlq) \in Nat
<1>1. dlq \in Seq(Deliveries) /\ DOMAIN dlq = 1 .. Len(dlq) /\ Len(dlq) \in Nat
  BY DEF ShapeOK
<1>2. CASE dlq = <<>>
  BY <1>1, <1>2 DEF NextDlqKey
<1>3. CASE dlq # <<>>
  <2>1. Len(dlq) \in Nat \ {0}
    BY <1>1, <1>3
  <2>2. Max(1 .. Len(dlq)) = Len(dlq)
    BY <2>1, LastOfInterval
  <2> QED
    BY <1>1, <1>3, <2>2 DEF NextDlqKey
<1> QED
  BY <1>1, <1>2, <1>3

\* An insert is an append of a delivery that was not in the queue.
LEMMA InsertDlqOK ==
  ASSUME ServiceInv, NEW d \in Deliveries, InsertDlq(d)
  PROVE  ServiceInv'
<1> USE DEF ServiceInv
<1> DEFINE n == Len(dlq)
<1>1. n \in Nat /\ DOMAIN dlq = 1 .. n /\ NextDlqKey = n + 1 /\ dlq \in Seq(Deliveries)
  BY QueueKeys DEF ShapeOK
<1>2. /\ DOMAIN dlq' = 1 .. (n + 1) /\ dlq' \in Seq(Deliveries)
      /\ dlq'[n + 1] = d /\ \A k \in 1 .. n : dlq'[k] = dlq[k]
  <2>1. dlq' = [k \in 1 .. (n + 1) |-> IF k = n + 1 THEN d ELSE dlq[k]]
    <3>1. 1 .. n \cup {n + 1} = 1 .. (n + 1)
      BY <1>1
    <3> QED
      BY <1>1, <3>1 DEF InsertDlq
  <2>2. dlq' \in [1 .. (n + 1) -> Deliveries]
    BY <1>1, <2>1
  <2>3. dlq' \in Seq(Deliveries)
    BY <1>1, <2>2
  <2> QED
    BY <1>1, <2>1, <2>3
<1>3. /\ \A e \in Deliveries : task'[e] = IF e = d THEN At("dead") ELSE task[e]
      /\ At("dead") \in GoodTask /\ At("dead").pc = "dead"
      /\ task' \in [Deliveries -> GoodTask]
  <2>1. At("dead") \in GoodTask /\ At("dead").pc = "dead"
    BY ServiceAssumption DEF At, GoodTask, Over
  <2>2. task \in [Deliveries -> GoodTask] /\ task' = [task EXCEPT ![d] = At("dead")]
    BY DEF TypeOK, GoodTask, InsertDlq
  <2> QED
    BY <2>1, <2>2
<1>4. task[d].pc = "insert"
  BY DEF InsertDlq
<1>5. UNCHANGED <<file, current, cert, hup, reload, proc, req, used>>
  BY DEF InsertDlq, config
<1>6. TypeOK'
  <2>1. DOMAIN dlq' = 1 .. Cardinality(DOMAIN dlq')
    <3>1. Cardinality(1 .. (n + 1)) = n + 1
      BY <1>1, FS_Interval
    <3> QED
      BY <1>2, <3>1
  <2>2. Range(dlq') \subseteq Deliveries
    BY <1>2 DEF Range
  <2> QED
    BY <1>3, <1>5, <2>1, <2>2 DEF TypeOK, GoodTask
<1>7. ShapeOK'
  BY <1>2, <1>5 DEF ShapeOK
<1>8. ProcessOK'
  BY <1>5 DEF ProcessOK
<1>9. RequestsOK'
  BY <1>5 DEF RequestsOK
<1>10. LedgerOK'
  <2>1. \A k \in 1 .. n : dlq[k] # d
    BY <1>1, <1>4 DEF LedgerOK
  <2>2. \A k, l \in DOMAIN dlq' : dlq'[k] = dlq'[l] => k = l
    <3>1. \A k, l \in 1 .. n : dlq[k] = dlq[l] => k = l
      BY <1>1 DEF LedgerOK
    <3> QED
      BY <1>1, <1>2, <2>1, <3>1
  <2>3. ASSUME NEW e \in Deliveries
        PROVE  /\ task'[e].pc # "none" => req[e[1]].pc = "answered"
               /\ task'[e].pc = "dead" <=> \E k \in DOMAIN dlq' : dlq'[k] = e
               /\ task'[e].pc = "lost" => used["faults"] > 0
    <3>1. /\ task[e].pc # "none" => req[e[1]].pc = "answered"
          /\ task[e].pc = "dead" <=> \E k \in 1 .. n : dlq[k] = e
          /\ task[e].pc = "lost" => used["faults"] > 0
      BY <1>1 DEF LedgerOK
    <3>2. CASE e = d
      BY <1>1, <1>2, <1>3, <1>4, <3>1, <3>2
    <3>3. CASE e # d
      <4>1. (\E k \in DOMAIN dlq' : dlq'[k] = e) <=> \E k \in 1 .. n : dlq[k] = e
        BY <1>1, <1>2, <3>3
      <4> QED
        BY <1>3, <3>1, <3>3, <4>1
    <3> QED
      BY <3>2, <3>3
  <2> QED
    BY <1>5, <2>2, <2>3 DEF LedgerOK
<1>11. AnsweredIsNotified'
  <2> SUFFICES ASSUME NEW r \in Reqs, NEW s \in Steady, task[<<r, s>>].pc # "none"
               PROVE  task'[<<r, s>>].pc # "none"
    BY <1>5 DEF AnsweredIsNotified
  <2>1. <<r, s>> \in Deliveries
    BY DEF Deliveries, Steady
  <2> QED
    BY <1>3, <2>1
<1> QED
  BY <1>6, <1>7, <1>8, <1>9, <1>10, <1>11

------------------------------------------------------------------------------
(* The theorems.                                                           *)

\* Every step keeps the invariant.
LEMMA StepOK ==
  ASSUME ServiceInv, [Next]_vars
  PROVE  ServiceInv'
<1>1. CASE EditConfig \/ Boot \/ Hup \/ ReloadConfig \/ ReloadCert \/ Stop
  BY <1>1, EditConfigOK, BootOK, HupOK, ReloadConfigOK, ReloadCertOK, StopOK
<1>2. CASE Exit
  <2>1. UsedGrows /\ used'["faults"] > 0
    BY <1>2, UsedStays DEF Exit, ServiceInv, ProcessOK
  <2> QED
    BY <1>2, <2>1, DownOK DEF Exit
<1>3. CASE Crash
  <2>1. UsedGrows /\ used'["faults"] > 0
    BY <1>3, UsedOnce, BoundsDomain DEF Crash, ServiceInv
  <2> QED
    BY <1>3, <2>1, DownOK DEF Crash
<1>4. CASE \E r \in Reqs : \/ Arrive(r) \/ Authenticate(r) \/ Route(r) \/ HandlerReturns(r)
                           \/ Commit(r) \/ Emit(r) \/ Disconnect(r)
  BY <1>4, ArriveOK, AuthenticateOK, RouteOK, HandlerReturnsOK, CommitOK, EmitOK, DisconnectOK
<1>5. CASE \E d \in Deliveries : Deliver(d) \/ GiveUp(d)
  BY <1>5, AttemptOK, InsertDlqOK DEF Deliver
<1>6. CASE UNCHANGED vars
  BY <1>6 DEF vars, config, ServiceInv, TypeOK, ShapeOK, ProcessOK, RequestsOK, LedgerOK,
              AnsweredIsNotified
<1> QED
  BY <1>1, <1>2, <1>3, <1>4, <1>5, <1>6 DEF Next

\* ServiceInv holds in every state that the process around the store reaches.
THEOREM ServiceInvariant == Spec => []ServiceInv
BY InitOK, StepOK, PTL DEF Spec

\* Configuration, process, requests, deliveries and the dead-letter queue keep
\* their types: a delivery makes at most MaxRetries + 1 attempts, and the keys of
\* the queue have no gaps.
THEOREM ServiceTypeCorrect == Spec => []TypeOK
<1>1. ServiceInv => TypeOK
  BY DEF ServiceInv
<1> QED
  BY <1>1, ServiceInvariant, PTL

\* No reload lets a request past sigv4_mw: a handler other than the CORS preflight
\* runs only for what was signed with the root key current on entry, and in time.
THEOREM SignaturesHold == Spec => []HandledOnlyIfSigned
<1>1. ASSUME ServiceInv
      PROVE  HandledOnlyIfSigned
  <2> SUFFICES ASSUME NEW r \in Reqs, req[r].pc \in {"handling", "committed"},
                      Arms[req[r].arm].handler # "preflight"
               PROVE  /\ req[r].q.signer = req[r].entry.root
                      /\ req[r].q.sound
                      /\ req[r].q.expires = NotPresigned \/ req[r].q.age <= req[r].q.expires
    BY DEF HandledOnlyIfSigned
  <2>1. RequestOK(req[r])
    BY <1>1 DEF ServiceInv, RequestsOK
  <2>2. PICK f \in Files :
          /\ MatchingArms(req[r].q, Address(req[r].q, LoadConfig(f))) # {}
          /\ req[r].arm = ChosenArm(req[r].q, Address(req[r].q, LoadConfig(f)))
    BY <2>1 DEF RequestOK
  <2>3. req[r].arm \in DOMAIN Arms /\ Arms[req[r].arm].method = req[r].q.method
    BY <2>2, ChosenIsFirst DEF MatchingArms
  <2>4. req[r].q.method # "OPTIONS"
    BY <2>3, TableRows DEF MethodOK
  <2>5. Authentic(req[r].q, req[r].entry)
    BY <2>1, <2>4 DEF RequestOK, Admitted
  <2> QED
    BY <2>5 DEF Authentic, InTime
<1> QED
  BY <1>1, ServiceInvariant, PTL

\* dispatch::handle never takes a catch-all arm where one for a subresource would
\* have matched: the order of the table is right for every request.
THEOREM RoutingIsSpecific == Spec => []MostSpecificArm
<1>1. ASSUME ServiceInv
      PROVE  MostSpecificArm
  <2> SUFFICES ASSUME NEW r \in Reqs, req[r].pc = "handling", NEW i \in DOMAIN Arms,
                      Arms[i].method = req[r].q.method,
                      Arms[req[r].arm].levels \subseteq Arms[i].levels,
                      Arms[i].needs \subseteq req[r].q.has,
                      Arms[req[r].arm].needs \subseteq Arms[i].needs
               PROVE  Arms[req[r].arm].needs = Arms[i].needs
    BY DEF MostSpecificArm
  <2>1. PICK f \in Files :
          /\ MatchingArms(req[r].q, Address(req[r].q, LoadConfig(f))) # {}
          /\ req[r].arm = ChosenArm(req[r].q, Address(req[r].q, LoadConfig(f)))
    BY <1>1 DEF ServiceInv, RequestsOK, RequestOK
  <2>2. /\ req[r].arm \in MatchingArms(req[r].q, Address(req[r].q, LoadConfig(f)))
        /\ \A j \in MatchingArms(req[r].q, Address(req[r].q, LoadConfig(f))) : req[r].arm <= j
    BY <2>1, ChosenIsFirst
  <2>3. i \in MatchingArms(req[r].q, Address(req[r].q, LoadConfig(f)))
    BY <2>2 DEF MatchingArms
  <2>4. /\ req[r].arm \in DOMAIN Arms /\ Arms[req[r].arm].method = Arms[i].method
        /\ req[r].arm <= i
    BY <2>2, <2>3 DEF MatchingArms
  <2>5. req[r].arm \in 1 .. 36 /\ i \in 1 .. 36
    BY <2>4, TableRows
  <2>6. CASE req[r].arm = i
    BY <2>6
  <2>7. CASE req[r].arm < i
    BY <2>4, <2>7, SpecificFirst
  <2> QED
    BY <2>4, <2>5, <2>6, <2>7
<1> QED
  BY <1>1, ServiceInvariant, PTL

\* Whatever is reloaded while a request runs, its answer comes with a delivery for
\* every matching subscription that no file that loads leaves out.
THEOREM SubscribersAreNotified == Spec => []AnsweredIsNotified
<1>1. ServiceInv => AnsweredIsNotified
  BY DEF ServiceInv
<1> QED
  BY <1>1, ServiceInvariant, PTL

\* The dead-letter queue holds every delivery that used up its attempts exactly
\* once and nothing else, across crashes and restarts; without a fault no delivery
\* is lost.
THEOREM LedgerIsExact == Spec => []DeliveryLedger
<1>1. ASSUME ServiceInv
      PROVE  DeliveryLedger
  <2> SUFFICES ASSUME NEW d \in Deliveries
               PROVE  /\ Cardinality({k \in DOMAIN dlq : dlq[k] = d})
                           = IF task[d].pc = "dead" THEN 1 ELSE 0
                      /\ task[d].pc = "lost" => used["faults"] > 0
    BY DEF DeliveryLedger
  <2>1. task[d].pc = "lost" => used["faults"] > 0
    BY <1>1 DEF ServiceInv, LedgerOK
  <2>2. CASE task[d].pc = "dead"
    <3>1. PICK k \in DOMAIN dlq : dlq[k] = d
      BY <1>1, <2>2 DEF ServiceInv, LedgerOK
    <3>2. {l \in DOMAIN dlq : dlq[l] = d} = {k}
      BY <1>1, <3>1 DEF ServiceInv, LedgerOK
    <3> QED
      BY <2>1, <2>2, <3>2, FS_Singleton
  <2>3. CASE task[d].pc # "dead"
    <3>1. {l \in DOMAIN dlq : dlq[l] = d} = {}
      BY <1>1, <2>3 DEF ServiceInv, LedgerOK
    <3> QED
      BY <2>1, <2>3, <3>1, FS_EmptySet
  <2> QED
    BY <2>2, <2>3
<1> QED
  BY <1>1, ServiceInvariant, PTL

==============================================================================
