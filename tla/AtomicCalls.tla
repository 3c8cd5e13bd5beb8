----------------------------- MODULE AtomicCalls -----------------------------
(***************************************************************************)
(* What MetaStore promises its callers (src/src/storage/db/mod.rs): a call *)
(* takes effect at most once, at one moment between its beginning and its  *)
(* return; the answer is that of the call's own operation at its place in  *)
(* the common order; and a call that is refused has had no effect and      *)
(* never will.  Nothing is promised about a call whose caller went away,   *)
(* or whose process died: it took effect, or it did not.                   *)
(***************************************************************************)
EXTENDS Naturals, Sequences

CONSTANTS
  Calls,    \* calls, each made once
  NoAnswer  \* the answer of a call that has none

VARIABLES
  status,  \* where each call is
  log,     \* the calls that took effect, in their order
  answer   \* the place in the order that a caller was told

absVars == <<status, log, answer>>

Init ==
  /\ status = [c \in Calls |-> "new"]
  /\ log = <<>>
  /\ answer = [c \in Calls |-> NoAnswer]

Begin(c) ==
  /\ status[c] = "new"
  /\ status' = [status EXCEPT ![c] = "open"]
  /\ UNCHANGED <<log, answer>>

Apply(c) ==
  /\ status[c] = "open"
  /\ status' = [status EXCEPT ![c] = "applied"]
  /\ log' = Append(log, c)
  /\ UNCHANGED answer

Answer(c) ==
  /\ status[c] = "applied"
  /\ status' = [status EXCEPT ![c] = "answered"]
  /\ \E i \in DOMAIN log : log[i] = c /\ answer' = [answer EXCEPT ![c] = i]
  /\ UNCHANGED log

Refuse(c) ==
  /\ status[c] = "open"
  /\ status' = [status EXCEPT ![c] = "refused"]
  /\ UNCHANGED <<log, answer>>

\* Calls that nobody waits for any more will never take effect.
Lose ==
  \E lost \in SUBSET {c \in Calls : status[c] = "open"} :
    /\ status' = [c \in Calls |-> IF c \in lost THEN "lost" ELSE status[c]]
    /\ UNCHANGED <<log, answer>>

Next ==
  \/ \E c \in Calls : Begin(c) \/ Apply(c) \/ Answer(c) \/ Refuse(c)
  \/ Lose

Spec == Init /\ [][Next]_absVars

==============================================================================
