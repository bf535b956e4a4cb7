----------------------------- MODULE AcceptLoop -----------------------------
(***************************************************************************)
(* AcceptLoop: mainloop of the TCP router around AcceptBackoff::accept.    *)
(* Its select! cancels the accept future, wherever that stands, whenever a *)
(* SIGHUP comes in first; the next round starts a new one, and only        *)
(* AcceptBackoff remembers what went before.                               *)
(*                                                                         *)
(* Time is counted in units of the shortest delay, 100 ms.  retry_at is    *)
(* the Option of the units that remain.                                    *)
(***************************************************************************)
EXTENDS Integers, FiniteSets

CONSTANT MaxDelay        \* the longest delay, 1 s

ASSUME DelayAssumption == MaxDelay \in Nat \ {0}

VARIABLES
  delay, retry_at,       \* AcceptBackoff
  accepting,             \* where the accept future stands
  due,                   \* history: units until the backoff last set is over
  streak                 \* history: failures since the last connection, of
                         \* those that call for backing off

vars == <<delay, retry_at, accepting, due, streak>>

Init == delay = 0 /\ retry_at = {} /\ accepting = "start" /\ due = 0 /\ streak = 0

\* Mutant of Rearm: a new future waits the whole delay again.
RearmWhole == IF retry_at = {} THEN {} ELSE {delay}

\* The deadline as a new future finds it.
Rearm == retry_at

\* The first poll of the future.
Start ==
  /\ accepting = "start"
  /\ retry_at' = Rearm
  /\ accepting' = IF retry_at = {} THEN "accept" ELSE "sleep"
  /\ UNCHANGED <<delay, due, streak>>

\* sleep_until(retry_at) is over.
Wake ==
  /\ accepting = "sleep" /\ 0 \in retry_at
  /\ accepting' = "accept"
  /\ UNCHANGED <<delay, retry_at, due, streak>>

\* A connection: its task is spawned.
AcceptOk ==
  /\ accepting = "accept"
  /\ delay' = 0 /\ retry_at' = {}
  /\ accepting' = "start"
  /\ due' = 0 /\ streak' = 0

\* Mutant of NextDelay: the delay is not doubled.
NextDelayFlat == 1

\* The delay doubled, between the shortest and the longest.
NextDelay ==
  IF 2 * delay < 1 THEN 1 ELSE IF 2 * delay > MaxDelay THEN MaxDelay ELSE 2 * delay

\* An aborted accept or a malformed handoff: tried again at once.
AcceptAborted ==
  /\ accepting = "accept"
  /\ retry_at' = {0}
  /\ accepting' = "start"
  /\ UNCHANGED <<delay, due, streak>>

\* Any other error.
AcceptFails ==
  /\ accepting = "accept"
  /\ delay' = NextDelay /\ retry_at' = {delay'}
  /\ accepting' = "start"
  /\ due' = delay'
  /\ streak' = IF streak < MaxDelay THEN streak + 1 ELSE streak

\* Mutant of Cancelled: the backoff goes with the future.
CancelledAnew == delay' = 0 /\ retry_at' = {}

\* What is left of the backoff when the future is dropped.
Cancelled == UNCHANGED <<delay, retry_at>>

\* SIGHUP: the configuration is loaded, or stays if it does not load.
Hangup ==
  /\ Cancelled
  /\ accepting' = "start"
  /\ UNCHANGED <<due, streak>>

Tick ==
  /\ retry_at' = {IF t = 0 THEN 0 ELSE t - 1 : t \in retry_at}
  /\ due' = IF due = 0 THEN 0 ELSE due - 1
  /\ UNCHANGED <<delay, accepting, streak>>

Next == Start \/ Wake \/ AcceptOk \/ AcceptAborted \/ AcceptFails \/ Hangup \/ Tick

Spec == Init /\ [][Next]_vars

\* Time passes; the runtime polls the future, and select! polls its branches
\* in random order, so that signals do not always come before it.
FairSpec == Spec /\ WF_vars(Tick) /\ WF_vars(Start) /\ SF_vars(Wake)

-----------------------------------------------------------------------------
(* Properties. *)

TypeOK ==
  /\ delay \in 0..MaxDelay /\ due \in 0..MaxDelay /\ streak \in 0..MaxDelay
  /\ retry_at \in {{}} \cup {{t} : t \in 0..MaxDelay}
  /\ accepting \in {"start", "sleep", "accept"}

\* "Preserve the retry deadline across cancellation for configuration
\* reloads": accept is not called again before the delay of the last failure
\* is over, however many SIGHUPs and aborted accepts came in between.
BackoffKept == TypeOK /\ (accepting = "accept" => due = 0)

\* The shortest delay doubled n times.
Doubled[n \in 0..MaxDelay] == IF n = 0 THEN 1 ELSE 2 * Doubled[n - 1]

\* Each failure since the last connection has doubled the delay, up to the
\* longest, whatever came between them.
BackoffGrows ==
  streak > 0 =>
    delay = IF Doubled[streak - 1] < MaxDelay THEN Doubled[streak - 1] ELSE MaxDelay

\* Both: nothing shortens a delay, and nothing but a connection ends the row of
\* growing ones.
Backoff == BackoffKept /\ BackoffGrows

\* accept is tried again in the end: reloads do not put it off for ever.
RetryHappens == accepting = "sleep" ~> accepting = "accept"
=============================================================================
