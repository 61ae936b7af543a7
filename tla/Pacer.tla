------------------------------- MODULE Pacer -------------------------------
(***************************************************************************)
(* The request budget of a source: when the requests that share a Pacer    *)
(* may start, how their failures pace the others, and how a request is     *)
(* tried again.  A requester is a task with one request after another; the *)
(* backfill's are its range tasks.                                         *)
(*                                                                         *)
(* Time passes in ticks.  The moments the code keeps on the monotonic      *)
(* clock (next_start, cooldown, the end of a sleep) are kept as what is    *)
(* left until then, which is all that is ever compared.                    *)
(***************************************************************************)
EXTENDS Integers

CONSTANTS Requesters,
          Attempts,       \* tries of one request (5)
          Fastest,        \* the spacing of starts at BACKFILL_RATE
          Slowest,        \* the spacing of starts at one a second
          LiveGap,        \* LIVE_GAP
          InitialBackoff, \* INITIAL_BACKOFF
          MaxBackoff,     \* MAX_BACKOFF
          RetryAfters     \* the delays the source may ask for

Free == "free"

ASSUME PacerAssumption ==
  /\ Free \notin Requesters
  /\ Attempts \in 1 .. 5
  /\ Fastest \in Nat \ {0} /\ Slowest \in Nat /\ Fastest <= Slowest
  /\ LiveGap \in Nat
  /\ InitialBackoff \in Nat /\ MaxBackoff \in Nat
  /\ RetryAfters \subseteq Nat

VARIABLES backfill, \* the pacer's mode
          state,   \* where each requester is
          attempt, \* the attempts its request has used up
          sleep,   \* what is left of its sleep in enter()
          lock,    \* who holds the pacer's lock, or Free
          serial,  \* who holds the lock of a live pacer, or Free
          gap,     \* until next_start
          cool,    \* until the cooldown is over
          spacing, \* 1 / rate
          owed,    \* history: what the last start, or response, still asks of the next start
          early    \* history: starts during the cooldown since the last failure

pacer   == <<backfill, lock, serial, gap, cool, spacing>>
history == <<owed, early>>
vars    == <<state, attempt, sleep, pacer, history>>

Larger(a, b)  == IF a < b THEN b ELSE a
Smaller(a, b) == IF a < b THEN a ELSE b
Less(t)       == IF t = 0 THEN 0 ELSE t - 1

\* A request that is to be tried first waits for its turn, in a live pacer.
Ready == IF backfill THEN "waiting" ELSE "turn"

Doublings == <<1, 2, 4, 8, 16>>

\* retry_delay: what the source asks for, or an exponential delay with up to a fifth of
\* jitter, cut off at the cap.
RetryDelays(n) ==
  LET nominal == Smaller(MaxBackoff, InitialBackoff * Doublings[n + 1])
  IN  RetryAfters \cup nominal .. Smaller(MaxBackoff, nominal + nominal \div 5)

Init ==
  /\ backfill \in BOOLEAN
  /\ state = [r \in Requesters |-> "idle"]
  /\ attempt = [r \in Requesters |-> 0]
  /\ sleep = [r \in Requesters |-> 0]
  /\ lock = Free /\ serial = Free
  /\ gap = 0 /\ cool = 0 /\ spacing = Fastest
  /\ owed = 0 /\ early = 0

Tick ==
  /\ sleep' = [r \in Requesters |-> Less(sleep[r])]
  /\ gap' = Less(gap) /\ cool' = Less(cool) /\ owed' = Less(owed)
  /\ UNCHANGED <<backfill, state, attempt, lock, serial, spacing, early>>

-----------------------------------------------------------------------------
(* Entering.                                                               *)

\* request() begins.
Begin(r) ==
  /\ state[r] = "idle"
  /\ state' = [state EXCEPT ![r] = Ready]
  /\ attempt' = [attempt EXCEPT ![r] = 0]
  /\ UNCHANGED <<sleep, pacer, history>>

\* A live pacer's serial lock is acquired.
TakeTurn(r) ==
  /\ state[r] = "turn" /\ serial = Free
  /\ serial' = r
  /\ state' = [state EXCEPT ![r] = "waiting"]
  /\ UNCHANGED <<backfill, attempt, sleep, lock, gap, cool, spacing, history>>

\* Mutant: the cooldown is not looked at.
DelayIgnoringCooldown == gap

\* What a request that has the lock must sleep.
Delay == Larger(gap, cool)

\* The request starts.
Started(r) ==
  /\ gap' = spacing
  /\ state' = [state EXCEPT ![r] = "sent"]
  /\ owed' = IF backfill THEN spacing ELSE 0
  /\ early' = IF cool > 0 THEN early + 1 ELSE early

\* Mutant: the delay is computed and slept without the lock.
EnterUnlocked(r) ==
  /\ state[r] = "waiting"
  /\ IF Delay = 0
       THEN Started(r) /\ UNCHANGED sleep
       ELSE /\ sleep' = [sleep EXCEPT ![r] = Delay]
            /\ state' = [state EXCEPT ![r] = "sleeping"]
            /\ UNCHANGED <<gap, history>>
  /\ UNCHANGED <<backfill, attempt, lock, serial, cool, spacing>>

\* The lock is acquired, and kept through the sleep if there is one.
Enter(r) ==
  /\ state[r] = "waiting" /\ lock = Free
  /\ IF Delay = 0
       THEN Started(r) /\ UNCHANGED <<sleep, lock>>
       ELSE /\ sleep' = [sleep EXCEPT ![r] = Delay]
            /\ lock' = r
            /\ state' = [state EXCEPT ![r] = "sleeping"]
            /\ UNCHANGED <<gap, history>>
  /\ UNCHANGED <<backfill, attempt, serial, cool, spacing>>

\* The sleep is over, possibly late.
Wake(r) ==
  /\ state[r] = "sleeping" /\ sleep[r] = 0
  /\ lock' = Free
  /\ Started(r)
  /\ UNCHANGED <<backfill, attempt, sleep, serial, cool, spacing>>

-----------------------------------------------------------------------------
(* Leaving.                                                                *)

\* leave(): a live pacer waits after each response, and lets the next request in.
Leave ==
  /\ serial' = Free
  /\ gap' = IF backfill THEN gap ELSE LiveGap
  /\ owed' = IF backfill THEN owed ELSE LiveGap

\* A good response, or a permanent error: request() ends.
Answer(r) ==
  /\ state[r] = "sent"
  /\ Leave
  /\ state' = [state EXCEPT ![r] = "idle"]
  /\ UNCHANGED <<backfill, attempt, sleep, lock, cool, spacing, early>>

\* Mutant: there is no slowest rate.
SlowDownForEver == IF backfill THEN 2 * spacing ELSE spacing

\* The spacing after a failure: the rate is halved, down to the slowest.
SlowDown == IF backfill THEN Smaller(2 * spacing, Slowest) ELSE spacing

\* Mutant: the last failure is a reason to try again too.
TransientFailureForEver(r) ==
  /\ state[r] = "sent"
  /\ \E d \in RetryDelays(attempt[r]) : cool' = Larger(cool, d)
  /\ spacing' = SlowDown
  /\ early' = 0
  /\ Leave
  /\ state' = [state EXCEPT ![r] = Ready]
  /\ attempt' = [attempt EXCEPT ![r] = IF @ + 1 < Attempts THEN @ + 1 ELSE @]
  /\ UNCHANGED <<backfill, sleep, lock>>

\* A transient failure: fail() and leave(), and the next attempt if one is left.
TransientFailure(r) ==
  /\ state[r] = "sent"
  /\ \E d \in RetryDelays(attempt[r]) : cool' = Larger(cool, d)
  /\ spacing' = SlowDown
  /\ early' = 0
  /\ Leave
  /\ IF attempt[r] + 1 < Attempts
       THEN /\ state' = [state EXCEPT ![r] = Ready]
            /\ attempt' = [attempt EXCEPT ![r] = @ + 1]
       ELSE /\ state' = [state EXCEPT ![r] = "idle"]
            /\ UNCHANGED attempt
  /\ UNCHANGED <<backfill, sleep, lock>>

\* A range task is cancelled wherever it is; it gives back the lock if it has it.
Cancel(r) ==
  /\ backfill /\ state[r] # "idle"
  /\ lock' = IF lock = r THEN Free ELSE lock
  /\ sleep' = [sleep EXCEPT ![r] = 0]
  /\ state' = [state EXCEPT ![r] = "idle"]
  /\ UNCHANGED <<backfill, attempt, serial, gap, cool, spacing, history>>

Step(r) == TakeTurn(r) \/ Enter(r) \/ Wake(r) \/ Answer(r) \/ TransientFailure(r)

Next == Tick \/ \E r \in Requesters : Begin(r) \/ Step(r) \/ Cancel(r)

\* Time passes, requests are answered or time out, and both locks are handed on in the
\* order they were asked for.
Fairness ==
  /\ WF_vars(Tick)
  /\ \A r \in Requesters :
       /\ SF_vars(TakeTurn(r)) /\ SF_vars(Enter(r))
       /\ WF_vars(Wake(r)) /\ WF_vars(Answer(r) \/ TransientFailure(r))

SafeSpec == Init /\ [][Next]_vars
Spec     == SafeSpec /\ Fairness

-----------------------------------------------------------------------------
(* Properties.                                                             *)

TypeOK ==
  /\ state \in [Requesters -> {"idle", "turn", "waiting", "sleeping", "sent"}]
  /\ attempt \in [Requesters -> 0 .. Attempts - 1]
  /\ sleep \in [Requesters -> Nat]
  /\ lock \in Requesters \cup {Free} /\ serial \in Requesters \cup {Free}
  /\ gap \in Nat /\ cool \in Nat
  /\ spacing \in Fastest .. Slowest
  /\ backfill \in BOOLEAN
  /\ owed \in Nat /\ early \in Nat

Starts(r) == state[r] # "sent" /\ state'[r] = "sent"

\* However many requesters there are and however they fail, sleep and are cancelled, two
\* starts of a backfill are apart by the spacing in force at the first, and in live polling
\* every start comes a full gap after the last response ("shared across all requests";
\* enter, leave).
Spaced == [][\A r \in Requesters : Starts(r) => owed = 0]_vars

\* Live mode allows one request at a time (enter, leave).
OneAtATime ==
  ~backfill => \A r, s \in Requesters : state[r] = "sent" /\ state[s] = "sent" => r = s

\* "A failure pauses every request until its retry delay has passed" (ingest.py:38-39), a
\* "global cooldown" in which dispatch is paused (implementation-plan.md:39 and :71): no
\* request starts before the cooldown is over.  The code keeps this in live polling only:
\* enter() computes its delay before it sleeps, and fail() does not reach a sleeper.
CooldownKept == early = 0

\* In live polling no request starts before the cooldown of the last failure is over, from
\* whichever requester the failure came: a live pacer lets nobody sleep in enter() while a
\* request that may still fail is out (enter, leave, fail).
LiveCooldownKept == ~backfill => CooldownKept

\* What is left of it in a backfill: between two failures at most one request starts in the
\* cooldown, the one that was asleep with the lock when the failure came (enter, fail).
OneEarlyAtMost == early <= 1

\* Every request comes to its end, whatever the others do: nobody keeps a lock, and no
\* failure is tried for ever (request).
RequestsEnd == \A r \in Requesters : state[r] # "idle" ~> state[r] = "idle"

=============================================================================
