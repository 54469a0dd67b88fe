----------------------------- MODULE RateLimiter -----------------------------
(***************************************************************************)
(* The fixed-window limiter of app/tools/cache.py, rate_limit_check, which *)
(* app/tools/rate_limiter.py puts in front of an external API: INCR on the *)
(* counter of the API and, when that created the key, EXPIRE in a second   *)
(* command.  One API; its callers are tasks and requests of any process.   *)
(***************************************************************************)
EXTENDS Integers, FiniteSets

CONSTANTS
  Caller,       \* concurrent callers, each making one call after another
  MaxCalls,     \* max_calls of the API
  MaxCount,     \* bound on the counter
  Faults        \* the faults of the surroundings a run explores

ASSUME LimiterAssumption ==
  /\ IsFiniteSet(Caller)
  /\ MaxCalls \in Nat \ {0}
  /\ MaxCount \in Nat /\ MaxCount > MaxCalls
  /\ Faults \subseteq {"redis", "crash"}

VARIABLES
  count,        \* the Redis key ratelimit:<api>, 0 when there is none
  expires,      \* the key has a time to live
  caller,       \* caller[c]: "idle", "first" between the two commands, and
                \* then how its check ended
  admitted,     \* history: calls the present key has admitted
  cut           \* history: the first caller of the present key was lost, or
                \* refused, between its two commands

vars == <<count, expires, caller, admitted, cut>>

Ending == {"allowed", "open", "denied", "dead"}

TypeOK ==
  /\ count \in 0..MaxCount
  /\ expires \in BOOLEAN
  /\ caller \in [Caller -> {"idle", "first"} \cup Ending]
  /\ admitted \in 0..MaxCount
  /\ cut \in BOOLEAN

Init ==
  /\ count = 0
  /\ expires = FALSE
  /\ caller = [c \in Caller |-> "idle"]
  /\ admitted = 0
  /\ cut = FALSE

\* An operator <definition>_<change> is a mutated form of the one after it.
Admits_OneMore(n) == n <= MaxCalls + 1
Admits(n) == n <= MaxCalls

\* INCR; only the caller that created the key goes on to EXPIRE it.
Incr_SentTwice(c) ==
  /\ caller[c] = "idle"
  /\ count < MaxCount
  /\ count' = count + 2
  /\ caller' = [caller EXCEPT ![c] = IF Admits(count + 2) THEN "allowed" ELSE "denied"]
  /\ admitted' = IF Admits(count + 2) THEN admitted + 1 ELSE admitted
  /\ UNCHANGED <<expires, cut>>
Incr(c) ==
  /\ caller[c] = "idle"
  /\ count < MaxCount
  /\ count' = count + 1
  /\ caller' = [caller EXCEPT ![c] = IF count = 0 THEN "first"
                                     ELSE IF Admits(count + 1) THEN "allowed"
                                     ELSE "denied"]
  /\ admitted' = IF count > 0 /\ Admits(count + 1) THEN admitted + 1 ELSE admitted
  /\ UNCHANGED <<expires, cut>>

\* Redis fails: the check lets the call pass.
IncrFails(c) ==
  /\ "redis" \in Faults
  /\ caller[c] = "idle"
  /\ caller' = [caller EXCEPT ![c] = "open"]
  /\ UNCHANGED <<count, expires, admitted, cut>>

Expire_Skipped(c) ==
  /\ caller[c] = "first"
  /\ caller' = [caller EXCEPT ![c] = "allowed"]
  /\ admitted' = admitted + 1
  /\ UNCHANGED <<count, expires, cut>>
Expire(c) ==
  /\ caller[c] = "first"
  /\ expires' = TRUE
  /\ caller' = [caller EXCEPT ![c] = "allowed"]
  /\ admitted' = admitted + 1
  /\ UNCHANGED <<count, cut>>

\* EXPIRE raises: the check lets the call pass and the key stays as it is.
ExpireFails(c) ==
  /\ "redis" \in Faults
  /\ caller[c] = "first"
  /\ caller' = [caller EXCEPT ![c] = "open"]
  /\ cut' = TRUE
  /\ UNCHANGED <<count, expires, admitted>>

\* The process dies between the two commands.
Crash(c) ==
  /\ "crash" \in Faults
  /\ caller[c] = "first"
  /\ caller' = [caller EXCEPT ![c] = "dead"]
  /\ cut' = TRUE
  /\ UNCHANGED <<count, expires, admitted>>

\* The caller, or a new process in its place, makes its next call.
Again(c) ==
  /\ caller[c] \in Ending
  /\ caller' = [caller EXCEPT ![c] = "idle"]
  /\ UNCHANGED <<count, expires, admitted, cut>>

\* The window is over: Redis drops the key.
Elapse ==
  /\ expires
  /\ count' = 0
  /\ expires' = FALSE
  /\ admitted' = 0
  /\ UNCHANGED <<caller, cut>>

Next ==
  \/ \E c \in Caller : \/ Incr(c) \/ IncrFails(c)
                       \/ Expire(c) \/ ExpireFails(c)
                       \/ Crash(c) \/ Again(c)
  \/ Elapse

Spec == Init /\ [][Next]_vars

\* A command sent to Redis is answered or raises, and a time to live runs out.
FairSpec ==
  /\ Spec
  /\ \A c \in Caller : WF_vars(Expire(c) \/ ExpireFails(c) \/ Crash(c))
  /\ WF_vars(Elapse)

-----------------------------------------------------------------------------
(***************************************************************************)
(* Properties.                                                             *)
(***************************************************************************)

\* Between two lives of the key no more than max_calls calls are admitted,
\* with any number of callers between the two commands; calls that pass
\* because Redis failed are not counted.
WindowKeepsLimit ==
  admitted + Cardinality({c \in Caller : caller[c] = "first"}) <= MaxCalls

\* Every window ends, although a key lives without a time to live until its
\* first caller has sent the second command, unless that caller died or was
\* refused in between: that alone leaves a counter which never expires.
WindowsEnd == count > 0 ~> (count = 0 \/ cut)
=============================================================================
