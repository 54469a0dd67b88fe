----------------------------- MODULE AngelSession -----------------------------
(***************************************************************************)
(* _get_session of app/tools/angel_client.py: the login at Angel One that  *)
(* the threads of a process share, renewed under a lock after 6 hours.     *)
(* Every call of the client starts with it, each in a thread of            *)
(* asyncio.to_thread.  The login itself is external.                       *)
(***************************************************************************)
EXTENDS Integers, Sequences

CONSTANTS
  Thread,         \* threads of the process
  SessionTTL,     \* _SESSION_TTL
  MaxClock,       \* bound on the clock
  SessionFaults   \* the faults of the surroundings a run explores

NoThread == "free"

ASSUME SessionAssumption ==
  /\ SessionTTL \in Nat \ {0}
  /\ MaxClock \in Nat
  /\ NoThread \notin Thread
  /\ SessionFaults \subseteq {"login"}

VARIABLES
  now,          \* time.monotonic()
  logins,       \* the stamps of the logins, the last that of _session_obj
  expires,      \* _session_expires
  lock,         \* the holder of _session_lock, or NoThread
  thread        \* thread[t]: how far a call has come

sessionVars == <<now, logins, expires, lock, thread>>

Time == 0..MaxClock
Idle == [at |-> "idle", stamp |-> 0, got |-> 0]

SessionTypeOK ==
  /\ now \in Time
  /\ logins \in Seq(Time)
  /\ expires \in 0..(MaxClock + SessionTTL)
  /\ lock \in Thread \cup {NoThread}
  /\ thread \in [Thread -> [at : {"idle", "lock", "login", "take", "work"},
                            stamp : Time, got : Time]]

SessionInit ==
  /\ now = 0
  /\ logins = <<>>
  /\ expires = 0
  /\ lock = NoThread
  /\ thread = [t \in Thread |-> Idle]

-----------------------------------------------------------------------------
\* An operator <definition>_<change> is a mutated form of the one after it.

\* The clock is read before the lock is asked for.
ReadClock(t) ==
  /\ thread[t].at = "idle"
  /\ thread' = [thread EXCEPT ![t] = [Idle EXCEPT !.at = "lock", !.stamp = now]]
  /\ UNCHANGED <<now, logins, expires, lock>>

Current(t) == logins # <<>> /\ thread[t].stamp < expires

\* With the lock, a session current at the time read is used ...
Reuse(t) ==
  /\ thread[t].at = "lock" /\ lock = NoThread
  /\ Current(t)
  /\ thread' = [thread EXCEPT ![t].at = "take"]
  /\ UNCHANGED <<now, logins, expires, lock>>

\* ... or the thread logs in, the lock in its hands.
Enter_Unlocked(t) ==
  /\ thread[t].at = "lock"
  /\ ~Current(t)
  /\ lock' = t
  /\ thread' = [thread EXCEPT ![t].at = "login"]
  /\ UNCHANGED <<now, logins, expires>>
Enter(t) ==
  /\ thread[t].at = "lock" /\ lock = NoThread
  /\ ~Current(t)
  /\ lock' = t
  /\ thread' = [thread EXCEPT ![t].at = "login"]
  /\ UNCHANGED <<now, logins, expires>>

\* _make_fresh_session: the session lasts from the time read.
Login(t) ==
  /\ thread[t].at = "login"
  /\ logins' = Append(logins, thread[t].stamp)
  /\ expires' = thread[t].stamp + SessionTTL
  /\ lock' = NoThread
  /\ thread' = [thread EXCEPT ![t].at = "take"]
  /\ UNCHANGED now

\* It raises: the lock is released, the old session stays.
LoginFails_KeepsLock(t) ==
  /\ "login" \in SessionFaults
  /\ thread[t].at = "login"
  /\ thread' = [thread EXCEPT ![t] = Idle]
  /\ UNCHANGED <<now, logins, expires, lock>>
LoginFails(t) ==
  /\ "login" \in SessionFaults
  /\ thread[t].at = "login"
  /\ lock' = NoThread
  /\ thread' = [thread EXCEPT ![t] = Idle]
  /\ UNCHANGED <<now, logins, expires>>

\* _session_obj is read once more, after the lock was released.
TakeSession(t) ==
  /\ thread[t].at = "take"
  /\ thread' = [thread EXCEPT ![t].at = "work", ![t].got = logins[Len(logins)]]
  /\ UNCHANGED <<now, logins, expires, lock>>

\* The call has its answer.
Done(t) ==
  /\ thread[t].at = "work"
  /\ thread' = [thread EXCEPT ![t] = Idle]
  /\ UNCHANGED <<now, logins, expires, lock>>

ClockTicks ==
  /\ now < MaxClock
  /\ now' = now + 1
  /\ UNCHANGED <<logins, expires, lock, thread>>

SessionStep(t) ==
  Reuse(t) \/ Enter(t) \/ Login(t) \/ LoginFails(t) \/ TakeSession(t) \/ Done(t)

SessionNext == ClockTicks \/ \E t \in Thread : ReadClock(t) \/ SessionStep(t)

SessionSpec == SessionInit /\ [][SessionNext]_sessionVars

\* A login answers or raises, and a thread that waits gets the lock in the end.
SessionFairness ==
  \A t \in Thread : /\ WF_sessionVars(SessionStep(t))
                    /\ SF_sessionVars(Reuse(t) \/ Enter(t))

-----------------------------------------------------------------------------
(***************************************************************************)
(* Properties.                                                             *)
(***************************************************************************)

\* However the threads interleave between the clock, the lock and the login,
\* two logins are a time to live apart: the broker is never asked for a second
\* session while the first is current.
LoginsAreApart ==
  \A i \in 2..Len(logins) : logins[i] - logins[i - 1] >= SessionTTL

\* The session a thread works with had not outlived its time when the thread
\* read the clock, although it reads it before, and the session after, it has
\* the lock.
HandedSessionIsCurrent ==
  \A t \in Thread : thread[t].at = "work" => thread[t].stamp < thread[t].got + SessionTTL

\* A call gets its session or its error: no thread waits for the lock for ever.
WaitersGetIn == \A t \in Thread : thread[t].at = "lock" ~> thread[t].at # "lock"

\* What the lock and the clock are for.
SessionsAreCurrent == LoginsAreApart /\ HandedSessionIsCurrent
=============================================================================
