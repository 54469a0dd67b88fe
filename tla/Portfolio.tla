------------------------------- MODULE Portfolio -------------------------------
(***************************************************************************)
(* GET /portfolio of app/api/routes/portfolio.py: the answer is cached for *)
(* 60 seconds under one key of Redis, and computed on a miss from          *)
(* get_account and get_positions of the broker layer, one after the other. *)
(*                                                                         *)
(* With the paper broker these read the counted rows of the trades table   *)
(* three times.  The table is known here by the number of its counted      *)
(* rows, and an answer by the number that each of its parts counted.       *)
(***************************************************************************)
EXTENDS Integers, Sequences

CONSTANTS
  Reader,         \* concurrent requests
  MaxRows,        \* bound on the counted rows
  PortfolioFaults \* the faults of the surroundings a run explores

ASSUME PortfolioAssumption ==
  /\ MaxRows \in Nat
  /\ PortfolioFaults \subseteq {"redis", "broker"}

VARIABLES
  rows,         \* counted rows of the trades table so far
  snapshot,     \* the portfolio:snapshot key: <<cash, value in equity, positions>>
  reader        \* reader[r]: how far a request has come, and what it read

portfolioVars == <<rows, snapshot, reader>>

NoSnapshot == <<>>
NotReading == [at |-> "idle", read |-> <<>>, missed |-> {}]

PortfolioTypeOK ==
  /\ rows \in 0..MaxRows
  /\ snapshot = NoSnapshot \/ snapshot \in [1..3 -> 0..MaxRows]
  /\ \A r \in Reader : /\ reader[r].at \in {"idle", "read"}
                       /\ Len(reader[r].read) <= 3
                       /\ reader[r].missed \subseteq Reader

PortfolioInit ==
  /\ rows = 0
  /\ snapshot = NoSnapshot
  /\ reader = [r \in Reader |-> NotReading]

\* An operator <definition>_<change> is a mutated form of the one after it.

\* A trade is filled and recorded.
Counted ==
  /\ rows < MaxRows
  /\ rows' = rows + 1
  /\ UNCHANGED <<snapshot, reader>>

\* get_cache misses, or Redis fails, which is a miss.  missed: the requests
\* that store an answer while this one is at the broker.
Miss(r) ==
  /\ reader[r].at = "idle"
  /\ snapshot = NoSnapshot \/ "redis" \in PortfolioFaults
  /\ reader' = [reader EXCEPT ![r] = [NotReading EXCEPT !.at = "read"]]
  /\ UNCHANGED <<rows, snapshot>>

\* get_account reads the rows for the cash and, through get_positions, for the
\* position value; then get_positions is called for the list.
ReadRows_Replica(r) ==
  /\ reader[r].at = "read" /\ Len(reader[r].read) < 3
  /\ \E n \in 0..rows : /\ \A k \in 1..Len(reader[r].read) : reader[r].read[k] <= n
                        /\ reader' = [reader EXCEPT ![r].read = Append(@, n)]
  /\ UNCHANGED <<rows, snapshot>>
ReadRows(r) ==
  /\ reader[r].at = "read" /\ Len(reader[r].read) < 3
  /\ reader' = [reader EXCEPT ![r].read = Append(@, rows)]
  /\ UNCHANGED <<rows, snapshot>>

\* BrokerAPIError: 502, and nothing is cached.
BrokerFails(r) ==
  /\ "broker" \in PortfolioFaults
  /\ reader[r].at = "read" /\ Len(reader[r].read) < 3
  /\ reader' = [reader EXCEPT ![r] = NotReading]
  /\ UNCHANGED <<rows, snapshot>>

\* set_cache, which swallows an error of Redis, and the answer.
SetSnapshot(r) ==
  /\ reader[r].at = "read" /\ Len(reader[r].read) = 3
  /\ snapshot' \in {reader[r].read} \cup (IF "redis" \in PortfolioFaults THEN {snapshot} ELSE {})
  /\ reader' = [s \in Reader |->
                  IF s = r THEN NotReading
                  ELSE IF reader[s].at = "read" THEN [reader[s] EXCEPT !.missed = @ \cup {r}]
                  ELSE reader[s]]
  /\ UNCHANGED rows

\* The key's _CACHE_TTL is over.
SnapshotExpires ==
  /\ snapshot # NoSnapshot
  /\ snapshot' = NoSnapshot
  /\ UNCHANGED <<rows, reader>>

PortfolioNext ==
  \/ Counted
  \/ \E r \in Reader : Miss(r) \/ ReadRows(r) \/ BrokerFails(r) \/ SetSnapshot(r)
  \/ SnapshotExpires

PortfolioSpec == PortfolioInit /\ [][PortfolioNext]_portfolioVars

-----------------------------------------------------------------------------
(***************************************************************************)
(* Properties.                                                             *)
(***************************************************************************)

\* The cash of an answer is never newer than the position value added to it in
\* its equity, nor that newer than the positions listed: a fill recorded in
\* between may show as shares that are not yet paid, never as money spent on
\* shares that are not there.
SnapshotReadsInOrder ==
  snapshot # NoSnapshot =>
    snapshot[1] <= snapshot[2] /\ snapshot[2] <= snapshot[3] /\ snapshot[3] <= rows

\* An answer is replaced by one of older rows only by a request which was still
\* reading when another one stored its own.
OnlyOverlapGoesBack ==
  [][\A r \in Reader :
       /\ snapshot # NoSnapshot /\ snapshot' # NoSnapshot /\ snapshot'[3] < snapshot[3]
       /\ reader[r].at = "read" /\ reader'[r].at = "idle"
       => reader[r].missed # {}]_portfolioVars

\* What the cached answer owes to the rows.
SnapshotsFollowRows == []SnapshotReadsInOrder /\ OnlyOverlapGoesBack
===============================================================================
