------------------------------ MODULE LiveOrders ------------------------------
(***************************************************************************)
(* The calls on orders of the two clients of a real broker which           *)
(* app/tools/broker.py may select, app/tools/angel_client.py and           *)
(* app/tools/upstox_client.py, for one ticker.  No code calls them yet:    *)
(* they are modelled as the interface they are, with any callers.          *)
(*                                                                         *)
(* Angel One needs a session (AngelSession.tla; here a request may fail)   *)
(* and a symbol token, looked up once, and repeats place_order on a server *)
(* error.  Upstox does neither.  The venue with its order book is          *)
(* external.  Prices are left out: an order is a signed quantity.          *)
(***************************************************************************)
EXTENDS Integers, Sequences, FiniteSetsExt

CONSTANTS
  Caller,       \* concurrent callers of the broker layer
  MaxCalls,     \* bound on the calls that send orders
  MaxSends,     \* stop_after_attempt of Angel's place_order (3 in the code)
  MaxVenue,     \* bound on the orders the venue accepts
  VenueFaults   \* the faults of the surroundings a run explores

ASSUME LiveAssumption ==
  /\ MaxCalls \in Nat /\ MaxVenue \in Nat
  /\ MaxSends \in Nat \ {0}
  /\ VenueFaults \subseteq {"request", "server", "lost"}

VARIABLES
  backend,      \* BROKER, which _mod() reads: "paper", "angel" or "upstox"
  known,        \* _symbol_cache has the ticker
  calls,        \* calls made so far
  call,         \* call[c]: the call of c in progress
  venue         \* the orders the venue accepted, oldest first

liveVars == <<backend, known, calls, call, venue>>

Free == [at |-> "free", op |-> "none", n |-> 0, sends |-> 0, qty |-> 0, read |-> 0,
         quiet |-> FALSE]

\* The net position at the venue.
Held == SumFunction([k \in 1..Len(venue) |->
                       IF venue[k].raw = "complete" THEN venue[k].qty ELSE 0])

\* The answer of get_order for an order, by _ANGEL_STATUS_MAP and by
\* _ORDER_STATUS_MAP, which agree on these: the words the callers poll for.
map_status == [open |-> "accepted", complete |-> "filled", rejected |-> "rejected",
               cancelled |-> "canceled"]

CallState ==
  [at : {"free", "holdings", "search", "send"}, op : {"none", "place", "close"},
   n : 0..MaxCalls, sends : 0..(MaxSends - 1), qty : Int, read : 0..MaxVenue, quiet : BOOLEAN]
VenueOrder ==
  [by : 1..MaxCalls, op : {"place", "close"}, qty : Int, raw : DOMAIN map_status,
   answered : BOOLEAN, read : 0..MaxVenue, quiet : BOOLEAN]

LiveTypeOK ==
  /\ backend \in {"paper", "angel", "upstox"}
  /\ known \in BOOLEAN
  /\ calls \in 0..MaxCalls
  /\ call \in [Caller -> CallState]
  /\ venue \in Seq(VenueOrder) /\ Len(venue) <= MaxVenue

LiveInit ==
  /\ backend \in {"paper", "angel", "upstox"}
  /\ known = FALSE
  /\ calls = 0
  /\ call = [c \in Caller |-> Free]
  /\ venue = <<>>

-----------------------------------------------------------------------------
\* An operator <definition>_<change> is a mutated form of the one after it.

CallGoes(c, new) == call' = [call EXCEPT ![c] = new]

\* The next stage of a call that is to send its order: Angel One's
\* _resolve_symbol asks for the token of the ticker unless the cache has it;
\* the instrument key of Upstox is made from the ticker.
OrderStage == IF backend = "angel" /\ ~known THEN "search" ELSE "send"

\* place_order, for one share bought or sold.
Place(c) ==
  /\ backend # "paper"
  /\ call[c].at = "free" /\ calls < MaxCalls
  /\ calls' = calls + 1
  /\ \E qty \in {1, -1} :
       CallGoes(c, [Free EXCEPT !.at = OrderStage, !.op = "place", !.n = calls + 1, !.qty = qty])
  /\ UNCHANGED <<backend, known, venue>>

Close(c) ==
  /\ backend # "paper"
  /\ call[c].at = "free" /\ calls < MaxCalls
  /\ calls' = calls + 1
  /\ CallGoes(c, [Free EXCEPT !.at = "holdings", !.op = "close", !.n = calls + 1])
  /\ UNCHANGED <<backend, known, venue>>

\* close_position reads the net position and orders its opposite.  Angel One
\* closes short positions as well.  quiet: no order was open at the reading.
Closable == IF backend = "angel" THEN Held # 0 ELSE Held > 0
Reads(c, qty) ==
  CallGoes(c, [call[c] EXCEPT !.at = OrderStage, !.qty = qty, !.read = Len(venue),
                          !.quiet = \A k \in 1..Len(venue) : venue[k].raw # "open"])
Holdings_AlwaysSells(c) ==
  /\ call[c].at = "holdings"
  /\ IF Closable THEN Reads(c, IF Held > 0 THEN -Held ELSE Held) ELSE CallGoes(c, Free)
  /\ UNCHANGED <<backend, known, calls, venue>>
Holdings(c) ==
  /\ call[c].at = "holdings"
  /\ IF Closable THEN Reads(c, -Held) ELSE CallGoes(c, Free)
  /\ UNCHANGED <<backend, known, calls, venue>>

Search(c) ==
  /\ call[c].at = "search"
  /\ known' = TRUE
  /\ CallGoes(c, [call[c] EXCEPT !.at = "send"])
  /\ UNCHANGED <<backend, calls, venue>>

\* The venue accepts the order, whether or not its answer arrives.
Accepts(c, answered) ==
  /\ Len(venue) < MaxVenue
  /\ venue' = Append(venue, [by |-> call[c].n, op |-> call[c].op, qty |-> call[c].qty,
                             raw |-> "open", answered |-> answered,
                             read |-> call[c].read, quiet |-> call[c].quiet])

Send(c) ==
  /\ call[c].at = "send"
  /\ Accepts(c, TRUE)
  /\ CallGoes(c, Free)
  /\ UNCHANGED <<backend, known, calls>>

\* BrokerServerError: Angel's place_order is run again, up to MaxSends times;
\* any other call raises.
Errs_OnceMore(c) ==
  CallGoes(c, IF backend = "angel" /\ call[c].op = "place" /\ call[c].sends <= MaxSends
          THEN [call[c] EXCEPT !.sends = @ + 1] ELSE Free)
Errs(c) ==
  CallGoes(c, IF backend = "angel" /\ call[c].op = "place" /\ call[c].sends + 1 < MaxSends
          THEN [call[c] EXCEPT !.sends = @ + 1] ELSE Free)

\* The server answers with an error, before or after it accepted the order.
SendErrs(c) ==
  /\ "server" \in VenueFaults
  /\ call[c].at = "send"
  /\ UNCHANGED venue \/ Accepts(c, FALSE)
  /\ Errs(c)
  /\ UNCHANGED <<backend, known, calls>>

\* The answer of an accepted order is lost: BrokerAPIError, not repeated.
SendLost(c) ==
  /\ "lost" \in VenueFaults
  /\ call[c].at = "send"
  /\ Accepts(c, FALSE)
  /\ CallGoes(c, Free)
  /\ UNCHANGED <<backend, known, calls>>

\* A login, a search, a reading or an order fails and the call raises.
RequestFails(c) ==
  /\ "request" \in VenueFaults
  /\ call[c].at # "free"
  /\ CallGoes(c, Free)
  /\ UNCHANGED <<backend, known, calls, venue>>

\* cancel_order, of anybody, takes an open order from the book.
Cancel(k) ==
  /\ venue[k].raw = "open"
  /\ venue' = [venue EXCEPT ![k].raw = "cancelled"]
  /\ UNCHANGED <<backend, known, calls, call>>

\* The venue fills or rejects an open order.
Settle(k) ==
  /\ venue[k].raw = "open"
  /\ \E s \in {"complete", "rejected"} : venue' = [venue EXCEPT ![k].raw = s]
  /\ UNCHANGED <<backend, known, calls, call>>

LiveNext ==
  \/ \E c \in Caller : \/ Place(c) \/ Close(c) \/ Holdings(c) \/ Search(c)
                       \/ Send(c) \/ SendErrs(c) \/ SendLost(c) \/ RequestFails(c)
  \/ \E k \in 1..Len(venue) : Cancel(k) \/ Settle(k)

LiveSpec == LiveInit /\ [][LiveNext]_liveVars

-----------------------------------------------------------------------------
(***************************************************************************)
(* Properties.                                                             *)
(***************************************************************************)

\* One call gives one order, except Angel's place_order, and that only when
\* the server answered with an error to an order it had accepted.
DuplicatesAreServerErrors ==
  \A k, l \in 1..Len(venue) :
    k < l /\ venue[k].by = venue[l].by =>
      backend = "angel" /\ venue[k].op = "place" /\ ~venue[k].answered

\* A close that has been the only order at work since it read the position
\* leaves no position when it is filled: only an order that was open when it
\* read, or came after, makes it open the opposite one.
LoneCloseIsFlat ==
  [][\A k \in 1..Len(venue) :
       /\ venue[k].op = "close" /\ venue[k].quiet /\ Len(venue) = venue[k].read + 1
       /\ venue[k].raw = "open" /\ venue'[k].raw = "complete"
       => Held' = 0]_liveVars

\* What a second order or an opposite position comes from.
OrdersHaveCauses == []DuplicatesAreServerErrors /\ LoneCloseIsFlat
===============================================================================
