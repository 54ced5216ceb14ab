--------------------------- MODULE ConnectionPool ---------------------------
(***************************************************************************)
(* The connection pool the routers share, cms/service/db.py, and its       *)
(* heaviest user, GET /control/recommendations, which asks for a second    *)
(* connection while it holds one (routers/control.py).                     *)
(*                                                                         *)
(* Requests run on threads.  A pool is named by the order it was made in;  *)
(* a connection by its pool and its place there.  closeall() closes the    *)
(* connections that are out as well; the server may go away for a while.   *)
(***************************************************************************)
EXTENDS Integers, Sequences, FiniteSets, SequencesExt

CONSTANTS PoolRequests, \* requests, one thread each
          Nested,      \* those of get_recommendations
          MaxConn,     \* maxconn of the pool: 25 in the code
          Attempts,    \* attempts of get_conn: 10
          ResetAt,     \* the attempt that replaces the pool: 5
          MaxOutages   \* bound on the server's absences

ASSUME PoolAssumption == Nested \subseteq PoolRequests /\ MaxConn \in Nat \ {0} /\ ResetAt \in 0..(Attempts - 1)

VARIABLES global,  \* _pool: 0 is None
          made,    \* pools made so far
          closed,  \* pools closed by closeall
          out,     \* _used of the pools: the connections handed out
          broken,  \* connections out whose server side is gone
          frames,  \* request -> its get_conn calls in progress, outermost first: p, attempt, conn
          at,      \* request -> where its innermost call stands
          up, outages
poolvars == <<global, made, closed, out, broken, frames, at, up, outages>>

PoolInit == /\ global = 0 /\ made = 0 /\ closed = {} /\ out = {} /\ broken = {}
            /\ frames = [r \in PoolRequests |-> <<>>]
            /\ at = [r \in PoolRequests |-> "start"]
            /\ up = TRUE /\ outages = 0

Move(r, where) == at' = [at EXCEPT ![r] = where]
NewFrame == [p |-> global, attempt |-> 0, conn |-> <<>>]
Inner(r) == Last(frames[r])
SetInner(r, f) == frames' = [frames EXCEPT ![r][Len(frames[r])] = f]

\* get_conn begins with _get_pool: a thread that reads None goes on to make a pool.
get_conn(r) ==
    /\ at[r] \in {"start", "nest"}
    /\ frames' = [frames EXCEPT ![r] = Append(@, NewFrame)]
    /\ Move(r, IF global = 0 THEN "make" ELSE "try")
    /\ UNCHANGED <<global, made, closed, out, broken, up, outages>>

\* _make_pool and the assignment of the global; min connections are opened, so the server must be up.
\* At the start of get_conn the exception leaves it, in a reset too.
make_pool(r) ==
    /\ at[r] = "make"
    /\ IF up THEN /\ made' = made + 1 /\ global' = made + 1
                  /\ SetInner(r, [Inner(r) EXCEPT !.p = made + 1]) /\ Move(r, "try")
             ELSE Move(r, "raise") /\ UNCHANGED <<made, global, frames>>
    /\ UNCHANGED <<closed, out, broken, up, outages>>

\* _reset_pool: closeall of the pool that is the global one now, whoever uses it.
reset_pool(r) ==
    /\ at[r] = "reset"
    /\ closed' = closed \cup {global}
    /\ Move(r, "make")
    /\ UNCHANGED <<global, made, out, broken, frames, up, outages>>

Free(p) == {<<p, k>> : k \in 1..MaxConn} \ out

\* Mutant: an exhausted pool is waited for.
AttemptAfter_waits(n) == n
AttemptAfter(n) == n + 1

\* One attempt: _get_valid_conn gives a live connection, drops dead ones on the way, or raises
\* because the pool is closed or exhausted or the server is away.
try_conn(r) ==
    LET f == Inner(r) IN
    /\ at[r] = "try"
    /\ \/ /\ f.p \notin closed /\ up
          /\ \E c \in Free(f.p) : /\ out' = out \cup {c}
                                  /\ SetInner(r, [f EXCEPT !.conn = c])
          /\ Move(r, "query")
       \/ /\ f.p \in closed \/ ~up \/ Free(f.p) = {}
          /\ SetInner(r, [f EXCEPT !.attempt = AttemptAfter(@)])
          /\ Move(r, IF AttemptAfter(f.attempt) = Attempts THEN "raise"
                     ELSE IF f.attempt = ResetAt THEN "reset" ELSE "try")
          /\ UNCHANGED out
    /\ UNCHANGED <<global, made, closed, broken, up, outages>>

\* get_recent_outcomes: the second connection is asked for once the request has its first.
AsksAgain(r) == r \in Nested /\ Len(frames[r]) = 1

\* A query of the request on its innermost connection.  get_recommendations then asks for the outcomes
\* of a category (get_recent_outcomes) with its own connection still out.
query(r) ==
    LET f == Inner(r) IN
    /\ at[r] = "query"
    /\ Move(r, IF f.conn \in broken \/ f.p \in closed THEN "raise"
               ELSE IF AsksAgain(r) THEN "nest" ELSE "done")
    /\ UNCHANGED <<global, made, closed, out, broken, frames, up, outages>>

\* Mutant: the connection goes back only when the request succeeded.
putconn_on_success(r) == out' = IF at[r] = "done" THEN out \ {Inner(r).conn} ELSE out
putconn(r) == out' = out \ {Inner(r).conn}

\* The end of the with block, normal or not: rollback, putconn, and the outer call goes on.  An
\* exception of get_recent_outcomes is caught there; one of the outer call by the endpoint, which
\* answers with what it has.
leave(r) ==
    /\ at[r] \in {"done", "raise"}
    /\ putconn(r)
    /\ broken' = broken \ {Inner(r).conn}
    /\ frames' = [frames EXCEPT ![r] = Front(@)]
    /\ Move(r, IF Len(frames[r]) > 1 THEN "done" ELSE IF at[r] = "done" THEN "answered" ELSE "partial")
    /\ UNCHANGED <<global, made, closed, up, outages>>

ServerDown == /\ up /\ outages < MaxOutages
              /\ up' = FALSE /\ outages' = outages + 1 /\ broken' = out
              /\ UNCHANGED <<global, made, closed, out, frames, at>>
ServerUp == ~up /\ up' = TRUE /\ UNCHANGED <<global, made, closed, out, broken, frames, at, outages>>

RequestStep(r) == get_conn(r) \/ make_pool(r) \/ reset_pool(r) \/ try_conn(r) \/ query(r) \/ leave(r)
PoolNext == ServerDown \/ ServerUp \/ \E r \in PoolRequests : RequestStep(r)
PoolFairness == \A r \in PoolRequests : WF_poolvars(RequestStep(r))
PoolSpec == PoolInit /\ [][PoolNext]_poolvars /\ PoolFairness

-----------------------------------------------------------------------------
Held(r) == {frames[r][i].conn : i \in 1..Len(frames[r])} \ {<<>>}

\* No connection is leaked or shared: what a pool counts as handed out is what the requests hold,
\* each by one request, through errors, replaced pools and outages (db.py:49-98).
NothingLeaks == /\ out = UNION {Held(r) : r \in PoolRequests}
                /\ \A r, s \in PoolRequests : r # s => Held(r) \cap Held(s) = {}

\* Requests that wait for a second connection while they hold the last one do not wait for ever:
\* every request is answered (db.py:70-81, control.py:403).
EveryRequestAnswered == <>(\A r \in PoolRequests : at[r] \in {"answered", "partial"})
=============================================================================
