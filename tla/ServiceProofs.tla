---------------------------- MODULE ServiceProofs ----------------------------
(***************************************************************************)
(* Proofs about the parts of the service that share state between threads, *)
(* awaits and statements: the connection pool of cms/service/db.py, the    *)
(* worker that follows the simulated clock (routers/simulator.py), the     *)
(* generation of reports (workflow/reports) and the review jobs.           *)
(***************************************************************************)
EXTENDS ConnectionPool, SimulatorMonitor, ReportGeneration, ReviewJobs,
        SequenceTheorems, NaturalsInduction, WellFoundedInduction, TLAPS

(***************************************************************************)
(* The connection pool.  NothingLeaks alone is not inductive: leave gives  *)
(* back the connection of the innermost call only, which leaves the others *)
(* counted only if no other call of the request holds the same one, and a  *)
(* call must not hold one already when try_conn hands it another.          *)
(***************************************************************************)
Handles == {<<>>} \cup (Nat \X Nat)
Frames == [p : Nat, attempt : Int, conn : Handles]
Waiting == {"make", "try", "reset"}
Within == Waiting \cup {"query", "done", "raise"}
Places == Within \cup {"start", "nest", "answered", "partial"}

HeldIn(s) == {s[i].conn : i \in 1..Len(s)} \ {<<>>}
Distinct(s) == \A i, j \in 1..Len(s) : i # j /\ s[i].conn # <<>> => s[i].conn # s[j].conn

CallShape(r) ==
    /\ at[r] \in Within => frames[r] # <<>>
    /\ at[r] \in Waiting => Inner(r).conn = <<>>
    /\ Distinct(frames[r])

PoolTypeOK == /\ global \in Nat /\ made \in Nat /\ out \subseteq Nat \X Nat
              /\ at \in [PoolRequests -> Places]
              /\ frames \in [PoolRequests -> Seq(Frames)]
PoolInv == PoolTypeOK /\ NothingLeaks /\ \A r \in PoolRequests : CallShape(r)

\* A pair is not the empty tuple that stands for no connection.
LEMMA PairIsSome == \A c \in Nat \X Nat : c # <<>>
  OBVIOUS

\* What a request holds is a matter of its calls only.
LEMMA HeldIs == \A r \in PoolRequests : Held(r) = HeldIn(frames[r])
  BY DEF Held, HeldIn

\* A call that has just begun holds nothing.
LEMMA HeldByAppend ==
  ASSUME NEW s \in Seq(Frames), NEW f \in Frames, f.conn = <<>>, Distinct(s)
  PROVE  /\ Append(s, f) \in Seq(Frames) /\ Append(s, f) # <<>>
         /\ HeldIn(Append(s, f)) = HeldIn(s)
         /\ Distinct(Append(s, f)) /\ Last(Append(s, f)) = f
<1> DEFINE t == Append(s, f)
<1>1. t \in Seq(Frames) /\ Len(t) = Len(s) + 1 /\ t # <<>> /\ Len(s) \in Nat
  BY AppendProperties
<1>2. t[Len(t)] = f /\ \A i \in 1..Len(s) : t[i] = s[i]
  OBVIOUS
<1>3. 1..Len(t) = (1..Len(s)) \cup {Len(t)}
  BY <1>1
<1> HIDE DEF t
<1>4. HeldIn(t) = HeldIn(s)
  BY <1>2, <1>3 DEF HeldIn
<1>5. Distinct(t)
  BY <1>2, <1>3 DEF Distinct
<1>6. Last(t) = f
  BY <1>2 DEF Last
<1> QED
  BY <1>1, <1>4, <1>5, <1>6 DEF t

\* The innermost call, which holds nothing, goes on as f: the request holds f's connection too.
LEMMA HeldBySet ==
  ASSUME NEW s \in Seq(Frames), s # <<>>, NEW f \in Frames, s[Len(s)].conn = <<>>, Distinct(s),
         f.conn \notin HeldIn(s)
  PROVE  /\ [s EXCEPT ![Len(s)] = f] \in Seq(Frames) /\ [s EXCEPT ![Len(s)] = f] # <<>>
         /\ HeldIn([s EXCEPT ![Len(s)] = f]) = HeldIn(s) \cup ({f.conn} \ {<<>>})
         /\ Distinct([s EXCEPT ![Len(s)] = f])
         /\ Last([s EXCEPT ![Len(s)] = f]) = f
<1> DEFINE t == [s EXCEPT ![Len(s)] = f]
<1>1. t \in Seq(Frames) /\ Len(t) = Len(s) /\ t # <<>> /\ Len(s) \in Nat \ {0}
  OBVIOUS
<1>2. t[Len(s)] = f /\ \A i \in 1..Len(s) : i # Len(s) => t[i] = s[i]
  OBVIOUS
<1> HIDE DEF t
<1>3. HeldIn(t) = HeldIn(s) \cup ({f.conn} \ {<<>>})
  BY <1>1, <1>2 DEF HeldIn
<1>4. \A i \in 1..Len(s) : s[i].conn # <<>> => s[i].conn # f.conn
  BY DEF HeldIn
<1>5. Distinct(t)
  BY <1>1, <1>2, <1>4 DEF Distinct
<1>6. Last(t) = f
  BY <1>1, <1>2 DEF Last
<1> QED
  BY <1>1, <1>3, <1>5, <1>6 DEF t

\* The end of the innermost call: the request holds what its other calls hold.
LEMMA HeldByFront ==
  ASSUME NEW s \in Seq(Frames), s # <<>>, Distinct(s)
  PROVE  /\ Front(s) \in Seq(Frames) /\ Len(Front(s)) = Len(s) - 1
         /\ HeldIn(Front(s)) = HeldIn(s) \ {Last(s).conn}
         /\ Distinct(Front(s))
<1> DEFINE t == Front(s)
<1>1. Len(s) \in Nat \ {0}
  OBVIOUS
<1>2. t = [i \in 1..(Len(s) - 1) |-> s[i]]
  BY <1>1 DEF Front
<1>3. t \in Seq(Frames) /\ Len(t) = Len(s) - 1
  BY <1>1, <1>2
<1>4. \A i \in 1..(Len(s) - 1) : t[i] = s[i]
  BY <1>2
<1> HIDE DEF t
<1>5. HeldIn(t) = HeldIn(s) \ {s[Len(s)].conn}
  BY <1>1, <1>3, <1>4 DEF HeldIn, Distinct
<1>6. Distinct(t)
  BY <1>1, <1>3, <1>4 DEF Distinct
<1> QED
  BY <1>3, <1>5, <1>6 DEF t, Last

\* One request's calls go from frames[r] to s: the invariant is kept if the pool counts what the
\* request came to hold, which nobody held, and no longer counts what it gave back.
LEMMA OneRequestMoves ==
  ASSUME PoolInv, NEW r \in PoolRequests, NEW s \in Seq(Frames), NEW where \in Places,
         frames' = [frames EXCEPT ![r] = s], Move(r, where), global' \in Nat, made' \in Nat,
         where \in Within => s # <<>>, where \in Waiting => Last(s).conn = <<>>, Distinct(s),
         (HeldIn(s) \ HeldIn(frames[r])) \cap out = {},
         out' = (out \ HeldIn(frames[r])) \cup HeldIn(s)
  PROVE  PoolInv'
<1> USE DEF PoolInv, PoolTypeOK
<1>1. /\ frames'[r] = s /\ at'[r] = where
      /\ \A q \in PoolRequests \ {r} : frames'[q] = frames[q] /\ at'[q] = at[q]
  BY DEF Move
<1>2. frames' \in [PoolRequests -> Seq(Frames)] /\ at' \in [PoolRequests -> Places]
  BY DEF Move
<1>3. HeldIn(s) \subseteq Nat \X Nat
  <2> SUFFICES ASSUME NEW i \in 1..Len(s), s[i].conn # <<>> PROVE s[i].conn \in Nat \X Nat
    BY DEF HeldIn
  <2>1. s[i] \in Frames
    BY ElementOfSeq
  <2> QED
    BY <2>1 DEF Frames, Handles
<1>4. \A q \in PoolRequests : CallShape(q)'
  BY <1>1 DEF CallShape, Inner
<1>5. \A q \in PoolRequests : Held(q) = HeldIn(frames[q]) /\ Held(q)' = HeldIn(frames'[q])
  BY DEF Held, HeldIn
<1>6. \A q \in PoolRequests \ {r} : HeldIn(frames[q]) \subseteq out /\ HeldIn(frames[q]) \cap HeldIn(frames[r]) = {}
  BY <1>5 DEF NothingLeaks
<1>7. out' = UNION {Held(q)' : q \in PoolRequests}
  <2>1. ASSUME NEW c \in out' PROVE \E q \in PoolRequests : c \in HeldIn(frames'[q])
    <3>1. CASE c \in HeldIn(s)
      BY <3>1, <1>1
    <3>2. CASE c \in out /\ c \notin HeldIn(frames[r])
      <4>1. PICK q \in PoolRequests : c \in HeldIn(frames[q])
        BY <3>2, <1>5 DEF NothingLeaks
      <4> QED
        BY <4>1, <3>2, <1>1
    <3> QED
      BY <3>1, <3>2
  <2>2. ASSUME NEW q \in PoolRequests, NEW c \in HeldIn(frames'[q]) PROVE c \in out'
    BY <1>1, <1>6
  <2> QED
    BY <2>1, <2>2, <1>5
<1>8. \A p, q \in PoolRequests : p # q => Held(p)' \cap Held(q)' = {}
  BY <1>1, <1>5, <1>6 DEF NothingLeaks
<1>9. out' \subseteq Nat \X Nat
  BY <1>3
<1> QED
  BY <1>2, <1>4, <1>7, <1>8, <1>9 DEF NothingLeaks

\* The connections a request may hold are among the ones its pool counts.
LEMMA HeldIsOut == ASSUME PoolInv, NEW r \in PoolRequests PROVE HeldIn(frames[r]) \subseteq out
  BY HeldIs DEF PoolInv, NothingLeaks

\* No request holds anything at first.
LEMMA PoolInitInv == PoolInit => PoolInv
<1> SUFFICES ASSUME PoolInit PROVE PoolInv
  OBVIOUS
<1>1. \A r \in PoolRequests : frames[r] = <<>> /\ at[r] = "start"
  BY DEF PoolInit
<1>2. Len(<<>>) = 0 /\ HeldIn(<<>>) = {} /\ Distinct(<<>>)
  BY DEF HeldIn, Distinct
<1>3. NothingLeaks
  BY <1>1, <1>2, HeldIs DEF NothingLeaks, PoolInit
<1>4. \A r \in PoolRequests : CallShape(r)
  BY <1>1, <1>2 DEF CallShape, Within, Waiting
<1>5. PoolTypeOK
  BY DEF PoolInit, PoolTypeOK, Places
<1> QED
  BY <1>3, <1>4, <1>5 DEF PoolInv

\* Every step of a request, and every outage, keeps the pool's invariant.
LEMMA PoolStep == ASSUME PoolInv, [PoolNext]_poolvars PROVE PoolInv'
<1> USE DEF PoolInv
<1> DEFINE F(r) == frames[r]
<1>0. ASSUME NEW r \in PoolRequests
      PROVE  F(r) \in Seq(Frames) /\ Distinct(F(r)) /\ HeldIn(F(r)) \subseteq out /\ at[r] \in Places
  BY HeldIsOut DEF PoolTypeOK, CallShape
<1>a. ASSUME NEW r \in PoolRequests, at[r] \in Within
      PROVE  /\ F(r) # <<>> /\ Len(F(r)) \in Nat \ {0} /\ Inner(r) = F(r)[Len(F(r))] /\ Inner(r) \in Frames
             /\ at[r] \in Waiting => Inner(r).conn = <<>>
  <2>1. F(r) # <<>> /\ (at[r] \in Waiting => Inner(r).conn = <<>>)
    BY <1>a DEF CallShape
  <2>2. Len(F(r)) \in Nat \ {0}
    BY <2>1, <1>0
  <2>3. Inner(r) = F(r)[Len(F(r))]
    BY DEF Inner, Last
  <2>4. F(r)[Len(F(r))] \in Frames
    BY <2>2, <1>0, ElementOfSeq
  <2> QED
    BY <2>1, <2>2, <2>3, <2>4
<1>b. <<>> \notin out
  BY PairIsSome DEF PoolTypeOK
<1>c. ASSUME NEW r \in PoolRequests, NEW f \in Frames, f.conn = <<>>, at[r] \in Waiting, SetInner(r, f),
             NEW where \in Within, Move(r, where), out' = out, global' \in Nat, made' \in Nat
      PROVE  PoolInv'
  <2> DEFINE s == [F(r) EXCEPT ![Len(F(r))] = f]
  <2>0. <<>> \notin HeldIn(F(r))
    BY DEF HeldIn
  <2>a. F(r) # <<>> /\ F(r)[Len(F(r))].conn = <<>> /\ f.conn \notin HeldIn(F(r))
    BY <1>a, <1>c, <2>0 DEF Within
  <2>b. /\ s \in Seq(Frames) /\ s # <<>> /\ Distinct(s) /\ Last(s) = f
        /\ HeldIn(s) = HeldIn(F(r)) \cup ({f.conn} \ {<<>>})
    BY <1>0, <2>a, HeldBySet
  <2>1. s \in Seq(Frames) /\ s # <<>> /\ HeldIn(s) = HeldIn(F(r)) /\ Distinct(s) /\ Last(s) = f
    BY <1>c, <2>b
  <2>2. frames' = [frames EXCEPT ![r] = s]
    BY <1>c DEF SetInner, PoolTypeOK
  <2> HIDE DEF s
  <2> QED
    BY <2>1, <2>2, <1>c, <1>0, OneRequestMoves DEF Places
<1>d. ASSUME NEW r \in PoolRequests, UNCHANGED <<global, made, out, frames>>, NEW where \in Places, Move(r, where),
             where \in Within => F(r) # <<>>, where \in Waiting => Inner(r).conn = <<>>
      PROVE  PoolInv'
  <2>1. frames' = [frames EXCEPT ![r] = F(r)]
    BY <1>d DEF PoolTypeOK
  <2>2. out' = (out \ HeldIn(F(r))) \cup HeldIn(F(r)) /\ (HeldIn(F(r)) \ HeldIn(F(r))) \cap out = {}
    BY <1>d, <1>0
  <2>3. where \in Waiting => Last(F(r)).conn = <<>>
    BY <1>d DEF Inner
  <2> QED
    BY <2>1, <2>2, <2>3, <1>d, <1>0, OneRequestMoves DEF PoolTypeOK
<1>1. ASSUME NEW r \in PoolRequests, get_conn(r) PROVE PoolInv'
  <2> DEFINE s == Append(F(r), NewFrame)
             where == IF global = 0 THEN "make" ELSE "try"
  <2>1. NewFrame \in Frames /\ NewFrame.conn = <<>>
    BY DEF NewFrame, Frames, Handles, PoolTypeOK
  <2>2. s \in Seq(Frames) /\ s # <<>> /\ HeldIn(s) = HeldIn(F(r)) /\ Distinct(s) /\ Last(s) = NewFrame
    BY <1>0, <2>1, HeldByAppend
  <2>3. frames' = [frames EXCEPT ![r] = s] /\ out' = out /\ global' = global /\ made' = made /\ Move(r, where)
    BY <1>1 DEF get_conn
  <2>4. where \in Places
    BY DEF Places, Within, Waiting
  <2>5. out' = (out \ HeldIn(F(r))) \cup HeldIn(s) /\ (HeldIn(s) \ HeldIn(F(r))) \cap out = {}
    BY <2>2, <2>3, <1>0
  <2> HIDE DEF s, where
  <2> QED
    BY <2>1, <2>2, <2>3, <2>4, <2>5, <1>0, OneRequestMoves DEF PoolTypeOK
<1>2. ASSUME NEW r \in PoolRequests, make_pool(r) PROVE PoolInv'
  <2>0. at[r] = "make" /\ at[r] \in Waiting /\ at[r] \in Within /\ out' = out
    BY <1>2 DEF make_pool, Waiting, Within
  <2>1. CASE up
    <3> DEFINE f == [Inner(r) EXCEPT !.p = made + 1]
    <3>1. f \in Frames /\ f.conn = <<>>
      BY <2>0, <1>a DEF Frames, PoolTypeOK
    <3>2. SetInner(r, f) /\ Move(r, "try") /\ global' \in Nat /\ made' \in Nat
      BY <1>2, <2>1 DEF make_pool, PoolTypeOK
    <3>3. "try" \in Within
      BY DEF Waiting, Within
    <3> HIDE DEF f
    <3> QED
      BY <2>0, <3>1, <3>2, <3>3, <1>c
  <2>2. CASE ~up
    <3>1. Move(r, "raise") /\ UNCHANGED <<global, made, out, frames>>
      BY <1>2, <2>2 DEF make_pool
    <3>2. "raise" \in Places /\ "raise" \notin Waiting
      BY DEF Places, Within, Waiting
    <3> QED
      BY <2>0, <3>1, <3>2, <1>a, <1>d
  <2> QED
    BY <2>1, <2>2
<1>3. ASSUME NEW r \in PoolRequests, reset_pool(r) PROVE PoolInv'
  <2>1. at[r] \in Waiting /\ at[r] \in Within /\ Move(r, "make") /\ UNCHANGED <<global, made, out, frames>>
    BY <1>3 DEF reset_pool, Waiting, Within
  <2>2. "make" \in Places
    BY DEF Places, Within, Waiting
  <2> QED
    BY <2>1, <2>2, <1>a, <1>d
<1>4. ASSUME NEW r \in PoolRequests, try_conn(r) PROVE PoolInv'
  <2> DEFINE f == Inner(r)
  <2>0. at[r] = "try" /\ at[r] \in Waiting /\ at[r] \in Within /\ global' = global /\ made' = made
    BY <1>4 DEF try_conn, Waiting, Within
  <2>1. f \in Frames /\ f.conn = <<>> /\ f = F(r)[Len(F(r))] /\ F(r) # <<>>
    BY <2>0, <1>a
  <2>2. ASSUME NEW c \in Free(f.p), out' = out \cup {c}, SetInner(r, [f EXCEPT !.conn = c]), Move(r, "query")
        PROVE  PoolInv'
    <3> DEFINE g == [f EXCEPT !.conn = c]
               s == [F(r) EXCEPT ![Len(F(r))] = g]
    <3>1. c \in Nat \X Nat /\ c \notin out
      BY <2>1, PoolAssumption DEF Free, Frames
    <3>2. g \in Frames /\ g.conn = c /\ c # <<>>
      BY <2>1, <3>1, PairIsSome DEF Frames, Handles
    <3>3. frames' = [frames EXCEPT ![r] = s]
      BY <2>2 DEF SetInner, PoolTypeOK
    <3> HIDE DEF g
    <3>4. s \in Seq(Frames) /\ s # <<>> /\ HeldIn(s) = HeldIn(F(r)) \cup {c} /\ Distinct(s)
      BY <1>0, <2>1, <3>1, <3>2, HeldBySet
    <3>5. "query" \in Places /\ "query" \notin Waiting
      BY DEF Places, Within, Waiting
    <3>6. out' = (out \ HeldIn(F(r))) \cup HeldIn(s) /\ (HeldIn(s) \ HeldIn(F(r))) \cap out = {}
      BY <2>2, <3>1, <3>4, <1>0
    <3> HIDE DEF s
    <3> QED
      BY <2>0, <2>2, <3>3, <3>4, <3>5, <3>6, OneRequestMoves DEF PoolTypeOK
  <2>3. ASSUME SetInner(r, [f EXCEPT !.attempt = AttemptAfter(@)]), out' = out,
               Move(r, IF AttemptAfter(f.attempt) = Attempts THEN "raise"
                       ELSE IF f.attempt = ResetAt THEN "reset" ELSE "try")
        PROVE  PoolInv'
    <3> DEFINE g == [f EXCEPT !.attempt = AttemptAfter(@)]
               where == IF AttemptAfter(f.attempt) = Attempts THEN "raise"
                        ELSE IF f.attempt = ResetAt THEN "reset" ELSE "try"
    <3>1. g \in Frames /\ g.conn = <<>>
      BY <2>1 DEF Frames, AttemptAfter
    <3>2. where \in Within
      BY DEF Within, Waiting
    <3> HIDE DEF g, where
    <3>3. SetInner(r, g) /\ Move(r, where)
      BY <2>3 DEF g, where
    <3> QED
      BY <2>0, <2>3, <3>1, <3>2, <3>3, <1>c DEF PoolTypeOK
  <2> QED
    BY <1>4, <2>2, <2>3 DEF try_conn
<1>5. ASSUME NEW r \in PoolRequests, query(r) PROVE PoolInv'
  <2> DEFINE where == IF Inner(r).conn \in broken \/ Inner(r).p \in closed THEN "raise"
                      ELSE IF AsksAgain(r) THEN "nest" ELSE "done"
  <2>1. at[r] \in Within /\ Move(r, where) /\ UNCHANGED <<global, made, out, frames>>
    BY <1>5 DEF query, Waiting, Within
  <2>2. where \in Places /\ where \notin Waiting
    BY DEF Places, Within, Waiting
  <2> HIDE DEF where
  <2> QED
    BY <2>1, <2>2, <1>a, <1>d
<1>6. ASSUME NEW r \in PoolRequests, leave(r) PROVE PoolInv'
  <2> DEFINE s == Front(F(r))
             where == IF Len(frames[r]) > 1 THEN "done" ELSE IF at[r] = "done" THEN "answered" ELSE "partial"
  <2>1. at[r] \in Within /\ frames' = [frames EXCEPT ![r] = s] /\ Move(r, where) /\ global' = global /\ made' = made
        /\ out' = out \ {Inner(r).conn}
    BY <1>6 DEF leave, putconn, Within
  <2>2. /\ s \in Seq(Frames) /\ Len(s) = Len(F(r)) - 1 /\ Distinct(s)
        /\ HeldIn(s) = HeldIn(F(r)) \ {Inner(r).conn}
    BY <1>0, <1>a, <2>1, HeldByFront DEF Inner
  <2>3. Inner(r).conn \in HeldIn(F(r)) \/ Inner(r).conn = <<>>
    BY <1>a, <2>1 DEF HeldIn
  <2>4. out' = (out \ HeldIn(F(r))) \cup HeldIn(s) /\ (HeldIn(s) \ HeldIn(F(r))) \cap out = {}
    BY <2>1, <2>2, <2>3, <1>0, <1>b
  <2>5. where \in Places /\ where \notin Waiting
    BY DEF Places, Within, Waiting
  <2>6. where \in Within => s # <<>>
    BY <2>2 DEF Within, Waiting
  <2> HIDE DEF s, where
  <2> QED
    BY <2>1, <2>2, <2>4, <2>5, <2>6, OneRequestMoves DEF PoolTypeOK
<1>7. CASE UNCHANGED <<global, made, out, frames, at>>
  <2>0. \A r \in PoolRequests : Held(r)' = Held(r)
    BY <1>7 DEF Held
  <2>1. PoolTypeOK' /\ NothingLeaks'
    BY <1>7, <2>0 DEF PoolTypeOK, NothingLeaks
  <2>2. \A r \in PoolRequests : CallShape(r)'
    BY <1>7 DEF CallShape, Inner
  <2> QED
    BY <2>1, <2>2
<1> QED
  BY <1>1, <1>2, <1>3, <1>4, <1>5, <1>6, <1>7
     DEF PoolNext, RequestStep, ServerDown, ServerUp, poolvars

\* However many requests, pools and outages: what the pools count as handed out is what the requests
\* hold, each connection by one request (db.py:49-98).
THEOREM ConnectionsAreReturned == PoolSpec => []NothingLeaks
<1>1. PoolInv /\ [PoolNext]_poolvars => PoolInv'
  BY PoolStep
<1>2. PoolInv => NothingLeaks
  BY DEF PoolInv
<1> QED
  BY PoolInitInv, <1>1, <1>2, PTL DEF PoolSpec

-----------------------------------------------------------------------------
(***************************************************************************)
(* Days, weeks and months are quotients of times.                          *)
(***************************************************************************)

\* A quotient times its divisor is below the dividend, by less than the divisor.
LEMMA QuotientOf ==
  \A t \in Nat, D \in Nat \ {0} : t \div D \in Nat /\ (t \div D) * D <= t /\ t < (t \div D + 1) * D
  OBVIOUS

\* The remainder is what the quotient leaves.
LEMMA RestOf == \A t \in Nat, D \in Nat \ {0} : t % D = t - (t \div D) * D
  OBVIOUS

\* Products with a number keep the order.
LEMMA ProductsInOrder ==
  \A D \in Nat, a, b \in Nat : a <= b => a * D \in Nat /\ b * D \in Nat /\ a * D <= b * D
  OBVIOUS

\* A number between d and d + 1 times the divisor has the quotient d.
LEMMA QuotientIs ==
  ASSUME NEW D \in Nat \ {0}, NEW t \in Nat, NEW d \in Nat, d * D <= t, t < (d + 1) * D
  PROVE  t \div D = d
<1> DEFINE q == t \div D
<1>1. q \in Nat /\ q * D <= t /\ t < (q + 1) * D
  BY QuotientOf
<1> HIDE DEF q
<1>2. CASE q < d
  <2>1. q + 1 <= d /\ q + 1 \in Nat
    BY <1>1, <1>2
  <2>2. (q + 1) * D \in Nat /\ d * D \in Nat /\ (q + 1) * D <= d * D
    BY <2>1, ProductsInOrder
  <2> QED
    BY <2>2, <1>1
<1>3. CASE d < q
  <2>1. d + 1 <= q /\ d + 1 \in Nat
    BY <1>1, <1>3
  <2>2. (d + 1) * D \in Nat /\ q * D \in Nat /\ (d + 1) * D <= q * D
    BY <1>1, <2>1, ProductsInOrder
  <2> QED
    BY <2>2, <1>1
<1> QED
  BY <1>1, <1>2, <1>3 DEF q

\* Quotients keep the order.
LEMMA QuotientGrows == ASSUME NEW D \in Nat \ {0}, NEW t \in Nat, NEW u \in Nat, t <= u PROVE t \div D <= u \div D
<1> DEFINE a == t \div D
           b == u \div D
<1>1. a \in Nat /\ a * D <= t /\ b \in Nat /\ u < (b + 1) * D
  BY QuotientOf
<1> HIDE DEF a, b
<1>2. CASE b < a
  <2>1. b + 1 <= a /\ b + 1 \in Nat
    BY <1>1, <1>2
  <2>2. (b + 1) * D \in Nat /\ a * D \in Nat /\ (b + 1) * D <= a * D
    BY <1>1, <2>1, ProductsInOrder
  <2> QED
    BY <2>2, <1>1
<1> QED
  BY <1>1, <1>2 DEF a, b

-----------------------------------------------------------------------------
(***************************************************************************)
(* The simulator's monitor.  What matters of days is that a window is no   *)
(* longer than one, begins at the mark and so takes in one midnight at     *)
(* most.                                                                   *)
(***************************************************************************)

\* The day of an hour is the one whose hours it lies between.
LEMMA DayOf == \A t \in Nat : SimDay(t) \in Nat /\ SimDay(t) * Day <= t /\ t < (SimDay(t) + 1) * Day
  BY MonitorTimeAssumption, QuotientOf DEF SimDay

\* Products with the length of a day keep the order.
LEMMA DaysInOrder == \A a, b \in Nat : a <= b => a * Day \in Nat /\ b * Day \in Nat /\ a * Day <= b * Day
  BY MonitorTimeAssumption, ProductsInOrder

\* An hour between d and d + 1 days is of day d.
LEMMA DayIs ==
  ASSUME NEW t \in Nat, NEW d \in Nat, d * Day <= t, t < (d + 1) * Day
  PROVE  SimDay(t) = d
  BY MonitorTimeAssumption, QuotientIs DEF SimDay

\* Later hours are of later days.
LEMMA DayGrows == ASSUME NEW t \in Nat, NEW u \in Nat, t <= u PROVE SimDay(t) <= SimDay(u)
  BY MonitorTimeAssumption, QuotientGrows DEF SimDay

\* A window that ends on another day than it began on ends a day or more after the clock's start,
\* so the day of its report exists.
LEMMA TargetExists ==
  ASSUME NEW s \in Nat, NEW e \in Nat, s < e, e <= MaxTime, SimDay(s) # SimDay(e)
  PROVE  e - Day \in Nat /\ TargetDay(e) \in SimDays
<1>0. Day \in Nat \ {0} /\ MaxTime \in Nat
  BY MonitorTimeAssumption
<1>1. CASE e < Day
  <2>1. 0 * Day <= s /\ s < (0 + 1) * Day /\ 0 * Day <= e /\ e < (0 + 1) * Day
    BY <1>0, <1>1
  <2>2. SimDay(s) = 0 /\ SimDay(e) = 0
    BY <2>1, DayIs
  <2> QED
    BY <2>2
<1>2. CASE Day <= e
  <2>1. e - Day \in Nat /\ e - Day <= MaxTime
    BY <1>0, <1>2
  <2>2. SimDay(e - Day) \in Nat /\ SimDay(MaxTime) \in Nat /\ SimDay(e - Day) <= SimDay(MaxTime)
    BY <1>0, <2>1, DayOf, DayGrows
  <2> QED
    BY <2>1, <2>2 DEF SimDays, TargetDay
<1> QED
  BY <1>0, <1>1, <1>2

\* A window of at most a day that takes in the end of day d takes in no other midnight, and day d
\* is the one it reports.
LEMMA OneMidnight ==
  ASSUME NEW s \in Nat, NEW e \in Nat, e <= s + Day, NEW d \in Nat, s < (d + 1) * Day, (d + 1) * Day <= e
  PROVE  SimDay(s) # SimDay(e) /\ TargetDay(e) = d
<1>0. Day \in Nat \ {0} /\ d * Day \in Nat /\ (d + 1) * Day = d * Day + Day
  BY MonitorTimeAssumption
<1>1. e - Day \in Nat /\ d * Day <= e - Day /\ e - Day < (d + 1) * Day
  BY <1>0
<1>2. TargetDay(e) = d
  BY <1>1, DayIs DEF TargetDay
<1> DEFINE a == SimDay(s)
           b == SimDay(e)
<1>3. a \in Nat /\ a * Day <= s /\ b \in Nat /\ e < (b + 1) * Day
  BY DayOf
<1> HIDE DEF a, b
<1>4. a # b
  <2> SUFFICES ASSUME a = b PROVE FALSE
    OBVIOUS
  <2>1. CASE a <= d
    <3>1. (a + 1) * Day <= (d + 1) * Day /\ (a + 1) * Day \in Nat /\ (d + 1) * Day \in Nat
      BY <1>3, <2>1, DaysInOrder
    <3> QED
      BY <3>1, <1>3
  <2>2. CASE d + 1 <= a
    <3>1. (d + 1) * Day <= a * Day /\ a * Day \in Nat /\ (d + 1) * Day \in Nat
      BY <1>3, <2>2, DaysInOrder
    <3> QED
      BY <3>1, <1>3
  <2> QED
    BY <1>3, <2>1, <2>2
<1> QED
  BY <1>2, <1>4 DEF a, b

-----------------------------------------------------------------------------
\* The report rows and failed reports that were there still are.
ReportsKept == /\ \A d \in SimDays : report[d] # {} => report'[d] # {}
               /\ noReport \subseteq noReport'

\* A step that leaves the mark and the scans alone keeps what is said of them.
LEMMA MarkStays ==
  ASSUME MonitorInv, UNCHANGED <<lastChecked, alerts, lost, seeks, raced>>, ReportsKept,
         now' \in 0..MaxTime, now <= now'
  PROVE  ScansTile' /\ LostIsBehind' /\ NeverAheadOfClock' /\ PassedDaysReported'
<1>1. lastChecked \in Nat /\ now \in Nat /\ now' \in Nat
  BY MonitorTimeAssumption DEF MonitorInv, MonitorTypeOK
<1>2. ScansTile' /\ LostIsBehind'
  BY DEF MonitorInv, ScansTile, LostIsBehind
<1>3. NeverAheadOfClock'
  BY <1>1 DEF MonitorInv, NeverAheadOfClock
<1>4. PassedDaysReported'
  BY DEF MonitorInv, PassedDaysReported, ReportsKept
<1> QED
  BY <1>2, <1>3, <1>4

\* A step that leaves the check alone as well keeps what is said of it.
LEMMA CheckStays ==
  ASSUME MonitorInv, UNCHANGED <<check, lastChecked, seeks, raced>>, ReportsKept, now' \in 0..MaxTime, now <= now'
  PROVE  CheckSound'
<1>1. now \in Nat /\ now' \in Nat /\ check.start \in Nat /\ check.end \in Nat
  BY MonitorTimeAssumption DEF MonitorInv, MonitorTypeOK, Checks
<1>2. CASE check.pc = "idle"
  BY <1>2 DEF MonitorInv, CheckSound
<1>3. CASE check.pc # "idle"
  <2>1. /\ check.start < check.end /\ check.end <= check.start + Day /\ check.end <= MaxTime
        /\ check.end <= now \/ raced
        /\ seeks = 0 => check.start = lastChecked
        /\ check.pc = "report" => SimDay(check.start) # SimDay(check.end)
        /\ seeks = 0 /\ check.pc # "report" /\ SimDay(check.start) # SimDay(check.end) =>
               report[TargetDay(check.end)] # {} \/ TargetDay(check.end) \in noReport
    BY <1>3 DEF MonitorInv, CheckSound
  <2>2. SimDay(check.start) # SimDay(check.end) => TargetDay(check.end) \in SimDays
    BY <1>1, <2>1, TargetExists
  <2>3. check.end <= now' \/ raced
    BY <1>1, <2>1
  <2>4. seeks = 0 /\ check.pc # "report" /\ SimDay(check.start) # SimDay(check.end) =>
               report'[TargetDay(check.end)] # {} \/ TargetDay(check.end) \in noReport'
    BY <2>1, <2>2 DEF ReportsKept
  <2>5. SimDay(check.start)' = SimDay(check.start) /\ SimDay(check.end)' = SimDay(check.end)
        /\ TargetDay(check.end)' = TargetDay(check.end)
    BY DEF SimDay, TargetDay
  <2> QED
    BY <1>3, <2>1, <2>3, <2>4, <2>5 DEF CheckSound
<1> QED
  BY <1>2, <1>3

\* The monitor's invariant holds before the first check.
LEMMA MonitorInitInv == MonitorInit => MonitorInv
<1> SUFFICES ASSUME MonitorInit PROVE MonitorInv
  OBVIOUS
<1>0. Day \in Nat \ {0} /\ MaxTime \in Nat /\ MaxSeeks \in Nat
  BY MonitorTimeAssumption, MonitorBoundAssumption
<1>1. Resting \in Checks /\ NoRow \in ActionRows /\ Resting.pc = "idle"
  BY <1>0 DEF Resting, Checks, NoRow, ActionRows
<1>2. MonitorTypeOK
  <2>1. now \in 0..MaxTime /\ lastChecked \in Nat /\ seeks \in 0..MaxSeeks /\ check \in Checks
    BY <1>0, <1>1 DEF MonitorInit
  <2>2. running \in BOOLEAN /\ raced \in BOOLEAN
    BY DEF MonitorInit
  <2>3. report \in [SimDays -> SUBSET {"kpi", "doc"}] /\ action \in [Recs -> ActionRows]
    BY <1>1 DEF MonitorInit
  <2>4. alerts \in [Hours -> 0..2] /\ lost \subseteq Hours /\ noReport \subseteq SimDays
    BY DEF MonitorInit
  <2> QED
    BY <2>1, <2>2, <2>3, <2>4 DEF MonitorTypeOK
<1>3. CheckSound
  BY <1>1 DEF MonitorInit, CheckSound
<1>4. ScansTile /\ LostIsBehind /\ NeverAheadOfClock
  BY DEF MonitorInit, ScansTile, LostIsBehind, NeverAheadOfClock, Hours
<1>5. PassedDaysReported
  <2> SUFFICES ASSUME NEW d \in SimDays PROVE ~((d + 1) * Day <= 0)
    BY DEF MonitorInit, PassedDaysReported
  <2>1. d \in Nat
    BY <1>0, DayOf DEF SimDays
  <2> QED
    BY <1>0, <2>1
<1> QED
  BY <1>2, <1>3, <1>4, <1>5 DEF MonitorInv

\* Every step of the clock, the worker and the endpoints keeps the monitor's invariant.
LEMMA MonitorStep == ASSUME MonitorInv, [MonitorNext]_mvars PROVE MonitorInv'
<1>0. Day \in Nat \ {0} /\ MaxTime \in Nat /\ Speeds \subseteq Nat \ {0} /\ MaxSeeks \in Nat
  BY MonitorTimeAssumption, MonitorBoundAssumption
<1>a. /\ now \in 0..MaxTime /\ now \in Nat /\ lastChecked \in Nat /\ running \in BOOLEAN /\ check \in Checks
      /\ report \in [SimDays -> SUBSET {"kpi", "doc"}] /\ action \in [Recs -> ActionRows]
      /\ alerts \in [Hours -> 0..2] /\ lost \subseteq Hours /\ noReport \subseteq SimDays
      /\ seeks \in 0..MaxSeeks /\ seeks \in Nat /\ raced \in BOOLEAN
  BY <1>0 DEF MonitorInv, MonitorTypeOK
<1>b. check.start \in Nat /\ check.end \in Nat /\ check.picked \subseteq Recs \X Judgements
  BY <1>a DEF Checks
<1>c. ASSUME UNCHANGED <<report, noReport>> PROVE ReportsKept
  BY <1>c DEF ReportsKept
<1>d. Resting \in Checks /\ Resting.pc = "idle"
  BY DEF Resting, Checks
<1>e. check.pc # "idle" =>
        /\ check.start < check.end /\ check.end <= check.start + Day /\ check.end <= MaxTime
        /\ check.end <= now \/ raced
        /\ seeks = 0 => check.start = lastChecked
        /\ check.pc = "report" => SimDay(check.start) # SimDay(check.end)
        /\ seeks = 0 /\ check.pc # "report" /\ SimDay(check.start) # SimDay(check.end) =>
               report[TargetDay(check.end)] # {} \/ TargetDay(check.end) \in noReport
  BY DEF MonitorInv, CheckSound
\* The clock's own moves, and the two tables'.
<1>1. CASE TimePasses \/ start \/ pause
  <2>1. now' \in 0..MaxTime /\ now <= now'
    <3>1. CASE TimePasses
      <4>1. PICK v \in Speeds : now' = Earlier(now + v, MaxTime)
        BY <3>1 DEF TimePasses
      <4> QED
        BY <4>1, <1>0, <1>a DEF Earlier
    <3> QED
      BY <3>1, <1>1, <1>a DEF start, pause
  <2>2. running' \in BOOLEAN
    BY <1>1, <1>a DEF TimePasses, start, pause
  <2>3. UNCHANGED <<lastChecked, check, report, action, alerts, lost, noReport, seeks, raced>>
    BY <1>1 DEF TimePasses, start, pause, history
  <2>4. MonitorTypeOK'
    BY <2>1, <2>2, <2>3, <1>a DEF MonitorTypeOK
  <2> QED
    BY <2>1, <2>3, <2>4, <1>c, MarkStays, CheckStays DEF MonitorInv
<1>2. ASSUME NEW t \in 0..MaxTime, Jump(t), running' \in BOOLEAN PROVE MonitorInv'
  <2>1. /\ now' = t /\ lastChecked' = t /\ seeks' = seeks + 1 /\ seeks < MaxSeeks
        /\ alerts' = [h \in Hours |-> 0] /\ lost' = {} /\ noReport' = {} /\ UNCHANGED <<check, report, action>>
    BY <1>2 DEF Jump
  <2>2. raced' \in BOOLEAN /\ (check # Resting => raced')
    BY <1>2, <1>a DEF Jump
  <2>3. seeks' \in 0..MaxSeeks /\ seeks' # 0
    BY <2>1, <1>a, <1>0
  <2>4. now' \in 0..MaxTime /\ lastChecked' \in Nat /\ lost' \subseteq Hours /\ noReport' \subseteq SimDays
    BY <2>1, <1>0
  <2>5. alerts' \in [Hours -> 0..2]
    BY <2>1
  <2>6. MonitorTypeOK'
    BY <2>1, <2>2, <2>3, <2>4, <2>5, <1>2, <1>a DEF MonitorTypeOK
  <2>7. CheckSound'
    <3>1. CASE check.pc = "idle"
      BY <3>1, <2>1 DEF MonitorInv, CheckSound, Resting
    <3>2. CASE check.pc # "idle"
      <4>1. raced'
        BY <3>2, <2>2, <1>d
      <4>2. SimDay(check.start)' = SimDay(check.start) /\ SimDay(check.end)' = SimDay(check.end)
        BY <2>1 DEF SimDay
      <4> QED
        BY <3>2, <4>1, <4>2, <2>1, <2>3, <1>e DEF CheckSound
    <3> QED
      BY <3>1, <3>2
  <2>8. ScansTile' /\ LostIsBehind' /\ PassedDaysReported'
    BY <2>3 DEF ScansTile, LostIsBehind, PassedDaysReported
  <2>9. NeverAheadOfClock'
    BY <2>1, <1>0 DEF NeverAheadOfClock
  <2> QED
    BY <2>6, <2>7, <2>8, <2>9 DEF MonitorInv
<1>3. CASE do_check
  <2> DEFINE end == WindowEnd(lastChecked, now)
             where == IF SimDay(lastChecked) # SimDay(end) THEN "report" ELSE "scan"
             new == [pc |-> where, start |-> lastChecked, end |-> end, picked |-> {}]
  <2>1. /\ check' = new /\ now >= lastChecked + 1
        /\ UNCHANGED <<now, running, lastChecked, report, action, alerts, lost, noReport, seeks, raced>>
    BY <1>3 DEF do_check, clockVars, history
  <2>2. end \in Nat /\ lastChecked < end /\ end <= lastChecked + Day /\ end <= now
    BY <2>1, <1>0, <1>a DEF WindowEnd, Earlier
  <2>3. where \in {"report", "scan"} /\ (where = "report" <=> SimDay(lastChecked) # SimDay(end))
    OBVIOUS
  <2> HIDE DEF end, where
  <2>4. new \in Checks /\ new.pc = where /\ new.start = lastChecked /\ new.end = end
    BY <2>2, <2>3, <1>a DEF Checks
  <2> HIDE DEF new
  <2>5. MonitorTypeOK'
    BY <2>1, <2>4, <1>a DEF MonitorTypeOK
  <2>6. SimDay(check.start)' = SimDay(lastChecked) /\ SimDay(check.end)' = SimDay(end)
    BY <2>1, <2>4 DEF SimDay
  <2>7. end <= MaxTime
    BY <2>2, <1>0, <1>a
  <2>8. CheckSound'
    BY <2>1, <2>2, <2>3, <2>4, <2>6, <2>7 DEF CheckSound
  <2>9. now' \in 0..MaxTime /\ now <= now' /\ ReportsKept
    BY <2>1, <1>a, <1>c
  <2> QED
    BY <2>1, <2>5, <2>8, <2>9, MarkStays DEF MonitorInv
\* A later step of the check before its scan: the window stays.
<1>f. ASSUME NEW where \in {"evaluate", "store", "scan"}, NEW picked \in SUBSET (Recs \X Judgements),
             check.pc # "idle", check' = [check EXCEPT !.pc = where, !.picked = picked],
             UNCHANGED <<now, running, lastChecked, alerts, lost, seeks, raced>>, ReportsKept,
             report' \in [SimDays -> SUBSET {"kpi", "doc"}], noReport' \subseteq SimDays, action' \in [Recs -> ActionRows],
             seeks = 0 /\ SimDay(check.start) # SimDay(check.end) =>
               report'[TargetDay(check.end)] # {} \/ TargetDay(check.end) \in noReport'
      PROVE  MonitorInv'
  <2>1. /\ check' \in Checks /\ check'.pc = where /\ check'.start = check.start /\ check'.end = check.end
    BY <1>f, <1>a DEF Checks
  <2>2. MonitorTypeOK'
    BY <2>1, <1>f, <1>a DEF MonitorTypeOK
  <2>3. /\ SimDay(check.start)' = SimDay(check.start) /\ SimDay(check.end)' = SimDay(check.end)
        /\ TargetDay(check.end)' = TargetDay(check.end)
    BY <2>1 DEF SimDay, TargetDay
  <2>4. CheckSound'
    BY <2>1, <2>3, <1>f, <1>e DEF CheckSound
  <2>5. now' \in 0..MaxTime /\ now <= now'
    BY <1>a, <1>f
  <2> QED
    BY <2>2, <2>4, <2>5, <1>f, MarkStays DEF MonitorInv
<1>4. CASE ensure_daily_report
  <2> DEFINE d == TargetDay(check.end)
  <2>1. /\ check.pc = "report" /\ check' = [check EXCEPT !.pc = "evaluate"]
        /\ UNCHANGED <<now, running, lastChecked, action, alerts, lost, seeks, raced>>
        /\ \/ report' = (IF report[d] = {} THEN [report EXCEPT ![d] = {"kpi"}] ELSE report) /\ UNCHANGED noReport
           \/ /\ report[d] = {} /\ UNCHANGED report
              /\ noReport' = IF seeks = 0 THEN noReport \cup {d} ELSE noReport
    BY <1>4 DEF ensure_daily_report, clockVars
  <2>2. d \in SimDays
    BY <2>1, <1>b, <1>e, TargetExists
  <2> HIDE DEF d
  <2>3. /\ report' \in [SimDays -> SUBSET {"kpi", "doc"}] /\ noReport' \subseteq SimDays /\ ReportsKept
        /\ seeks = 0 => report'[d] # {} \/ d \in noReport'
    BY <2>1, <2>2, <1>a DEF ReportsKept
  <2>4. check' = [check EXCEPT !.pc = "evaluate", !.picked = check.picked]
    BY <2>1, <1>a DEF Checks
  <2> QED
    BY <2>1, <2>3, <2>4, <1>a, <1>b, <1>f DEF d
<1>5. CASE evaluate_pending_outcomes
  <2> DEFINE picked == {<<r, action[r].status>> : r \in {q \in Recs : Due(q, check.end)}}
  <2>1. /\ check.pc = "evaluate" /\ check' = [check EXCEPT !.pc = "store", !.picked = picked]
        /\ UNCHANGED <<now, running, lastChecked, report, action, alerts, lost, noReport, seeks, raced>>
    BY <1>5 DEF evaluate_pending_outcomes, clockVars, history
  <2>2. picked \in SUBSET (Recs \X Judgements)
    BY <1>a DEF Due, ActionRows
  <2> HIDE DEF picked
  <2> QED
    BY <2>1, <2>2, <1>a, <1>c, <1>e, <1>f
<1>6. CASE StoreOutcomes
  <2>1. /\ check.pc = "store" /\ check' = [check EXCEPT !.pc = "scan", !.picked = {}]
        /\ UNCHANGED <<now, running, lastChecked, report, alerts, lost, noReport, seeks, raced>>
    BY <1>6 DEF StoreOutcomes, clockVars, history
  <2>2. action' \in [Recs -> ActionRows]
    <3> DEFINE Judged(r) == IF action[r] # NoRow /\ \E p \in check.picked : p[1] = r
                        THEN [action[r] EXCEPT !.outcome = (CHOOSE p \in check.picked : p[1] = r)[2]]
                        ELSE action[r]
    <3>1. action' = [r \in Recs |-> Judged(r)]
      BY <1>6 DEF StoreOutcomes
    <3>2. ASSUME NEW r \in Recs PROVE Judged(r) \in ActionRows
      <4>1. CASE \E p \in check.picked : p[1] = r
        <5> DEFINE c == CHOOSE p \in check.picked : p[1] = r
        <5>1. c \in check.picked
          BY <4>1
        <5> HIDE DEF c
        <5>2. c[2] \in Judgements
          BY <5>1, <1>b
        <5>3. [action[r] EXCEPT !.outcome = c[2]] \in ActionRows
          BY <5>2, <1>a DEF ActionRows
        <5> QED
          BY <5>3, <1>a DEF c
      <4> QED
        BY <4>1, <1>a
    <3> HIDE DEF Judged
    <3> QED
      BY <3>1, <3>2
  <2>3. {} \in SUBSET (Recs \X Judgements) /\ check.pc # "idle" /\ ReportsKept
    BY <2>1, <1>c
  <2>4. seeks = 0 /\ SimDay(check.start) # SimDay(check.end) =>
          report'[TargetDay(check.end)] # {} \/ TargetDay(check.end) \in noReport'
    BY <2>1, <1>e
  <2> QED
    BY <2>1, <2>2, <2>3, <2>4, <1>a, <1>f
<1>7. CASE check_window
  <2> DEFINE window == {h \in Hours : check.start < h /\ h <= check.end}
  <2>1. /\ check.pc = "scan" /\ check' = Resting /\ lastChecked' = check.end
        /\ UNCHANGED <<now, running, report, action, noReport, seeks, raced>>
        /\ seeks > 0 => UNCHANGED <<alerts, lost>>
        /\ ~(seeks > 0) =>
             \/ alerts' = [h \in Hours |-> IF h \in window THEN Earlier(alerts[h] + 1, 2) ELSE alerts[h]] /\ UNCHANGED lost
             \/ lost' = lost \cup window /\ UNCHANGED alerts
    BY <1>7 DEF check_window, Mark, Window
  <2>2. alerts' \in [Hours -> 0..2] /\ lost' \subseteq Hours
    <3>1. ASSUME NEW h \in Hours PROVE (IF h \in window THEN Earlier(alerts[h] + 1, 2) ELSE alerts[h]) \in 0..2
      BY <1>a DEF Earlier
    <3>2. window \subseteq Hours
      OBVIOUS
    <3> HIDE DEF window
    <3> QED
      BY <2>1, <3>1, <3>2, <1>a
  <2>3. MonitorTypeOK'
    BY <2>1, <2>2, <1>a, <1>b, <1>d DEF MonitorTypeOK
  <2>4. CheckSound'
    BY <2>1, <1>d DEF CheckSound
  <2>5. NeverAheadOfClock'
    BY <2>1, <1>a, <1>b, <1>e DEF NeverAheadOfClock
  <2>6. ASSUME seeks = 0 PROVE ScansTile' /\ LostIsBehind' /\ PassedDaysReported'
    <3>1. /\ check.start = lastChecked /\ lastChecked < check.end /\ check.end <= lastChecked + Day
          /\ SimDay(check.start) # SimDay(check.end) => report[TargetDay(check.end)] # {} \/ TargetDay(check.end) \in noReport
      BY <2>1, <2>6, <1>e
    <3>2. Hours \subseteq Nat
      BY <1>0 DEF Hours
    <3>3. LostIsBehind'
      <4>1. \A h \in lost : h <= lastChecked
        BY <2>6 DEF MonitorInv, LostIsBehind
      <4>2. \A h \in lost' : h \in lost \/ h \in window
        BY <2>1, <2>6, <1>a
      <4>3. ASSUME NEW h \in lost' PROVE h <= check.end
        <5>1. CASE h \in lost
          <6>1. h \in Nat /\ h <= lastChecked
            BY <5>1, <3>2, <4>1, <1>a
          <6> QED
            BY <6>1, <3>1, <1>a, <1>b
        <5> QED
          BY <5>1, <4>2
      <4> QED
        BY <2>1, <4>3 DEF LostIsBehind
    <3>4. ScansTile'
      <4> SUFFICES ASSUME NEW h \in Hours
                   PROVE  alerts'[h] = IF h <= check.end /\ h \notin lost' THEN 1 ELSE 0
        BY <2>1 DEF ScansTile
      <4>1. alerts[h] = IF h <= lastChecked /\ h \notin lost THEN 1 ELSE 0
        BY <2>6 DEF MonitorInv, ScansTile
      <4>2. h \in lost => h <= lastChecked
        BY <2>6 DEF MonitorInv, LostIsBehind
      <4>3. h \in window <=> lastChecked < h /\ h <= check.end
        BY <3>1
      <4>4. h \in Nat /\ Earlier(0 + 1, 2) = 1
        BY <3>2 DEF Earlier
      <4>5. CASE alerts' = [g \in Hours |-> IF g \in window THEN Earlier(alerts[g] + 1, 2) ELSE alerts[g]] /\ UNCHANGED lost
        <5>1. alerts'[h] = IF h \in window THEN Earlier(alerts[h] + 1, 2) ELSE alerts[h]
          BY <4>5
        <5> HIDE DEF window
        <5> QED
          BY <4>1, <4>2, <4>3, <4>4, <4>5, <5>1, <3>1, <1>a, <1>b
      <4>6. CASE lost' = lost \cup window /\ UNCHANGED alerts
        <5> HIDE DEF window
        <5> QED
          BY <4>1, <4>2, <4>3, <4>4, <4>6, <3>1, <1>a, <1>b
      <4> QED
        BY <2>1, <2>6, <4>5, <4>6
    <3>5. PassedDaysReported'
      <4> SUFFICES ASSUME NEW d \in SimDays, (d + 1) * Day <= check.end
                   PROVE  report[d] # {} \/ d \in noReport
        BY <2>1 DEF PassedDaysReported
      <4>1. d \in Nat /\ (d + 1) * Day \in Nat
        BY <1>0, DayOf DEF SimDays
      <4>2. CASE (d + 1) * Day <= lastChecked
        BY <4>2, <2>6 DEF MonitorInv, PassedDaysReported
      <4>3. CASE lastChecked < (d + 1) * Day
        <5>1. SimDay(lastChecked) # SimDay(check.end) /\ TargetDay(check.end) = d
          BY <4>1, <4>3, <3>1, <1>a, <1>b, OneMidnight
        <5> QED
          BY <5>1, <3>1
      <4> QED
        BY <4>1, <4>2, <4>3, <1>a
    <3> QED
      BY <3>3, <3>4, <3>5
  <2>7. ASSUME seeks # 0 PROVE ScansTile' /\ LostIsBehind' /\ PassedDaysReported'
    BY <2>1, <2>7 DEF ScansTile, LostIsBehind, PassedDaysReported
  <2> QED
    BY <2>3, <2>4, <2>5, <2>6, <2>7 DEF MonitorInv
\* The endpoints change one table and nothing else.
<1>g. ASSUME UNCHANGED <<now, running, lastChecked, check, alerts, lost, noReport, seeks, raced>>,
             report' \in [SimDays -> SUBSET {"kpi", "doc"}], action' \in [Recs -> ActionRows], ReportsKept
      PROVE  MonitorInv'
  <2>1. now' \in 0..MaxTime /\ now <= now'
    BY <1>a, <1>g
  <2>2. MonitorTypeOK'
    BY <1>g, <1>a DEF MonitorTypeOK
  <2> QED
    BY <2>1, <2>2, <1>g, MarkStays, CheckStays DEF MonitorInv
<1>8. ASSUME NEW d \in AskedDays, get_daily_report(d) \/ aggregate_daily(d) \/ StoreDocument(d) PROVE MonitorInv'
  <2>1. d \in SimDays
    BY AskedAssumption DEF SimDays, SimDay
  <2>2. PICK newRow \in SUBSET {"kpi", "doc"} : newRow # {} /\ report' = [report EXCEPT ![d] = newRow]
    <3>1. CASE get_daily_report(d)
      BY <3>1 DEF get_daily_report
    <3>2. CASE aggregate_daily(d)
      BY <3>2, <2>1, <1>a DEF aggregate_daily
    <3>3. CASE StoreDocument(d)
      BY <3>3, <2>1, <1>a DEF StoreDocument
    <3> QED
      BY <3>1, <3>2, <3>3, <1>8
  <2>3. UNCHANGED <<now, running, lastChecked, check, action, alerts, lost, noReport, seeks, raced>>
    BY <1>8 DEF get_daily_report, aggregate_daily, StoreDocument, clockVars, history
  <2>4. report' \in [SimDays -> SUBSET {"kpi", "doc"}] /\ ReportsKept
    BY <2>1, <2>2, <2>3, <1>a DEF ReportsKept
  <2> QED
    BY <2>3, <2>4, <1>a, <1>g
<1>9. ASSUME NEW r \in Recs, NEW status \in {"approved", "rejected"}, save_status(r, status) PROVE MonitorInv'
  <2>1. /\ action' = [action EXCEPT ![r].status = status, ![r].at = DecidedAt(r)]
        /\ UNCHANGED <<now, running, lastChecked, check, report, alerts, lost, noReport, seeks, raced>>
    BY <1>9 DEF save_status, clockVars, history
  <2>2. DecidedAt(r) \in 0..MaxTime
    BY <1>a DEF DecidedAt, ActionRows
  <2> DEFINE newRow == [[action[r] EXCEPT !.status = status] EXCEPT !.at = DecidedAt(r)]
  <2>3. newRow \in ActionRows
    BY <2>2, <1>a DEF ActionRows, Judgements
  <2>4. action' = [action EXCEPT ![r] = newRow]
    BY <2>1, <1>a
  <2> HIDE DEF newRow
  <2>5. action' \in [Recs -> ActionRows]
    BY <2>3, <2>4, <1>a
  <2> QED
    BY <2>1, <2>5, <1>a, <1>c, <1>g
<1>10. CASE clear_recommendations
  <2>1. /\ action' = [r \in Recs |-> NoRow]
        /\ UNCHANGED <<now, running, lastChecked, check, report, alerts, lost, noReport, seeks, raced>>
    BY <1>10 DEF clear_recommendations, clockVars, history
  <2>2. NoRow \in ActionRows
    BY <1>0 DEF NoRow, ActionRows
  <2> QED
    BY <2>1, <2>2, <1>a, <1>c, <1>g
<1>11. CASE UNCHANGED mvars
  BY <1>11, <1>a, <1>c, <1>g DEF mvars
<1>12. ASSUME NEW t \in 0..MaxTime, seek(t) PROVE MonitorInv'
  BY <1>12, <1>2, <1>a DEF seek
<1>13. CASE reset
  <2>1. 0 \in 0..MaxTime
    BY <1>0
  <2> QED
    BY <1>13, <2>1, <1>2 DEF reset
<1> QED
  BY <1>1, <1>3, <1>4, <1>5, <1>6, <1>7, <1>8, <1>9, <1>10, <1>11, <1>12, <1>13 DEF MonitorNext, WorkerMoves

\* However the clock is started, paused, accelerated and moved while a check awaits its jobs, and for
\* any length of day: the scans tile the time up to the mark, the mark is not ahead of the clock
\* unless a seek hit a running check, and every day passed has its report (routers/simulator.py).
THEOREM WindowsTileTime == MonitorSpec => []MonitorInv
<1>1. MonitorInv /\ [MonitorNext]_mvars => MonitorInv'
  BY MonitorStep
<1> QED
  BY MonitorInitInv, <1>1, PTL DEF MonitorSpec

-----------------------------------------------------------------------------
\* Outcomes: only StoreOutcomes writes one, and the rows it writes have had none since they were read,
\* whatever the decision endpoints did meanwhile.
PickedUnjudged == \A p \in check.picked : action[p[1]].outcome = "none"

JudgedOnce == \A r \in Recs : action[r].outcome # "none" => action'[r].outcome = action[r].outcome \/ action'[r] = NoRow

\* A step that picks nothing new and leaves or empties the outcomes keeps them.
LEMMA OutcomesStay ==
  ASSUME MonitorInv, PickedUnjudged, check'.picked \subseteq check.picked,
         \A r \in Recs : action'[r].outcome = action[r].outcome \/ action'[r] = NoRow
  PROVE  PickedUnjudged' /\ JudgedOnce
<1>1. \A p \in check.picked : p[1] \in Recs
  BY DEF MonitorInv, MonitorTypeOK, Checks
<1>2. NoRow.outcome = "none"
  BY DEF NoRow
<1> QED
  BY <1>1, <1>2 DEF PickedUnjudged, JudgedOnce

\* No step judges a decision twice or picks a judged one.
LEMMA OutcomeStep == ASSUME MonitorInv, PickedUnjudged, [MonitorNext]_mvars PROVE PickedUnjudged' /\ JudgedOnce
<1>0. check \in Checks /\ action \in [Recs -> ActionRows] /\ \A p \in check.picked : p[1] \in Recs
  BY DEF MonitorInv, MonitorTypeOK, Checks
<1>1. CASE do_check
  <2>1. check'.picked = {} /\ action' = action
    BY <1>1 DEF do_check
  <2> QED
    BY <2>1, OutcomesStay
<1>2. CASE ensure_daily_report
  <2>1. check'.picked = check.picked /\ action' = action
    BY <1>2, <1>0 DEF ensure_daily_report, Checks
  <2> QED
    BY <2>1, OutcomesStay
<1>3. CASE evaluate_pending_outcomes
  <2>1. check'.picked = {<<r, action[r].status>> : r \in {q \in Recs : Due(q, check.end)}} /\ action' = action
    BY <1>3, <1>0 DEF evaluate_pending_outcomes, Checks
  <2>2. \A p \in check'.picked : action[p[1]].outcome = "none"
    BY <2>1 DEF Due
  <2> QED
    BY <2>1, <2>2 DEF PickedUnjudged, JudgedOnce
<1>4. CASE StoreOutcomes
  <2>1. check'.picked = {}
    BY <1>4, <1>0 DEF StoreOutcomes, Checks
  <2>2. ASSUME NEW r \in Recs, action[r].outcome # "none" PROVE action'[r] = action[r]
    <3>1. ~ \E p \in check.picked : p[1] = r
      BY <2>2 DEF PickedUnjudged
    <3> QED
      BY <3>1, <1>4 DEF StoreOutcomes
  <2> QED
    BY <2>1, <2>2 DEF PickedUnjudged, JudgedOnce
<1>5. CASE check_window
  <2>1. check'.picked = {} /\ action' = action
    BY <1>5 DEF check_window, Resting
  <2> QED
    BY <2>1, OutcomesStay
<1>6. ASSUME NEW r \in Recs, NEW status \in {"approved", "rejected"}, save_status(r, status)
      PROVE  PickedUnjudged' /\ JudgedOnce
  <2>1. action' = [action EXCEPT ![r].status = status, ![r].at = DecidedAt(r)] /\ check' = check
    BY <1>6 DEF save_status
  <2>2. action[r] \in ActionRows
    BY <1>0
  <2>3. action'[r].outcome = action[r].outcome
    BY <2>1, <2>2, <1>0 DEF ActionRows
  <2>4. \A q \in Recs \ {r} : action'[q] = action[q]
    BY <2>1, <1>0
  <2> QED
    BY <2>1, <2>3, <2>4, OutcomesStay
<1>7. CASE clear_recommendations
  <2>1. check' = check /\ \A r \in Recs : action'[r] = NoRow
    BY <1>7 DEF clear_recommendations
  <2> QED
    BY <2>1, OutcomesStay
<1>8. CASE UNCHANGED <<check, action>>
  BY <1>8, OutcomesStay
<1>9. CASE TimePasses \/ start \/ pause \/ reset \/ \E t \in 0..MaxTime : seek(t)
  BY <1>9, <1>8 DEF TimePasses, start, pause, reset, seek, Jump
<1>10. CASE \E d \in AskedDays : get_daily_report(d) \/ aggregate_daily(d) \/ StoreDocument(d)
  BY <1>10, <1>8 DEF get_daily_report, aggregate_daily, StoreDocument
<1> QED
  BY <1>1, <1>2, <1>3, <1>4, <1>5, <1>6, <1>7, <1>8, <1>9, <1>10 DEF MonitorNext, WorkerMoves, mvars

\* An outcome is written once: overwriting or clearing a decision at any point of an evaluation never
\* makes a later evaluation judge it again (routers/simulator.py, routers/control.py).
THEOREM OutcomesAreFinal == MonitorSpec => OutcomeOnce
<1>1. MonitorInit => PickedUnjudged
  BY DEF MonitorInit, Resting, PickedUnjudged
<1>2. MonitorInv /\ PickedUnjudged /\ [MonitorNext]_mvars => MonitorInv' /\ PickedUnjudged'
  BY MonitorStep, OutcomeStep
<1>3. MonitorInv /\ PickedUnjudged /\ [MonitorNext]_mvars => [JudgedOnce]_mvars
  BY OutcomeStep
<1>4. MonitorSpec => [][JudgedOnce]_mvars
  BY MonitorInitInv, <1>1, <1>2, <1>3, PTL DEF MonitorSpec
<1> QED
  BY <1>4 DEF OutcomeOnce, JudgedOnce

-----------------------------------------------------------------------------
(***************************************************************************)
(* Reports.  The arithmetic shows that the reference computed from a       *)
(* watermark is the beginning of the next day, week or month, so that the  *)
(* period before it holds the watermark and is a whole one; the induction, *)
(* that a run is logged after its warnings and read before them.           *)
(***************************************************************************)
\* The cadences a report may have.
Kinds == {"daily", "weekly", "monthly"}

\* The constants are numbers, and a month has passed when the wall clock is read.
LEMMA Calendar ==
  /\ DaySlots \in Nat \ {0} /\ WeekDays \in Nat \ {0} /\ MonthDays \in Nat \ {0} /\ Lead \in Nat \ {0}
  /\ ReportOffset \in Nat /\ WallClock \in Nat /\ MaxSlots \in Nat /\ Retries \in Nat
  /\ MaxFaults \in Nat /\ MaxRequests \in Nat
  /\ WeekDays <= MonthDays /\ MaxSlots + Lead <= WallClock
  /\ MonthDays <= LocalDay(WallClock) /\ LocalDay(WallClock) \in Nat /\ Cadences \subseteq Kinds
<1>1. /\ DaySlots \in Nat \ {0} /\ WeekDays \in Nat \ {0} /\ MonthDays \in Nat \ {0} /\ Lead \in Nat \ {0}
      /\ ReportOffset \in Nat /\ WallClock \in Nat /\ MaxSlots \in Nat /\ Retries \in Nat
      /\ MaxFaults \in Nat /\ MaxRequests \in Nat
  BY ReportSizes
<1>2. LocalDay(WallClock) = (WallClock + ReportOffset) \div DaySlots
  BY DEF LocalDay, DayIn
<1> QED
  BY <1>1, <1>2, ReportCalendar, ReportOptions, QuotientOf DEF Kinds

\* A period has at least a day and at most a month.
LEMMA LengthIs == \A c \in Kinds : Length(c) \in Nat \ {0} /\ Length(c) <= MonthDays
  BY Calendar DEF Kinds, Length

\* The local day of a slot is the one whose slots it lies between.
LEMMA LocalDayOf == \A s \in Nat : LocalDay(s) \in Nat /\ LocalDay(s) * DaySlots <= s + ReportOffset
                                   /\ s + ReportOffset < (LocalDay(s) + 1) * DaySlots
  BY Calendar, QuotientOf DEF LocalDay, DayIn

\* The reference of a watermark is the beginning of the next day, week or month.
LEMMA ReferenceDay ==
  ASSUME SessionOffset = ReportOffset, NEW c \in Kinds, NEW w \in Nat
  PROVE  LocalDay(reference_ts_from_watermark(c, w)) = (LocalDay(w) \div Length(c) + 1) * Length(c)
<1> DEFINE day == LocalDay(w)
           L == Length(c)
           q == day \div L
           ref == reference_ts_from_watermark(c, w)
           e == (q + 1) * L
<1>1. L \in Nat \ {0} /\ day \in Nat /\ day * DaySlots <= w + ReportOffset /\ w + ReportOffset < (day + 1) * DaySlots
  BY LengthIs, LocalDayOf
<1>2. q \in Nat /\ q * L <= day /\ day < (q + 1) * L /\ day % L = day - q * L
  BY <1>1, QuotientOf, RestOf
<1>3. DayIn(SessionOffset, w) = day
  BY DEF LocalDay
<1>4. e \in Nat /\ e = q * L + L /\ q * L \in Nat
  BY <1>1, <1>2
<1>0. DaySlots \in Nat \ {0} /\ ReportOffset \in Nat
  BY Calendar
<1>5. ASSUME NEW x \in Nat, e * DaySlots <= x, x < (e + 1) * DaySlots, ref + ReportOffset = x PROVE LocalDay(ref) = e
  BY <1>0, <1>4, <1>5, QuotientIs DEF LocalDay, DayIn
<1>6. CASE c = "daily"
  <2>1. L = 1 /\ ref = w + DaySlots
    BY <1>6 DEF Length, reference_ts_from_watermark
  <2> HIDE DEF L, ref, day, q
  <2>2. e = day + 1
    BY <2>1, <1>1, <1>2
  <2> HIDE DEF e
  <2>3. e * DaySlots = day * DaySlots + DaySlots /\ (e + 1) * DaySlots = (day + 1) * DaySlots + DaySlots
    BY <2>2, <1>0, <1>1
  <2>4. day * DaySlots \in Nat /\ (day + 1) * DaySlots \in Nat
    BY <1>0, <1>1
  <2>5. w + DaySlots + ReportOffset \in Nat /\ e * DaySlots <= w + DaySlots + ReportOffset
        /\ w + DaySlots + ReportOffset < (e + 1) * DaySlots
    BY <2>3, <2>4, <1>0, <1>1
  <2> QED
    BY <2>1, <2>5, <1>5 DEF ref, e, q, L, day
<1>7. CASE c = "weekly"
  <2> DEFINE k == e - day
  <2>1. L = WeekDays /\ ref = w + (WeekDays - (day % WeekDays)) * DaySlots
    BY <1>3, <1>7 DEF Length, reference_ts_from_watermark
  <2> HIDE DEF L, ref, day, q
  <2>2. WeekDays - (day % WeekDays) = k /\ k \in Nat /\ e = day + k
    BY <2>1, <1>1, <1>2, <1>4
  <2> HIDE DEF k, e
  <2>3. e * DaySlots = day * DaySlots + k * DaySlots /\ (e + 1) * DaySlots = (day + 1) * DaySlots + k * DaySlots
    BY <2>2, <1>0, <1>1
  <2>4. day * DaySlots \in Nat /\ (day + 1) * DaySlots \in Nat /\ k * DaySlots \in Nat
    BY <2>2, <1>0, <1>1
  <2>5. w + k * DaySlots + ReportOffset \in Nat /\ e * DaySlots <= w + k * DaySlots + ReportOffset
        /\ w + k * DaySlots + ReportOffset < (e + 1) * DaySlots
    BY <2>3, <2>4, <1>0, <1>1
  <2> QED
    BY <2>1, <2>2, <2>5, <1>5 DEF ref, e, q, L, day
<1>8. CASE c = "monthly"
  <2>1. L = MonthDays /\ ref = (q + 1) * MonthDays * DaySlots - ReportOffset
    BY <1>3, <1>8 DEF Length, reference_ts_from_watermark
  <2> HIDE DEF L, ref, day, q
  <2>2. ref = e * DaySlots - ReportOffset
    BY <2>1
  <2> HIDE DEF e
  <2>3. e * DaySlots \in Nat /\ (e + 1) * DaySlots = e * DaySlots + DaySlots
    BY <1>0, <1>4
  <2>4. ref + ReportOffset = e * DaySlots /\ e * DaySlots < (e + 1) * DaySlots
    BY <2>2, <2>3, <1>0
  <2> QED
    BY <2>3, <2>4, <1>5 DEF ref, e, q, L, day
<1> QED
  BY <1>6, <1>7, <1>8 DEF Kinds

\* A period that ends on the last boundary before a reference day.
LEMMA PeriodOf ==
  ASSUME NEW c \in Kinds, NEW ref, LocalDay(ref) \in Nat, LocalDay(ref) >= Length(c)
  PROVE  LET p == compute_report_period(c, ref)
         IN  /\ p.first \in Nat /\ p.last \in Nat /\ p.last = p.first + Length(c) /\ p.last <= LocalDay(ref)
<1> DEFINE L == Length(c)
           day == LocalDay(ref)
           q == day \div L
<1>1. L \in Nat \ {0} /\ day \in Nat
  BY LengthIs
<1>2. q \in Nat /\ q * L <= day /\ day < (q + 1) * L
  BY <1>1, QuotientOf
<1>3. compute_report_period(c, ref) = [first |-> q * L - L, last |-> q * L]
  BY DEF compute_report_period
<1> HIDE DEF q
<1>4. q # 0
  BY <1>1, <1>2
<1>5. L <= q * L /\ q * L \in Nat
  <2>1. 1 <= q /\ 1 \in Nat /\ L \in Nat /\ 1 * L = L
    BY <1>1, <1>2, <1>4
  <2> QED
    BY <2>1, <1>2, ProductsInOrder
<1> HIDE DEF L, day
<1>6. q * L - L \in Nat /\ q * L = (q * L - L) + L
  BY <1>1, <1>5
<1> QED
  BY <1>2, <1>3, <1>5, <1>6 DEF L, day

\* The period of a watermark holds its day and is one day, week or month long.
LEMMA PeriodOfMark ==
  ASSUME SessionOffset = ReportOffset, NEW c \in Kinds, NEW w \in Nat
  PROVE  LET p == compute_report_period(c, reference_ts_from_watermark(c, w))
         IN  /\ p.first \in Nat /\ p.last \in Nat /\ p.last = p.first + Length(c)
             /\ p.first <= LocalDay(w) /\ LocalDay(w) < p.last /\ p.last <= LocalDay(w) + Length(c)
<1> DEFINE L == Length(c)
           day == LocalDay(w)
           q == day \div L
           ref == reference_ts_from_watermark(c, w)
<1>1. L \in Nat \ {0} /\ day \in Nat
  BY LengthIs, LocalDayOf
<1>2. q \in Nat /\ q * L <= day /\ day < (q + 1) * L
  BY <1>1, QuotientOf
<1>3. LocalDay(ref) = (q + 1) * L
  BY ReferenceDay
<1> HIDE DEF ref
<1>4. compute_report_period(c, ref) = [first |-> (LocalDay(ref) \div L) * L - L, last |-> (LocalDay(ref) \div L) * L]
  BY DEF compute_report_period
<1> HIDE DEF L, q, day
<1>5. (q + 1) * L \in Nat /\ q * L \in Nat /\ (q + 1) * L = q * L + L /\ (q + 1 + 1) * L = (q + 1) * L + L
  BY <1>1, <1>2
<1>6. ((q + 1) * L) \div L = q + 1
  <2>1. q + 1 \in Nat /\ (q + 1) * L <= (q + 1) * L /\ (q + 1) * L < (q + 1 + 1) * L
    BY <1>1, <1>2, <1>5
  <2> QED
    BY <2>1, <1>1, <1>5, QuotientIs
<1>7. compute_report_period(c, ref) = [first |-> q * L, last |-> (q + 1) * L]
  BY <1>3, <1>4, <1>5, <1>6, <1>1
<1>8. (q + 1) * L <= day + L
  BY <1>1, <1>2, <1>5
<1> QED
  BY <1>2, <1>5, <1>7, <1>8 DEF L, day, ref

\* The largest member of a bounded set of numbers is one of its members.
LEMMA GreatestIn ==
  ASSUME NEW S, S \subseteq Int, S # {}, \E top \in Int : \A s \in S : s <= top
  PROVE  Max(S) \in S
<1>0. PICK top \in Int : \A s \in S : s <= top
  OBVIOUS
<1> DEFINE R == OpToRel(<, Nat)
           Below == {top - t : t \in S}
<1>1. IsWellFoundedOn(R, Nat)
  BY NatLessThanWellFounded
<1> HIDE DEF R
<1>2. PICK s \in S : TRUE
  OBVIOUS
<1>3. Below \subseteq Nat /\ top - s \in Below
  BY <1>0
<1>4. PICK x \in Below : \A y \in Below : ~ (<<y, x>> \in R)
  BY <1>1, <1>3, WFMin
<1>5. \A y \in Below : ~ (y < x)
  BY <1>3, <1>4 DEF R, OpToRel
<1>6. PICK t \in S : x = top - t
  OBVIOUS
<1>7. ASSUME NEW u \in S PROVE t >= u
  <2>1. ~ (top - u < top - t)
    BY <1>5, <1>6
  <2> QED
    BY <2>1
<1> QED
  BY <1>7 DEF Max

\* Days of a period that ends a month after the newest possible slot, or sooner, are report days.
LEMMA DaysOfPeriod ==
  ASSUME NEW first \in Nat, NEW last \in Nat, first <= last, last <= LocalDay(WallClock) + MonthDays
  PROVE  first \in ReportDays /\ last \in ReportDays
  BY Calendar DEF ReportDays, LocalDay, DayIn

\* Watermarks are slots.
LEMMA SlotsOfMarks ==
  ASSUME ReportTypeOK, NEW tables, NEW w \in Watermarks(tables)
  PROVE  w \in Nat /\ w <= MaxSlots + Lead
<1>1. newest \in 0..MaxSlots /\ warned \subseteq 0..MaxSlots /\ MaxSlots \in Nat /\ Lead \in Nat
  BY Calendar DEF ReportTypeOK
<1> QED
  BY <1>1 DEF Watermarks

\* The period of a watermark, as PeriodOfWatermark says it.
LEMMA MarkedPeriod ==
  ASSUME SessionOffset = ReportOffset, ReportTypeOK
  PROVE  PeriodOfWatermark
<1> SUFFICES ASSUME NEW c \in Kinds, NEW w \in Watermarks({"observed", "predicted"})
             PROVE  InPeriod(compute_report_period(c, reference_ts_from_watermark(c, w)), w)
  BY DEF PeriodOfWatermark, Kinds
<1>1. w \in Nat
  BY SlotsOfMarks
<1> QED
  BY <1>1, PeriodOfMark DEF InPeriod

\* Only its first and last day matter to the targets of a period.
LEMMA TargetsOf == ASSUME NEW o, NEW p, NEW r, p.first = r.first, p.last = r.last PROVE Targets(o, p) = Targets(o, r)
  BY DEF Targets, InPeriod

\* The inductive invariant: PeriodOfWatermark follows from the types alone.
GenerationsInv == /\ ReportTypeOK /\ \A g \in Generators : GenerationSound(task[g])
                  /\ CitedRunHasWarnings /\ CausesHaveEvidence

\* A step of one generator that stores nothing keeps the invariant if its new task is sound.
LEMMA OneTaskMoves ==
  ASSUME GenerationsInv, NEW g \in Generators, NEW t \in Tasks, Set(g, t), GenerationSound(t),
         UNCHANGED <<newest, warned, logged, document>>, fired' \in [Cadences -> 0..newest],
         strikes' \in 0..MaxFaults, requests' \in 0..MaxRequests
  PROVE  GenerationsInv'
<1> USE DEF GenerationsInv
<1>1. task' \in [Generators -> Tasks] /\ task'[g] = t /\ \A h \in Generators \ {g} : task'[h] = task[h]
  BY DEF Set, ReportTypeOK
<1>2. ReportTypeOK'
  BY <1>1 DEF ReportTypeOK
<1>3. \A h \in Generators : GenerationSound(task'[h])
  BY <1>1
<1>4. \A h \in Generators : GenerationSound(task[h])'
  BY <1>3 DEF GenerationSound, Targets, InPeriod
<1>5. CitedRunHasWarnings' /\ CausesHaveEvidence'
  BY DEF CitedRunHasWarnings, CausesHaveEvidence, StoredDocuments, Targets, InPeriod
<1> QED
  BY <1>2, <1>4, <1>5

\* An idle task is of the types and promises nothing.
LEMMA IdleTask == NoTask \in Tasks /\ GenerationSound(NoTask)
<1>1. NoTask.pc = "idle"
  BY DEF NoTask
<1>2. 0 \in ReportDays /\ 0 \in 0..Retries
  BY Calendar, DaysOfPeriod
<1> QED
  BY <1>1, <1>2 DEF NoTask, Tasks, GenerationSound

\* A task at the start of an attempt.
LEMMA FreshTask ==
  ASSUME NEW c \in Cadences, NEW n \in 0..Retries
  PROVE  LET t == [NoTask EXCEPT !.pc = "probe", !.cadence = c, !.tries = n]
         IN  t \in Tasks /\ GenerationSound(t)
<1> DEFINE t == [NoTask EXCEPT !.pc = "probe", !.cadence = c, !.tries = n]
<1>0. c \in Kinds
  BY Calendar
<1>1. t \in Tasks
  BY IdleTask, <1>0 DEF Tasks, Kinds
<1>2. t.pc = "probe" /\ t.cadence = c
  BY DEF NoTask
<1> QED
  BY <1>1, <1>2 DEF GenerationSound

\* A failed attempt is followed by a fresh one or by none.
LEMMA AttemptMoves ==
  ASSUME GenerationsInv, NEW g \in Generators, NextAttempt(g), task[g].pc # "idle",
         UNCHANGED <<newest, warned, logged, document, fired, requests>>, strikes' \in 0..MaxFaults
  PROVE  GenerationsInv'
<1> DEFINE t == task[g]
           fresh == [NoTask EXCEPT !.pc = "probe", !.cadence = t.cadence, !.tries = t.tries + 1]
<1>1. fired' \in [Cadences -> 0..newest] /\ requests' \in 0..MaxRequests /\ t \in Tasks /\ GenerationSound(t)
  BY DEF GenerationsInv, ReportTypeOK
<1>2. CASE g # "api" /\ t.tries < Retries
  <2>1. t.cadence \in Cadences /\ t.tries + 1 \in 0..Retries
    BY <1>1, <1>2, Calendar DEF GenerationSound, Tasks
  <2>2. fresh \in Tasks /\ GenerationSound(fresh)
    BY <2>1, FreshTask
  <2>3. Set(g, fresh)
    BY <1>2 DEF NextAttempt
  <2> HIDE DEF fresh
  <2> QED
    BY <1>1, <2>2, <2>3, OneTaskMoves
<1>3. CASE ~(g # "api" /\ t.tries < Retries)
  <2>1. Set(g, NoTask)
    BY <1>3 DEF NextAttempt
  <2> QED
    BY <1>1, <2>1, IdleTask, OneTaskMoves
<1> QED
  BY <1>2, <1>3

\* A task that has found its period, which is a whole one.
LEMMA PeriodTask ==
  ASSUME NEW t \in Tasks, NEW c \in Cadences, NEW p, p.first \in Nat, p.last \in Nat,
         p.last = p.first + Length(c), p.last <= LocalDay(WallClock) + MonthDays
  PROVE  LET u == [t EXCEPT !.pc = "run", !.cadence = c, !.first = p.first, !.last = p.last]
         IN  u \in Tasks /\ GenerationSound(u)
<1> DEFINE u == [t EXCEPT !.pc = "run", !.cadence = c, !.first = p.first, !.last = p.last]
<1>1. c \in Kinds /\ Length(c) \in Nat
  BY Calendar, LengthIs
<1>2. p.first \in ReportDays /\ p.last \in ReportDays
  BY <1>1, DaysOfPeriod
<1>3. u \in Tasks
  BY <1>1, <1>2 DEF Tasks, Kinds
<1>4. u.pc = "run" /\ u.cadence = c /\ u.first = p.first /\ u.last = p.last
  BY DEF Tasks
<1> HIDE DEF u
<1>5. GenerationSound(u)
  BY <1>4 DEF GenerationSound
<1> QED
  BY <1>3, <1>5 DEF u

\* The reports' invariant holds before anything is generated.
LEMMA ReportInitInv == ReportInit => GenerationsInv
<1> SUFFICES ASSUME ReportInit PROVE GenerationsInv
  OBVIOUS
<1>1. newest \in 0..MaxSlots /\ strikes \in 0..MaxFaults /\ requests \in 0..MaxRequests
      /\ warned \subseteq 0..MaxSlots /\ logged \subseteq warned
  BY Calendar DEF ReportInit
<1>2. task \in [Generators -> Tasks] /\ \A g \in Generators : GenerationSound(task[g])
  BY IdleTask DEF ReportInit
<1>3. document \in [Cadences -> [ReportDays -> Documents \cup {NoDoc}]] /\ fired \in [Cadences -> 0..newest]
  BY DEF ReportInit
<1>4. \A c \in Cadences, d \in ReportDays : document[c][d] = NoDoc
  BY DEF ReportInit
<1>5. CitedRunHasWarnings /\ CausesHaveEvidence
  BY <1>4 DEF CitedRunHasWarnings, CausesHaveEvidence, StoredDocuments
<1> QED
  BY <1>1, <1>2, <1>3, <1>5 DEF GenerationsInv, ReportTypeOK

\* Every step of the sources and the generators keeps the reports' invariant.
LEMMA ReportStep ==
  ASSUME SessionOffset = ReportOffset, GenerationsInv, [ReportNext]_pvars
  PROVE  GenerationsInv'
<1>a. /\ newest \in 0..MaxSlots /\ warned \subseteq 0..MaxSlots /\ logged \subseteq warned
      /\ task \in [Generators -> Tasks] /\ document \in [Cadences -> [ReportDays -> Documents \cup {NoDoc}]]
      /\ fired \in [Cadences -> 0..newest] /\ strikes \in 0..MaxFaults /\ requests \in 0..MaxRequests
  BY DEF GenerationsInv, ReportTypeOK
<1>b. \A g \in Generators : task[g] \in Tasks /\ GenerationSound(task[g])
  BY <1>a DEF GenerationsInv
<1>c. ASSUME NEW f, Strike(f) PROVE strikes' \in 0..MaxFaults
  BY <1>c, <1>a, Calendar DEF Strike
\* Steps of the sources: nothing a task relies on goes away.
<1>d. ASSUME UNCHANGED <<task, document, fired, strikes, requests>>, newest' \in 0..MaxSlots, newest <= newest',
             warned' \subseteq 0..MaxSlots, logged' \subseteq warned', logged \subseteq logged'
      PROVE  GenerationsInv'
  <2>1. fired' \in [Cadences -> 0..newest']
    BY <1>d, <1>a, Calendar
  <2>2. ReportTypeOK'
    BY <2>1, <1>d, <1>a DEF ReportTypeOK
  <2>3. \A g \in Generators : GenerationSound(task[g])'
    BY <1>d, <1>b DEF GenerationSound, Targets, InPeriod
  <2>4. CitedRunHasWarnings' /\ CausesHaveEvidence'
    BY <1>d DEF GenerationsInv, CitedRunHasWarnings, CausesHaveEvidence, StoredDocuments, Targets, InPeriod
  <2> QED
    BY <2>2, <2>3, <2>4 DEF GenerationsInv
<1>1. CASE DataArrives
  <2>1. newest' \in 0..MaxSlots /\ newest <= newest'
    BY <1>1, <1>a, Calendar DEF DataArrives
  <2> QED
    BY <1>1, <2>1, <1>a, <1>d DEF DataArrives
<1>2. ASSUME NEW o \in 0..MaxSlots, Serve(o) PROVE GenerationsInv'
  <2>1. newest <= newest' /\ newest' \in 0..MaxSlots /\ warned' \subseteq 0..MaxSlots
        /\ logged' \subseteq warned' /\ logged \subseteq logged'
    <3>1. newest' = newest /\ newest <= newest
      BY <1>2, <1>a, Calendar DEF Serve
    <3>2. \/ warned' = warned \cup {o} /\ logged' = logged
          \/ o \in warned /\ warned' = warned /\ logged' = logged \cup {o}
      BY <1>2 DEF Serve
    <3> QED
      BY <3>1, <3>2, <1>a
  <2> QED
    BY <1>2, <2>1, <1>d DEF Serve
<1>3. ASSUME NEW c \in Cadences, StartDag(c) PROVE GenerationsInv'
  <2> DEFINE t == [NoTask EXCEPT !.pc = "probe", !.cadence = c]
  <2>1. t \in Tasks
    BY IdleTask, Calendar DEF Tasks, Kinds
  <2>2. t.pc = "probe" /\ t.cadence = c
    BY DEF NoTask
  <2>3. t \in Tasks /\ GenerationSound(t)
    BY <2>1, <2>2 DEF GenerationSound
  <2>4. Set(c, t) /\ fired' = [fired EXCEPT ![c] = newest] /\ UNCHANGED <<newest, warned, logged, document, strikes, requests>>
    BY <1>3 DEF StartDag
  <2>5. fired' \in [Cadences -> 0..newest]
    BY <2>4, <1>a, Calendar
  <2>6. c \in Generators
    BY DEF Generators
  <2> HIDE DEF t
  <2> QED
    BY <2>3, <2>4, <2>5, <2>6, <1>a, OneTaskMoves
<1>4. CASE generate_ops_report
  <2>1. PICK c \in Cadences, ref \in Slots \cup {WallClock} :
          /\ LocalDay(ref) >= Length(c)
          /\ LET p == compute_report_period(c, ref)
             IN  Set("api", [NoTask EXCEPT !.pc = "run", !.cadence = c, !.first = p.first, !.last = p.last])
    BY <1>4 DEF generate_ops_report
  <2> DEFINE p == compute_report_period(c, ref)
             t == [NoTask EXCEPT !.pc = "run", !.cadence = c, !.first = p.first, !.last = p.last]
  <2>2. c \in Kinds /\ ref \in Nat /\ ref <= WallClock
    BY Calendar DEF Slots
  <2>3. LocalDay(ref) \in Nat /\ LocalDay(ref) <= LocalDay(WallClock)
    <3>1. ref + ReportOffset \in Nat /\ WallClock + ReportOffset \in Nat /\ ref + ReportOffset <= WallClock + ReportOffset
      BY <2>2, Calendar
    <3> QED
      BY <3>1, <2>2, Calendar, LocalDayOf, QuotientGrows DEF LocalDay, DayIn
  <2>4. p.first \in Nat /\ p.last \in Nat /\ p.last = p.first + Length(c) /\ p.last <= LocalDay(ref)
    BY <2>1, <2>2, <2>3, PeriodOf
  <2> HIDE DEF p
  <2>5. p.last <= LocalDay(WallClock) + MonthDays
    BY <2>3, <2>4, Calendar
  <2>6. t \in Tasks /\ GenerationSound(t)
    BY <2>4, <2>5, IdleTask, PeriodTask
  <2>7. Set("api", t)
    BY <2>1 DEF p
  <2>8. /\ UNCHANGED <<newest, warned, logged, document>> /\ fired' \in [Cadences -> 0..newest]
        /\ strikes' \in 0..MaxFaults /\ requests' \in 0..MaxRequests /\ "api" \in Generators
    BY <1>4, <1>a, Calendar DEF generate_ops_report, Generators
  <2> HIDE DEF t
  <2> QED
    BY <2>6, <2>7, <2>8, OneTaskMoves
<1>5. ASSUME NEW g \in Generators, collect_readiness_probes(g) PROVE GenerationsInv'
  <2> DEFINE t == [task[g] EXCEPT !.pc = "reference"]
  <2>1. task[g].pc = "probe" /\ UNCHANGED <<newest, warned, logged, document, fired, requests>>
    BY <1>5 DEF collect_readiness_probes
  <2>2. t \in Tasks /\ t.pc = "reference" /\ t.cadence = task[g].cadence
    BY <1>b DEF Tasks
  <2>3. task[g].cadence \in Cadences
    BY <2>1, <1>b DEF GenerationSound
  <2> HIDE DEF t
  <2>4. GenerationSound(t)
    BY <2>2, <2>3 DEF GenerationSound
  <2>5. strikes' \in 0..MaxFaults /\ (Set(g, t) \/ Set(g, NoTask))
    BY <1>5, <1>a, <1>c DEF collect_readiness_probes, t
  <2> QED
    BY <2>1, <2>2, <2>4, <2>5, <1>a, IdleTask, OneTaskMoves
<1>6. ASSUME NEW g \in Generators, latest_ops_source_ts(g) PROVE GenerationsInv'
  <2> DEFINE c == task[g].cadence
  <2>1. PICK tables \in SUBSET {"observed", "predicted"} :
          /\ IF tables = {"observed", "predicted"} THEN UNCHANGED strikes ELSE Strike("read")
          /\ LET marks == Watermarks(tables)
                 ref == IF marks = {} THEN WallClock ELSE reference_ts_from_watermark(c, Max(marks))
                 p == compute_report_period(c, ref)
             IN  Set(g, [task[g] EXCEPT !.pc = "run", !.first = p.first, !.last = p.last])
    BY <1>6 DEF latest_ops_source_ts
  <2> DEFINE marks == Watermarks(tables)
             ref == IF marks = {} THEN WallClock ELSE reference_ts_from_watermark(c, Max(marks))
             p == compute_report_period(c, ref)
             t == [task[g] EXCEPT !.pc = "run", !.first = p.first, !.last = p.last]
  <2>2. /\ task[g].pc = "reference" /\ UNCHANGED <<newest, warned, logged, document, fired, requests>>
        /\ strikes' \in 0..MaxFaults
    BY <1>6, <2>1, <1>a, <1>c DEF latest_ops_source_ts
  <2>3. c \in Cadences /\ c \in Kinds
    BY <2>2, <1>b, Calendar DEF GenerationSound
  <2>4. p.first \in Nat /\ p.last \in Nat /\ p.last = p.first + Length(c) /\ p.last <= LocalDay(WallClock) + MonthDays
    <3>1. CASE marks = {}
      <4>1. ref = WallClock
        BY <3>1
      <4>2. LocalDay(WallClock) \in Nat /\ LocalDay(WallClock) >= Length(c)
        BY <2>3, Calendar, LengthIs
      <4> HIDE DEF ref
      <4>3. p.first \in Nat /\ p.last \in Nat /\ p.last = p.first + Length(c) /\ p.last <= LocalDay(WallClock)
        BY <4>1, <4>2, <2>3, PeriodOf
      <4> HIDE DEF p
      <4> QED
        BY <4>2, <4>3, Calendar
    <3>2. CASE marks # {}
      <4> DEFINE w == Max(marks)
      <4>1. \A x \in marks : x \in Nat /\ x <= MaxSlots + Lead
        BY SlotsOfMarks DEF GenerationsInv
      <4>2. ref = reference_ts_from_watermark(c, w)
        BY <3>2
      <4> HIDE DEF marks
      <4>3. w \in marks
        <5>1. marks \subseteq Int /\ MaxSlots + Lead \in Int
          BY <4>1, Calendar
        <5>2. \E top \in Int : \A s \in marks : s <= top
          BY <5>1, <4>1
        <5> QED
          BY <5>1, <5>2, <3>2, GreatestIn
      <4> HIDE DEF w
      <4>4. w \in Nat /\ w <= MaxSlots + Lead /\ w <= WallClock
        BY <4>1, <4>3, Calendar
      <4>5. LocalDay(w) \in Nat /\ LocalDay(w) <= LocalDay(WallClock)
        <5>1. w + ReportOffset \in Nat /\ WallClock + ReportOffset \in Nat /\ w + ReportOffset <= WallClock + ReportOffset
          BY <4>4, Calendar
        <5> QED
          BY <5>1, <4>4, Calendar, LocalDayOf, QuotientGrows DEF LocalDay, DayIn
      <4> HIDE DEF ref
      <4>6. p.first \in Nat /\ p.last \in Nat /\ p.last = p.first + Length(c) /\ p.last <= LocalDay(w) + Length(c)
        BY <4>2, <4>4, <2>3, PeriodOfMark
      <4> HIDE DEF p
      <4> QED
        BY <4>5, <4>6, <2>3, Calendar, LengthIs
    <3> QED
      BY <3>1, <3>2
  <2> HIDE DEF ref, marks
  <2>5. Set(g, t)
    BY <2>1 DEF marks, ref
  <2>6. t = [task[g] EXCEPT !.pc = "run", !.cadence = c, !.first = p.first, !.last = p.last]
    BY <1>b DEF Tasks
  <2> HIDE DEF p
  <2>7. t \in Tasks /\ GenerationSound(t)
    BY <2>3, <2>4, <2>6, <1>b, PeriodTask
  <2> HIDE DEF t
  <2> QED
    BY <2>2, <2>5, <2>7, <1>a, OneTaskMoves
<1>7. ASSUME NEW g \in Generators, fetch_context_pack(g) PROVE GenerationsInv'
  <2> DEFINE t == task[g]
  <2>0. UNCHANGED <<newest, warned, logged, document, fired, strikes, requests>> /\ t \in Tasks /\ GenerationSound(t)
    BY <1>7, <1>b DEF fetch_context_pack
  <2>1. CASE t.pc = "run"
    <3> DEFINE run == LatestRun(t)
               u == [t EXCEPT !.run = run, !.pc = IF run = NoRun THEN "build" ELSE "warnings"]
    <3>1. Set(g, u)
      BY <1>7, <2>1 DEF fetch_context_pack
    <3>2. run = NoRun \/ run \in logged
      <4> DEFINE runs == {o \in logged : InPeriod(t, o)}
      <4>1. runs # {} => run = Max(runs)
        BY DEF LatestRun
      <4>2. runs = {} => run = NoRun
        BY DEF LatestRun
      <4>3. runs \subseteq logged
        OBVIOUS
      <4> HIDE DEF runs, run
      <4>4. runs \subseteq Int /\ MaxSlots \in Int /\ \A o \in runs : o <= MaxSlots
        BY <4>3, <1>a, Calendar
      <4>5. \E top \in Int : \A o \in runs : o <= top
        BY <4>4
      <4>6. runs # {} => Max(runs) \in runs
        BY <4>4, <4>5, GreatestIn
      <4> QED
        BY <4>1, <4>2, <4>3, <4>6
    <3> HIDE DEF run
    <3>3. run \in (0..MaxSlots) \cup {NoRun}
      BY <3>2, <1>a
    <3>4. /\ u \in Tasks /\ u.cadence = t.cadence /\ u.first = t.first /\ u.last = t.last /\ u.run = run
          /\ u.pc = IF run = NoRun THEN "build" ELSE "warnings"
      BY <2>0, <3>3 DEF Tasks
    <3>5. t.cadence \in Cadences /\ t.last = t.first + Length(t.cadence)
      BY <2>0, <2>1 DEF GenerationSound
    <3> HIDE DEF u, t
    <3>6. GenerationSound(u)
      BY <3>2, <3>4, <3>5 DEF GenerationSound
    <3> QED
      BY <2>0, <3>1, <3>4, <3>6, <1>a, OneTaskMoves
  <2>2. CASE t.pc = "warnings"
    <3> DEFINE rows == WarningRows(t.run, t)
               u == [t EXCEPT !.pc = "build", !.warn = rows]
    <3>1. Set(g, u)
      BY <1>7, <2>2 DEF fetch_context_pack
    <3>2. t.cadence \in Cadences /\ t.last = t.first + Length(t.cadence) /\ t.run \in logged
      BY <2>0, <2>2 DEF GenerationSound
    <3>3. rows = Targets(t.run, t)
      BY <3>2, <1>a DEF WarningRows
    <3>4. rows \subseteq Slots
      <4>1. t.run \in 0..MaxSlots
        BY <3>2, <1>a
      <4> QED
        BY <3>3, <4>1, Calendar DEF Targets, Slots
    <3> HIDE DEF rows
    <3>5. /\ u \in Tasks /\ u.cadence = t.cadence /\ u.first = t.first /\ u.last = t.last /\ u.run = t.run
          /\ u.pc = "build" /\ u.warn = rows
      BY <2>0, <3>4 DEF Tasks
    <3> HIDE DEF u, t
    <3>6. Targets(t.run, t) = Targets(u.run, u)
      BY <3>5, TargetsOf
    <3>7. GenerationSound(u)
      BY <3>2, <3>3, <3>5, <3>6 DEF GenerationSound
    <3> QED
      BY <2>0, <3>1, <3>5, <3>7, <1>a, OneTaskMoves
  <2> QED
    BY <1>7, <2>1, <2>2 DEF fetch_context_pack
<1>8. ASSUME NEW g \in Generators, GenerationRaises(g) PROVE GenerationsInv'
  <2>1. task[g].pc # "idle" /\ NextAttempt(g) /\ UNCHANGED <<newest, warned, logged, document, fired, requests>>
    BY <1>8 DEF GenerationRaises
  <2>2. strikes' \in 0..MaxFaults
    BY <1>8, <1>c DEF GenerationRaises
  <2> QED
    BY <2>1, <2>2, AttemptMoves
<1>9. ASSUME NEW g \in Generators, build_and_store(g) PROVE GenerationsInv'
  <2> DEFINE t == task[g]
  <2>1. PICK text \in {"plain", "cause"}, wiki \in BOOLEAN :
         /\ IF text = "cause" THEN Strike("model") ELSE UNCHANGED strikes
         /\ IF enforce_hallucination_guard(text, wiki)
            THEN /\ Set(g, NoTask)
                 /\ document' = [document EXCEPT ![t.cadence][t.first] =
                        [run |-> t.run, warn |-> t.warn, text |-> text, wiki |-> wiki]]
            ELSE NextAttempt(g) /\ UNCHANGED document
    BY <1>9 DEF build_and_store
  <2>2. t.pc = "build" /\ UNCHANGED <<newest, warned, logged, fired, requests>>
    BY <1>9 DEF build_and_store
  <2>3. strikes' \in 0..MaxFaults
    BY <2>1, <1>a, <1>c
  <2>4. CASE ~enforce_hallucination_guard(text, wiki)
    BY <2>1, <2>2, <2>3, <2>4, AttemptMoves
  <2>5. CASE enforce_hallucination_guard(text, wiki)
    <3> DEFINE doc == [run |-> t.run, warn |-> t.warn, text |-> text, wiki |-> wiki]
               c == t.cadence
               d == t.first
    <3>1. t \in Tasks /\ c \in Cadences /\ d \in ReportDays /\ t.last = d + Length(c)
          /\ (t.run # NoRun => t.warn = Targets(t.run, t))
      BY <2>2, <1>b DEF GenerationSound, Tasks
    <3>2. doc \in Documents /\ doc.run = t.run /\ doc.warn = t.warn /\ doc.text = text /\ doc.wiki = wiki
      BY <3>1 DEF Tasks, Documents
    <3>3. text = "cause" => wiki
      BY <2>5 DEF enforce_hallucination_guard
    <3>4. document' = [document EXCEPT ![c][d] = doc] /\ Set(g, NoTask)
      BY <2>1, <2>5
    <3>5. Targets(t.run, t) = Targets(t.run, [first |-> d, last |-> d + Length(c)])
      BY <3>1, TargetsOf
    <3> HIDE DEF doc, c, d, t
    <3>6. /\ document' \in [Cadences -> [ReportDays -> Documents \cup {NoDoc}]]
          /\ document'[c][d] = doc
          /\ \A b \in Cadences, e \in ReportDays : <<b, e>> # <<c, d>> => document'[b][e] = document[b][e]
      BY <3>1, <3>2, <3>4, <1>a
    <3>7. task' \in [Generators -> Tasks] /\ \A h \in Generators : task'[h] = NoTask \/ task'[h] = task[h]
      BY <3>4, <1>a, IdleTask DEF Set
    <3>8. ReportTypeOK'
      BY <2>2, <2>3, <3>6, <3>7, <1>a DEF ReportTypeOK
    <3>9. \A h \in Generators : GenerationSound(task[h])'
      <4>1. \A h \in Generators : GenerationSound(task'[h])
        BY <3>7, <1>b, IdleTask
      <4> QED
        BY <4>1, <2>2 DEF GenerationSound, Targets, InPeriod
    <3>10. CitedRunHasWarnings'
      <4> SUFFICES ASSUME NEW b \in Cadences, NEW e \in ReportDays, document'[b][e] # NoDoc, document'[b][e].run # NoRun
                   PROVE  document'[b][e].warn = Targets(document'[b][e].run, [first |-> e, last |-> e + Length(b)])
        BY DEF CitedRunHasWarnings, Targets, InPeriod
      <4>1. CASE b = c /\ e = d
        BY <4>1, <3>1, <3>2, <3>5, <3>6
      <4>2. CASE ~(b = c /\ e = d)
        BY <4>2, <3>6 DEF GenerationsInv, CitedRunHasWarnings
      <4> QED
        BY <4>1, <4>2
    <3>11. CausesHaveEvidence'
      <4> SUFFICES ASSUME NEW b \in Cadences, NEW e \in ReportDays, document'[b][e] # NoDoc, document'[b][e].text = "cause"
                   PROVE  document'[b][e].wiki
        BY DEF CausesHaveEvidence, StoredDocuments
      <4>1. CASE b = c /\ e = d
        BY <4>1, <3>2, <3>3, <3>6, Zenon
      <4>2. CASE ~(b = c /\ e = d)
        BY <4>2, <3>6 DEF GenerationsInv, CausesHaveEvidence, StoredDocuments
      <4> QED
        BY <4>1, <4>2
    <3> QED
      BY <3>8, <3>9, <3>10, <3>11 DEF GenerationsInv
  <2> QED
    BY <2>4, <2>5
<1>10. CASE UNCHANGED pvars
  BY <1>10, <1>a, <1>d DEF pvars
<1> QED
  BY <1>1, <1>2, <1>3, <1>4, <1>5, <1>6, <1>7, <1>8, <1>9, <1>10 DEF ReportNext, GeneratorStep

\* Reports, when the database session returns times in the report's zone: the period of a scheduled
\* report is the whole day, week or month of its newest source row, a stored document that names a
\* serving run has all its warnings, and none claims a cause without evidence, whatever arrives, fails
\* or is repeated while it is generated (workflow/reports).
THEOREM ReportsAreSound ==
  ASSUME SessionOffset = ReportOffset
  PROVE  ReportSpec => []ReportInv
<1>1. GenerationsInv /\ [ReportNext]_pvars => GenerationsInv'
  BY ReportStep
<1>2. GenerationsInv => ReportInv
  BY MarkedPeriod DEF GenerationsInv, ReportInv
<1> QED
  BY ReportInitInv, <1>1, <1>2, PTL DEF ReportSpec

(***************************************************************************)
(* Review jobs, for any jobs, workers (with any sharing of worker ids),    *)
(* approvers, retry budget and faults.  ReviewInv is inductive as it       *)
(* stands.                                                                 *)
(***************************************************************************)
USE ReviewNoOneAssumption, ReviewWorkerAssumption, ReviewSetsAssumption, ReviewBoundAssumption

\* What the UPDATE of a result, of a failure, of an approval and of next_run_at leaves in a row.
LEMMA ResultRow ==
    ASSUME NEW j \in Jobs, row[j] \in Row
    PROVE  LET new == [row[j] EXCEPT !.status = ResultStatus(j), !.awaiting = (j \in NeedsHuman), !.result = TRUE]
           IN  /\ new \in Row /\ new.status = ResultStatus(j) /\ (new.awaiting <=> j \in NeedsHuman) /\ new.result
               /\ new.worker = row[j].worker /\ new.attempts = row[j].attempts /\ new.approvedBy = row[j].approvedBy
<1> DEFINE r == row[j]
           s == ResultStatus(j)
           b == j \in NeedsHuman
<1>1. r \in Row /\ s \in Statuses /\ b \in BOOLEAN BY DEF ResultStatus, Statuses
<1> HIDE DEF r, s, b
<1>2. LET new == [r EXCEPT !.status = s, !.awaiting = b, !.result = TRUE]
      IN  /\ new \in Row /\ new.status = s /\ new.awaiting = b /\ new.result
          /\ new.worker = r.worker /\ new.attempts = r.attempts /\ new.approvedBy = r.approvedBy
    BY <1>1 DEF Row
<1> QED BY <1>2 DEF r, s, b

\* What the row of a failed attempt says.
LEMMA FailureRow ==
    ASSUME NEW j \in Jobs, row[j] \in Row
    PROVE  LET new == FailedRow(j)
           IN  /\ new \in Row
               /\ new.status = IF row[j].attempts >= MaxAttempts THEN "dead_letter" ELSE "queued"
               /\ new.worker = row[j].worker /\ new.attempts = row[j].attempts
               /\ new.approvedBy = row[j].approvedBy /\ new.result = row[j].result /\ new.awaiting = row[j].awaiting
<1> DEFINE r == row[j]
<1>1. r \in Row OBVIOUS
<1> HIDE DEF r
<1> QED BY <1>1 DEF FailedRow, Row, Statuses, r

\* What the row of an approved review says.
LEMMA ApprovedRow ==
    ASSUME NEW a \in Approvers, reading[a] \in Jobs, row[reading[a]] \in Row
    PROVE  LET r == row[reading[a]]
               new == [r EXCEPT !.status = "succeeded", !.awaiting = FALSE, !.approvedBy = a]
           IN  /\ new \in Row /\ new.status = "succeeded" /\ ~ new.awaiting /\ new.approvedBy = a
               /\ new.worker = r.worker /\ new.attempts = r.attempts /\ new.result = r.result
<1> DEFINE r == row[reading[a]]
<1>1. r \in Row OBVIOUS
<1> HIDE DEF r
<1>2. LET new == [r EXCEPT !.status = "succeeded", !.awaiting = FALSE, !.approvedBy = a]
      IN  /\ new \in Row /\ new.status = "succeeded" /\ ~ new.awaiting /\ new.approvedBy = a
          /\ new.worker = r.worker /\ new.attempts = r.attempts /\ new.result = r.result
    BY <1>1 DEF Row, Statuses
<1> QED BY <1>2 DEF r

\* The end of a backoff changes nothing else of the row.
LEMMA ReadyRow ==
    ASSUME NEW r \in Row
    PROVE  LET new == [r EXCEPT !.ready = TRUE]
           IN  /\ new \in Row /\ new.status = r.status /\ new.worker = r.worker /\ new.attempts = r.attempts
               /\ new.awaiting = r.awaiting /\ new.approvedBy = r.approvedBy /\ new.result = r.result
BY DEF Row

\* The empty queue satisfies the invariant.
LEMMA ReviewInit == JobsInit => ReviewInv
BY DEF JobsInit, ReviewInv, ReviewTypeOK, HandsInv, OneWorkerPerJob, DeadLetterIsExhausted, ApprovalInv,
       NoSuccessWithoutApproval, Row, NewRow, Statuses, Locations

\* Every step of callers, workers and approvers keeps the invariant.
LEMMA ReviewStep == ReviewInv /\ [JobsNext]_jvars => ReviewInv'
<1> SUFFICES ASSUME ReviewInv, [JobsNext]_jvars PROVE ReviewInv'
    OBVIOUS
<1> USE DEF ReviewInv, ReviewTypeOK, HandsInv, OneWorkerPerJob, DeadLetterIsExhausted, ApprovalInv,
            NoSuccessWithoutApproval, Statuses, Locations, MoveWorker, ReleaseWorker
<1>1. ASSUME NEW j \in Jobs, submit(j) PROVE ReviewInv'
    BY <1>1 DEF submit, Row
<1>2. ASSUME NEW j \in Jobs, BackoffEnds(j) PROVE ReviewInv'
    <2> DEFINE new == [row[j] EXCEPT !.ready = TRUE]
    <2>1. row' = [row EXCEPT ![j] = new] /\ UNCHANGED <<wpc, hold, reading>> BY <1>2 DEF BackoffEnds
    <2>2. /\ new \in Row /\ new.status = row[j].status /\ new.worker = row[j].worker
          /\ new.attempts = row[j].attempts /\ new.awaiting = row[j].awaiting
          /\ new.approvedBy = row[j].approvedBy /\ new.result = row[j].result
        <3>1. row[j] \in Row OBVIOUS
        <3> QED BY <3>1, ReadyRow
    <2> HIDE DEF new
    <2> QED BY <2>1, <2>2
<1>3. ASSUME NEW w \in Workers, NEW j \in Jobs, Claim(w, j) PROVE ReviewInv'
    BY <1>3 DEF Claim, Claimable, Row
<1>4. ASSUME NEW w \in Workers, process_claimed(w) PROVE ReviewInv'
    <2> DEFINE j == hold[w]
               new == [row[j] EXCEPT !.status = ResultStatus(j), !.awaiting = (j \in NeedsHuman), !.result = TRUE]
    <2>1. j \in Jobs /\ row[j].worker = WorkerId[w] BY <1>4 DEF process_claimed
    <2>2. /\ row' = [row EXCEPT ![j] = new] /\ UNCHANGED <<hold, reading>>
          /\ wpc[w] = "claimed"
          /\ wpc' = [wpc EXCEPT ![w] = "stored"] \/ wpc' = [wpc EXCEPT ![w] = "failing"]
        BY <1>4, <2>1 DEF process_claimed, StoreResult, OwnedUpdate
    <2>3. /\ new \in Row /\ new.worker = row[j].worker /\ new.attempts = row[j].attempts
          /\ new.approvedBy = row[j].approvedBy /\ new.result /\ (new.awaiting <=> j \in NeedsHuman)
          /\ new.status = ResultStatus(j)
        <3>1. row[j] \in Row BY <2>1
        <3> QED BY <2>1, <3>1, ResultRow
    <2> HIDE DEF new
    <2> USE DEF ResultStatus
    <2>4. ReviewTypeOK' BY <2>1, <2>2, <2>3
    <2>5. HandsInv' /\ OneWorkerPerJob' BY <2>1, <2>2, <2>3
    <2>6. DeadLetterIsExhausted' /\ ApprovalInv' BY <2>1, <2>2, <2>3
    <2> QED BY <2>4, <2>5, <2>6
<1>5. ASSUME NEW w \in Workers, ReviewFails(w) PROVE ReviewInv'
    BY <1>5 DEF ReviewFails
<1>6. ASSUME NEW w \in Workers, snapshot(w) PROVE ReviewInv'
    <2>1. CASE ReleaseWorker(w, "idle") BY <1>6, <2>1 DEF snapshot
    <2>2. CASE MoveWorker(w, "failing") /\ UNCHANGED hold BY <1>6, <2>2 DEF snapshot
    <2> QED BY <1>6, <2>1, <2>2 DEF snapshot
<1>7. ASSUME NEW w \in Workers, mark_failed(w) PROVE ReviewInv'
    <2> DEFINE j == hold[w]
               new == FailedRow(j)
    <2>1. j \in Jobs /\ row[j].worker = WorkerId[w] BY <1>7 DEF mark_failed
    <2>2. /\ row' = [row EXCEPT ![j] = new] \/ row' = row
          /\ UNCHANGED reading /\ wpc[w] = "failing"
          /\ wpc' = [wpc EXCEPT ![w] = "down"] /\ hold' = [hold EXCEPT ![w] = NoOne]
        BY <1>7, <2>1 DEF mark_failed, OwnedUpdate
    <2>3. /\ new \in Row /\ new.worker = row[j].worker /\ new.attempts = row[j].attempts
          /\ new.approvedBy = row[j].approvedBy /\ new.result = row[j].result /\ new.awaiting = row[j].awaiting
          /\ new.status = IF row[j].attempts >= MaxAttempts THEN "dead_letter" ELSE "queued"
        <3>1. row[j] \in Row BY <2>1
        <3> QED BY <2>1, <3>1, FailureRow
    <2> HIDE DEF new
    <2>4. ReviewTypeOK' BY <2>1, <2>2, <2>3
    <2>5. HandsInv' /\ OneWorkerPerJob' BY <2>1, <2>2, <2>3
    <2>6. DeadLetterIsExhausted'
        <3>1. row[j].attempts \in 0..MaxAttempts BY <2>1 DEF Row
        <3>2. new.status = "dead_letter" => new.attempts = MaxAttempts BY <2>3, <3>1
        <3> QED BY <2>1, <2>2, <3>2
    <2>7. ApprovalInv' BY <2>1, <2>2, <2>3
    <2> QED BY <2>4, <2>5, <2>6, <2>7
<1>8. ASSUME NEW w \in Workers, StartWorker(w) PROVE ReviewInv'
    BY <1>8 DEF StartWorker
<1>9. ASSUME NEW w \in Workers, CrashWorker(w) PROVE ReviewInv'
    BY <1>9 DEF CrashWorker
<1>10. ASSUME NEW a \in Approvers, NEW j \in Jobs, ApproveReads(a, j) PROVE ReviewInv'
    BY <1>10 DEF ApproveReads, MayApprove
<1>11. ASSUME NEW a \in Approvers, ApproveWrites(a) PROVE ReviewInv'
    <2> DEFINE j == reading[a]
               new == [row[j] EXCEPT !.status = "succeeded", !.awaiting = FALSE, !.approvedBy = a]
    <2>1. j \in Jobs /\ row[j].result /\ j \in NeedsHuman BY <1>11 DEF ApproveWrites
    <2>2. /\ row' = [row EXCEPT ![j] = new] /\ UNCHANGED <<wpc, hold>>
          /\ reading' = [reading EXCEPT ![a] = NoOne]
        BY <1>11, <2>1 DEF ApproveWrites
    <2>3. /\ new \in Row /\ new.worker = row[j].worker /\ new.attempts = row[j].attempts
          /\ new.approvedBy = a /\ new.result = row[j].result /\ ~ new.awaiting /\ new.status = "succeeded"
        <3>1. row[j] \in Row BY <2>1
        <3> QED BY <2>1, <3>1, ApprovedRow
    <2> HIDE DEF new
    <2>4. ReviewTypeOK' BY <2>1, <2>2, <2>3
    <2>5. HandsInv' /\ OneWorkerPerJob' BY <2>1, <2>2, <2>3
    <2>6. DeadLetterIsExhausted' /\ ApprovalInv' BY <2>1, <2>2, <2>3
    <2> QED BY <2>4, <2>5, <2>6
<1>12. CASE UNCHANGED jvars
    BY <1>12 DEF jvars
<1> QED
    BY <1>1, <1>2, <1>3, <1>4, <1>5, <1>6, <1>7, <1>8, <1>9, <1>10, <1>11, <1>12
    DEF JobsNext, WorkerStep, claim_next_job, process

\* A job is in one worker's hands, is parked only when its attempts are used up, and a review that
\* asks for a human succeeds through approve only, whatever fails and whoever shares a worker id.
THEOREM ReviewCorrect == JobsSpec => []ReviewInv
BY ReviewInit, ReviewStep, PTL DEF JobsSpec

\* Attempts are only ever spent: no failed read, lost acknowledgement or approval hands one back.
THEOREM AttemptsAreSpent == JobsSpec => AttemptsOnlyGrow
<1>1. ReviewInv /\ [JobsNext]_jvars => [\A j \in Jobs : row'[j].attempts >= row[j].attempts]_jvars
    <2> SUFFICES ASSUME ReviewInv, JobsNext, NEW j \in Jobs PROVE row'[j].attempts >= row[j].attempts
        OBVIOUS
    <2> USE DEF ReviewInv, ReviewTypeOK, Row
    <2>1. row[j].attempts \in Nat OBVIOUS
    <2>2. ASSUME NEW i \in Jobs, submit(i) \/ BackoffEnds(i) PROVE row'[j].attempts >= row[j].attempts
        BY <2>1, <2>2 DEF submit, BackoffEnds
    <2>3. ASSUME NEW w \in Workers, NEW i \in Jobs, Claim(w, i) PROVE row'[j].attempts >= row[j].attempts
        BY <2>1, <2>3 DEF Claim
    <2>4. ASSUME NEW w \in Workers, process_claimed(w) PROVE row'[j].attempts >= row[j].attempts
        BY <2>1, <2>4 DEF process_claimed, StoreResult, OwnedUpdate
    <2>5. ASSUME NEW w \in Workers, mark_failed(w) PROVE row'[j].attempts >= row[j].attempts
        <3>1. hold[w] \in Jobs BY <2>5 DEF mark_failed, HandsInv
        <3>2. row[hold[w]] \in Row BY <3>1
        <3>3. FailedRow(hold[w]).attempts = row[hold[w]].attempts BY <3>1, <3>2, FailureRow
        <3> QED BY <2>1, <2>5, <3>1, <3>3 DEF mark_failed, OwnedUpdate
    <2>6. ASSUME NEW a \in Approvers, ApproveWrites(a) PROVE row'[j].attempts >= row[j].attempts
        BY <2>1, <2>6 DEF ApproveWrites
    <2>7. CASE UNCHANGED row
        BY <2>1, <2>7
    <2> QED
        BY <2>2, <2>3, <2>4, <2>5, <2>6, <2>7
        DEF JobsNext, WorkerStep, claim_next_job, process, ReviewFails, snapshot, StartWorker, CrashWorker, ApproveReads
<1> QED BY <1>1, ReviewCorrect, PTL DEF JobsSpec, AttemptsOnlyGrow
=============================================================================
