--------------------------- MODULE LlmLedgerProofs ---------------------------
(***************************************************************************)
(* Proofs about LlmLedger, for every number of calls, every limit and      *)
(* every environment: what the session spends, what a replay of its events *)
(* bills, and when a finalization call or a resume goes through.           *)
(***************************************************************************)
EXTENDS LlmLedger, SumTheorems

(* The inductive invariant *)

\* Where the reservation of a call is on the books and it consumed nothing yet.
Booked == {"probing", "held", "calling", "charged", "returned"}
\* Where its budget_reserved event is durable.
Durable == {"calling", "charged", "returned", "settled", "recorded"}

\* What the log and the events say of a call.
EventsOK(c) ==
    /\ pc[c] \in InFlight => proc = "up"
    /\ pc[c] \in {"idle", "probing", "held"} => ~(c \in Logged)
    /\ pc[c] \in Durable => c \in Logged
    /\ spent[c] # 0 => c \in Logged
    /\ pc[c] \in InFlight \cup {"idle"} => terminal[c].status = "none"
    /\ terminal[c].status = "settled" => terminal[c].amount = spent[c]

\* What the provider did.
ProviderOK(c) ==
    /\ pc[c] = "calling" => spent[c] = 0
    /\ pc[c] = "returned" /\ answer[c] = "refusal" => spent[c] = 0

\* What the books say of a call while the process runs.
BooksOK(c) == proc = "up" =>
    /\ pc[c] = "idle" => book[c] = "none"
    /\ pc[c] \in Booked => book[c] = "active"
    /\ pc[c] \in {"settled", "recorded"} => book[c] \in {"settled", "uncertain", "released"}
    /\ book[c] = "settled" => bill[c] = spent[c]
    /\ book[c] = "uncertain" => bill[c] = size[c]
    /\ book[c] \in {"none", "active", "released"} => bill[c] = 0
    /\ book[c] \in {"none", "released"} => spent[c] = 0

\* No call is logged twice.
LoggedOnce == \A i, j \in DOMAIN log : log[i] = log[j] => i = j

CallsOK == \A c \in Calls : EventsOK(c) /\ ProviderOK(c) /\ BooksOK(c)

\* The part of what a call was charged that its reservation covers.
Cost == [c \in Calls |-> IF spent[c] <= size[c] THEN spent[c] ELSE size[c]]

\* What the books keep for a call, up to its reservation.
Claim == [c \in Calls |-> IF book[c] = "active" \/ size[c] < bill[c] THEN size[c]
                                                                     ELSE bill[c]]
OrdinaryClaim == [c \in Calls |-> IF prot[c] THEN 0 ELSE Claim[c]]

\* The counter is the sum of the bills, and the claims stay within the limits.
SumsOK == proc = "up" =>
    /\ used = Total(bill, Calls)
    /\ Total(Claim, Calls) <= Limit
    /\ Total(OrdinaryClaim, Calls) <= Limit - Protected

CostBounded == Total(Cost, Calls) <= Limit

\* What the replay bills for the calls of S, and for the ordinary ones.
Due(S)         == [c \in Calls |-> IF c \in S THEN RestoredBill(c) ELSE 0]
OrdinaryDue(S) == [c \in Calls |-> IF c \in S /\ ~prot[c] THEN RestoredBill(c) ELSE 0]

\* The first k calls of the log.
First(k) == {log[i] : i \in 1..k}

GentleEnv == env.threads = 1 /\ ~env.overruns /\ ~env.refusals /\ ~env.emitFaults

\* One call at a time, served within its reservation; outside of a call, the
\* books say what a replay would.
GentleOK(c) == GentleEnv =>
    /\ spent[c] <= size[c]
    /\ proc = "up" /\ c \in Logged /\ ~(pc[c] \in InFlight) =>
          bill[c] = RestoredBill(c) /\ book[c] # "active"
    /\ pc[c] = "returned" => answer[c] # "refusal"
    /\ proc = "up" /\ pc[c] \in {"settled", "recorded"} => book[c] # "released"

OneAtATime == env.threads = 1 =>
    \A c, d \in Calls : pc[c] \in InFlight /\ pc[d] \in InFlight => c = d

\* The replay has room for each logged call after those before it.
RoomOK == GentleEnv => \A k \in 1..Len(log) :
    /\ Total(Due(First(k - 1)), Calls) + size[log[k]] <= Limit
    /\ prot[log[k]] \/ Total(OrdinaryDue(First(k - 1)), Calls) + size[log[k]]
                          <= Limit - Protected

NotRefused == GentleEnv => proc # "refused"
-----------------------------------------------------------------------------
(* Sums over all calls *)

\* Total of the model is the sum of SumTheorems.
LEMMA TotalIsSum == ASSUME NEW f, NEW S PROVE Total(f, S) = SumOver(f, S)
  BY DEF Total, SumOver

\* f gives every call a natural number.
Amounted(f) == \A c \in Calls : f[c] \in Nat

\* The calls can be summed over.
LEMMA AmountedSummable == ASSUME NEW f, Amounted(f) PROVE Summable(f, Calls)
  BY LedgerAssumption DEF Amounted, Summable

\* A total is a natural number.
LEMMA TotalType == ASSUME NEW f, Amounted(f) PROVE Total(f, Calls) \in Nat
  BY AmountedSummable, TotalIsSum, SumType

\* Totals are monotone.
LEMMA TotalMonotone ==
    ASSUME NEW f, NEW g, Amounted(f), Amounted(g), \A c \in Calls : f[c] <= g[c]
    PROVE  Total(f, Calls) <= Total(g, Calls)
<1>1. Summable(f, Calls) /\ Summable(g, Calls)
  BY AmountedSummable
<1>2. SumOver(f, Calls) <= SumOver(g, Calls)
  BY <1>1, SumMonotone
<1> QED BY <1>2, TotalIsSum

\* Equal amounts have equal totals.
LEMMA TotalSame ==
    ASSUME NEW f, NEW g, Amounted(f), \A c \in Calls : f[c] = g[c]
    PROVE  Total(f, Calls) = Total(g, Calls)
<1>1. Summable(f, Calls)
  BY AmountedSummable
<1>2. SumOver(f, Calls) = SumOver(g, Calls)
  BY <1>1, SumSame
<1> QED BY <1>2, TotalIsSum

\* Totals add up.
LEMMA TotalPlus ==
    ASSUME NEW f, NEW g, NEW h, Amounted(f), Amounted(g),
           \A c \in Calls : h[c] = f[c] + g[c]
    PROVE  Total(h, Calls) = Total(f, Calls) + Total(g, Calls)
<1>1. Summable(f, Calls) /\ Summable(g, Calls)
  BY AmountedSummable
<1>2. SumOver(h, Calls) = SumOver(f, Calls) + SumOver(g, Calls)
  BY <1>1, SumPlus
<1> QED BY <1>2, TotalIsSum

\* The total over some calls is that of what the others do not contribute to.
LEMMA TotalPart ==
    ASSUME NEW f, NEW g, NEW T, T \subseteq Calls, Amounted(g),
           \A c \in T : f[c] = g[c], \A c \in Calls \ T : g[c] = 0
    PROVE  Total(f, T) = Total(g, Calls)
<1>1. Summable(g, Calls)
  BY AmountedSummable
<1>2. SumOver(f, T) = SumOver(g, Calls)
  BY <1>1, SumPart
<1> QED BY <1>2, TotalIsSum

\* A change of one amount changes the total by as much.
LEMMA TotalChange ==
    ASSUME NEW f, NEW g, Amounted(f), Amounted(g), NEW c \in Calls,
           \A d \in Calls : d # c => f[d] = g[d]
    PROVE  Total(g, Calls) = (Total(f, Calls) - f[c]) + g[c]
<1>1. Summable(f, Calls) /\ Summable(g, Calls)
  BY AmountedSummable
<1>2. SumOver(g, Calls) = (SumOver(f, Calls) - f[c]) + g[c]
  BY <1>1, SumChange
<1> QED BY <1>2, TotalIsSum

\* Nothing adds up to nothing.
LEMMA TotalZero ==
    ASSUME NEW f, \A c \in Calls : f[c] = 0
    PROVE  Total(f, Calls) = 0
<1>1. Amounted(f)
  BY DEF Amounted
<1>2. Total(f, {}) = Total(f, Calls)
  BY <1>1, TotalPart
<1>3. SumOver(f, {}) = 0
  BY SumEmpty
<1> QED BY <1>2, <1>3, TotalIsSum

-----------------------------------------------------------------------------
(* The replay *)

Accounts == [used : Nat, ordinary : Nat, ok : BOOLEAN]
Opening  == [used |-> 0, ordinary |-> 0, ok |-> TRUE]

\* What the replay reads of the state.
ReplayTypeOK ==
    /\ size \in [Calls -> Nat] /\ prot \in [Calls -> BOOLEAN]
    /\ log \in Seq(Calls)
    /\ terminal \in [Calls -> [status : {"none", "settled", "uncertain"},
                               amount : Nat]]

\* A replay bills a natural number.
LEMMA RestoredBillType ==
    ASSUME ReplayTypeOK, NEW c \in Calls
    PROVE  RestoredBill(c) \in Nat /\ size[c] \in Nat
  BY DEF ReplayTypeOK, RestoredBill

\* What one turn of the replay loop does to the accounts.
LEMMA ReplayCallType ==
    ASSUME ReplayTypeOK, NEW acc \in Accounts, NEW c \in Calls
    PROVE  /\ ReplayCall(acc, c) \in Accounts
           /\ ReplayCall(acc, c).used = acc.used + RestoredBill(c)
           /\ ReplayCall(acc, c).ordinary = IF prot[c] THEN acc.ordinary
                                            ELSE acc.ordinary + RestoredBill(c)
  BY RestoredBillType DEF ReplayCall, Accounts

\* FoldLeft takes the last call of the log off, and goes on with the rest.
LEMMA ReplayUnfolds ==
    ASSUME NEW N, DOMAIN log = 1..N
    PROVE  Replay = (CHOOSE g : g = [s \in SUBSET (1..N) |->
                       IF s = {} THEN Opening
                                 ELSE ReplayCall(g[s \ {Max(s)}], log[Max(s)])])[1..N]
  BY DEF Replay, FoldLeft, MapThenFoldSet, Opening

\* Such a function exists, so the one chosen is one.
LEMMA ReplayFunctionExists ==
    ASSUME ReplayTypeOK, NEW N \in Nat, DOMAIN log = 1..N
    PROVE  \E g : g = [s \in SUBSET (1..N) |->
                         IF s = {} THEN Opening
                                   ELSE ReplayCall(g[s \ {Max(s)}], log[Max(s)])]
<1> DEFINE S == 1..N
           pick == [s \in (SUBSET S) \ {{}} |-> Max(s)]
           step == [iv \in S \X Accounts |-> ReplayCall(iv[2], log[iv[1]])]
<1>0. IsFiniteSet(S) /\ Opening \in Accounts
  BY FS_Interval DEF Opening, Accounts
<1>1. \A s \in (SUBSET S) \ {{}} : Max(s) \in s
  BY MaxOfInterval
<1>2. pick \in Picks(S)
  BY <1>1 DEF Picks
<1>3. \A i \in S : log[i] \in Calls
  BY DEF ReplayTypeOK
<1>4. step \in [S \X Accounts -> Accounts]
  BY <1>3, ReplayCallType
<1>5. PICK g \in [SUBSET S -> Accounts] :
         \A s \in SUBSET S : Unfolds(g, s, Opening, pick, step)
  <2> HIDE DEF pick, step, S
  <2>1. \E g \in [SUBSET S -> Accounts] :
           \A s \in SUBSET S : Unfolds(g, s, Opening, pick, step)
    BY ONLY <1>0, <1>2, <1>4, RecursionExists
  <2> QED BY <2>1
<1>6. ASSUME NEW s \in SUBSET S
      PROVE  g[s] = IF s = {} THEN Opening
                              ELSE ReplayCall(g[s \ {Max(s)}], log[Max(s)])
  <2>1. CASE s = {}
    BY <1>5, <2>1 DEF Unfolds
  <2>2. CASE s # {}
    <3> DEFINE v == g[s \ {Max(s)}]
    <3>1. pick[s] = Max(s) /\ Max(s) \in S /\ v \in Accounts
      BY <1>1, <1>5, <2>2
    <3>2. step[<<pick[s], g[s \ {pick[s]}]>>] = step[<<Max(s), v>>]
      <4> HIDE DEF step, pick
      <4> QED BY <3>1
    <3>3. step[<<Max(s), v>>] = ReplayCall(v, log[Max(s)])
      <4> HIDE DEF v
      <4>1. <<Max(s), v>> \in S \X Accounts
        BY <3>1
      <4> QED BY <4>1
    <3>4. g[s] = step[<<pick[s], g[s \ {pick[s]}]>>]
      <4> HIDE DEF step, pick
      <4> QED BY <1>5, <2>2 DEF Unfolds
    <3> QED BY <2>2, <3>2, <3>3, <3>4
  <2> QED BY <2>1, <2>2
<1>7. g = [s \in SUBSET S |-> IF s = {} THEN Opening
                              ELSE ReplayCall(g[s \ {Max(s)}], log[Max(s)])]
  <2> DEFINE h == [s \in SUBSET S |-> IF s = {} THEN Opening
                              ELSE ReplayCall(g[s \ {Max(s)}], log[Max(s)])]
  <2>1. \A s \in SUBSET S : g[s] = h[s]
    BY <1>6
  <2> QED BY <1>5, <2>1
<1> QED BY <1>7

\* The accounts after each call of the log.
Runs(r, N) ==
    /\ r \in [0..N -> Accounts]
    /\ r[0] = Opening
    /\ \A k \in 1..N : r[k] = ReplayCall(r[k - 1], log[k])

\* The replay is a run of the loop over the log.
LEMMA ReplayRuns ==
    ASSUME ReplayTypeOK, NEW N \in Nat, DOMAIN log = 1..N
    PROVE  \E r : Runs(r, N) /\ Replay = r[N]
<1> DEFINE D(g) == [s \in SUBSET (1..N) |->
                      IF s = {} THEN Opening
                                ELSE ReplayCall(g[s \ {Max(s)}], log[Max(s)])]
           it == CHOOSE g : g = D(g)
           r  == [k \in 0..N |-> it[1..k]]
<1>1. Replay = it[1..N]
  BY ReplayUnfolds
<1>2. it = D(it)
  <2>1. \E g : g = D(g)
    BY ReplayFunctionExists
  <2> HIDE DEF D
  <2> QED BY <2>1
<1> HIDE DEF it
<1>3. r[0] = Opening
  <2>1. 1..0 = {} /\ {} \in SUBSET (1..N)
    OBVIOUS
  <2>2. it[{}] = Opening
    BY <1>2, <2>1
  <2> QED BY <2>1, <2>2
<1>4. ASSUME NEW k \in 1..N
      PROVE  r[k] = ReplayCall(r[k - 1], log[k])
  <2>1. /\ 1..k \in SUBSET (1..N) /\ 1..k # {} /\ (1..k) \ {k} = 1..(k - 1)
        /\ k \in 0..N /\ k - 1 \in 0..N
    OBVIOUS
  <2>2. Max(1..k) = k
    <3>1. Max(1..k) \in 1..k /\ \A x \in 1..k : x <= Max(1..k)
      BY <2>1, MaxOfInterval
    <3> QED BY <3>1
  <2>3. it[1..k] = ReplayCall(it[(1..k) \ {Max(1..k)}], log[Max(1..k)])
    BY <1>2, <2>1
  <2> QED BY <2>1, <2>2, <2>3
<1>5. r \in [0..N -> Accounts]
  <2> DEFINE A == {k \in 0..N : r[k] \in Accounts}
  <2>1. 0 \in A
    <3>1. Opening \in Accounts
      BY DEF Opening, Accounts
    <3> HIDE DEF r
    <3> QED BY <1>3, <3>1
  <2>2. ASSUME NEW k \in 1..N, k - 1 \in A PROVE k \in A
    <3>1. r[k - 1] \in Accounts /\ log[k] \in Calls /\ k \in 0..N
      BY <2>2 DEF ReplayTypeOK
    <3> HIDE DEF r
    <3> QED BY <1>4, <3>1, ReplayCallType
  <2>3. 0..N \subseteq A
    <3> HIDE DEF A
    <3> QED BY <2>1, <2>2, IntervalInduction
  <2> QED BY <2>3
<1>6. Runs(r, N) /\ Replay = r[N]
  <2>1. N \in 0..N /\ Replay = r[N]
    BY <1>1
  <2> HIDE DEF r
  <2> QED BY <1>3, <1>4, <1>5, <2>1 DEF Runs
<1> HIDE DEF r
<1> QED BY <1>6

\* What is due is an amount per call.
LEMMA DueType ==
    ASSUME ReplayTypeOK, NEW S
    PROVE  Amounted(Due(S)) /\ Amounted(OrdinaryDue(S))
  BY RestoredBillType DEF Amounted, Due, OrdinaryDue

\* The next call of the log adds its bill.
LEMMA DueStep ==
    ASSUME ReplayTypeOK, LoggedOnce, NEW k \in 1..Len(log)
    PROVE  /\ Total(Due(First(k)), Calls)
                = Total(Due(First(k - 1)), Calls) + RestoredBill(log[k])
           /\ Total(OrdinaryDue(First(k)), Calls)
                = IF prot[log[k]] THEN Total(OrdinaryDue(First(k - 1)), Calls)
                  ELSE Total(OrdinaryDue(First(k - 1)), Calls) + RestoredBill(log[k])
<1>1. log[k] \in Calls /\ DOMAIN log = 1..Len(log)
  BY DEF ReplayTypeOK
<1>2. ~(log[k] \in First(k - 1)) /\ First(k) = First(k - 1) \cup {log[k]}
  BY <1>1 DEF First, LoggedOnce
<1>3. \A S : Amounted(Due(S)) /\ Amounted(OrdinaryDue(S))
  BY DueType
<1>4. /\ \A d \in Calls : d # log[k] => Due(First(k - 1))[d] = Due(First(k))[d]
      /\ Due(First(k - 1))[log[k]] = 0 /\ Due(First(k))[log[k]] = RestoredBill(log[k])
  BY <1>1, <1>2 DEF Due
<1>5. /\ \A d \in Calls : d # log[k] =>
                OrdinaryDue(First(k - 1))[d] = OrdinaryDue(First(k))[d]
      /\ OrdinaryDue(First(k - 1))[log[k]] = 0
      /\ OrdinaryDue(First(k))[log[k]] = IF prot[log[k]] THEN 0 ELSE RestoredBill(log[k])
  BY <1>1, <1>2 DEF OrdinaryDue
<1>6. RestoredBill(log[k]) \in Nat /\ \A f : Amounted(f) => Total(f, Calls) \in Nat
  BY <1>1, RestoredBillType, TotalType
<1>7. Total(Due(First(k)), Calls)
        = (Total(Due(First(k - 1)), Calls) - Due(First(k - 1))[log[k]]) + Due(First(k))[log[k]]
  BY <1>1, <1>3, <1>4, TotalChange
<1>8. Total(OrdinaryDue(First(k)), Calls)
        = (Total(OrdinaryDue(First(k - 1)), Calls) - OrdinaryDue(First(k - 1))[log[k]])
            + OrdinaryDue(First(k))[log[k]]
  BY <1>1, <1>3, <1>5, TotalChange
<1>9. /\ Total(Due(First(k - 1)), Calls) \in Nat
      /\ Total(OrdinaryDue(First(k - 1)), Calls) \in Nat
  BY <1>3, <1>6
<1>10. Total(Due(First(k)), Calls) = Total(Due(First(k - 1)), Calls) + RestoredBill(log[k])
  BY <1>4, <1>6, <1>7, <1>9
<1>11. Total(OrdinaryDue(First(k)), Calls)
                = IF prot[log[k]] THEN Total(OrdinaryDue(First(k - 1)), Calls)
                  ELSE Total(OrdinaryDue(First(k - 1)), Calls) + RestoredBill(log[k])
  BY <1>5, <1>6, <1>8, <1>9
<1> QED BY <1>10, <1>11

\* Before the first call nothing is due.
LEMMA DueNothing ==
    Total(Due(First(0)), Calls) = 0 /\ Total(OrdinaryDue(First(0)), Calls) = 0
<1>1. First(0) = {}
  BY DEF First
<1>2. /\ \A c \in Calls : Due(First(0))[c] = 0
      /\ \A c \in Calls : OrdinaryDue(First(0))[c] = 0
  BY <1>1 DEF Due, OrdinaryDue
<1> QED BY <1>2, TotalZero

\* One turn of the replay loop.
LEMMA RunsAt ==
    ASSUME ReplayTypeOK, NEW r, Runs(r, Len(log)), NEW j \in 1..Len(log)
    PROVE  /\ r[j - 1] \in Accounts /\ log[j] \in Calls
           /\ j \in 0..Len(log) /\ j - 1 \in 0..Len(log)
           /\ r[j] = ReplayCall(r[j - 1], log[j])
<1>1. Len(log) \in Nat /\ log[j] \in Calls
  BY DEF ReplayTypeOK
<1>2. j \in 0..Len(log) /\ j - 1 \in 0..Len(log)
  BY <1>1
<1>3. r \in [0..Len(log) -> Accounts] /\ r[j] = ReplayCall(r[j - 1], log[j])
  BY DEF Runs
<1> QED BY <1>1, <1>2, <1>3

\* The accounts of the replay are sums over the calls replayed so far.
LEMMA ReplaySums ==
    ASSUME ReplayTypeOK, LoggedOnce, NEW r, Runs(r, Len(log)), NEW k \in 0..Len(log)
    PROVE  /\ r[k].used = Total(Due(First(k)), Calls)
           /\ r[k].ordinary = Total(OrdinaryDue(First(k)), Calls)
<1> DEFINE A == {j \in 0..Len(log) : /\ r[j].used = Total(Due(First(j)), Calls)
                                     /\ r[j].ordinary = Total(OrdinaryDue(First(j)), Calls)}
<1>1. Len(log) \in Nat
  BY DEF ReplayTypeOK
<1>2. 0 \in A
  BY <1>1, DueNothing DEF Runs, Opening
<1>3. ASSUME NEW j \in 1..Len(log), j - 1 \in A PROVE j \in A
  <2>1. r[j - 1] \in Accounts /\ log[j] \in Calls /\ j \in 0..Len(log)
    BY RunsAt
  <2>2. r[j] = ReplayCall(r[j - 1], log[j])
    BY RunsAt
  <2>3. /\ r[j].used = r[j - 1].used + RestoredBill(log[j])
        /\ r[j].ordinary = IF prot[log[j]] THEN r[j - 1].ordinary
                           ELSE r[j - 1].ordinary + RestoredBill(log[j])
    BY <2>1, <2>2, ReplayCallType
  <2>4. /\ r[j - 1].used = Total(Due(First(j - 1)), Calls)
        /\ r[j - 1].ordinary = Total(OrdinaryDue(First(j - 1)), Calls)
    BY <1>3
  <2> QED BY <2>1, <2>3, <2>4, DueStep
<1>4. 0..Len(log) \subseteq A
  <2> HIDE DEF A
  <2> QED BY <1>1, <1>2, <1>3, IntervalInduction
<1> QED BY <1>4

\* A replay that raised nowhere stayed within the limits.
LEMMA ReplayWithin ==
    ASSUME ReplayTypeOK, NEW r, Runs(r, Len(log)), NEW k \in 0..Len(log), r[k].ok
    PROVE  r[k].used <= Limit /\ r[k].ordinary <= Limit - Protected
<1> DEFINE Fits(j) == r[j].ok => r[j].used <= Limit /\ r[j].ordinary <= Limit - Protected
           A == {j \in 0..Len(log) : Fits(j)}
<1>1. Len(log) \in Nat /\ Limit \in Nat /\ Protected \in 0..Limit
  BY LedgerAssumption DEF ReplayTypeOK
<1>2. 0 \in A
  BY <1>1 DEF Runs, Opening
<1>3. ASSUME NEW j \in 1..Len(log), j - 1 \in A PROVE j \in A
  <2>1. r[j - 1] \in Accounts /\ log[j] \in Calls /\ j \in 0..Len(log)
    BY RunsAt
  <2>2. r[j] = ReplayCall(r[j - 1], log[j])
    BY RunsAt
  <2> DEFINE a == r[j - 1]
             c == log[j]
  <2>3. Fits(j - 1) /\ a \in Accounts /\ c \in Calls
    BY <1>3, <2>1
  <2>4. RestoredBill(c) \in Nat /\ size[c] \in Nat /\ prot[c] \in BOOLEAN
    BY <2>1, RestoredBillType DEF ReplayTypeOK
  <2>5. ~(terminal[c].status = "settled") => RestoredBill(c) = size[c]
    BY DEF RestoredBill
  <2>6. ASSUME ReplayCall(a, c).ok
        PROVE  ReplayCall(a, c).used <= Limit /\ ReplayCall(a, c).ordinary <= Limit - Protected
    <3> HIDE DEF a, c
    <3>1. /\ a.ok /\ a.used + size[c] <= Limit
          /\ prot[c] \/ a.ordinary + size[c] <= Limit - Protected
          /\ terminal[c].status = "settled" =>
                /\ a.used + RestoredBill(c) <= Limit
                /\ (IF prot[c] THEN a.ordinary ELSE a.ordinary + RestoredBill(c))
                      <= Limit - Protected
      BY <2>6 DEF ReplayCall
    <3>2. a.used \in Nat /\ a.ordinary \in Nat /\ a.ordinary <= Limit - Protected
      BY <2>3, <3>1 DEF Accounts, a
    <3>3. /\ ReplayCall(a, c).used = a.used + RestoredBill(c)
          /\ ReplayCall(a, c).ordinary = IF prot[c] THEN a.ordinary
                                         ELSE a.ordinary + RestoredBill(c)
      BY <2>3, ReplayCallType
    <3> QED BY <1>1, <2>4, <2>5, <3>1, <3>2, <3>3
  <2> QED BY <2>1, <2>2, <2>6
<1>4. 0..Len(log) \subseteq A
  <2> HIDE DEF A
  <2> QED BY <1>1, <1>2, <1>3, IntervalInduction
<1> QED BY <1>4

\* A replay that has room for each call raises nowhere.
LEMMA ReplayAccepts ==
    ASSUME ReplayTypeOK, LoggedOnce, NEW r, Runs(r, Len(log)), NEW k \in 0..Len(log),
           \A c \in Calls : RestoredBill(c) <= size[c],
           \A j \in 1..Len(log) :
              /\ Total(Due(First(j - 1)), Calls) + size[log[j]] <= Limit
              /\ prot[log[j]] \/ Total(OrdinaryDue(First(j - 1)), Calls) + size[log[j]]
                                   <= Limit - Protected
    PROVE  r[k].ok
<1> DEFINE A == {j \in 0..Len(log) : r[j].ok}
<1>1. Len(log) \in Nat /\ Limit \in Nat /\ Protected \in 0..Limit
  BY LedgerAssumption DEF ReplayTypeOK
<1>2. 0 \in A
  BY <1>1 DEF Runs, Opening
<1>3. ASSUME NEW j \in 1..Len(log), j - 1 \in A PROVE j \in A
  <2>1. r[j - 1] \in Accounts /\ log[j] \in Calls /\ j \in 0..Len(log) /\ j - 1 \in 0..Len(log)
    BY RunsAt
  <2>2. r[j] = ReplayCall(r[j - 1], log[j])
    BY RunsAt
  <2> DEFINE a == r[j - 1]
             c == log[j]
  <2>3. a.ok /\ a.ordinary <= Limit - Protected
    BY <1>3, <2>1, ReplayWithin
  <2>4. /\ RestoredBill(c) \in Nat /\ size[c] \in Nat /\ prot[c] \in BOOLEAN
        /\ RestoredBill(c) <= size[c]
    BY <2>1, RestoredBillType DEF ReplayTypeOK
  <2>5. /\ a.used + size[c] <= Limit
        /\ prot[c] \/ a.ordinary + size[c] <= Limit - Protected
    BY <2>1, ReplaySums
  <2>6. a.used \in Nat /\ a.ordinary \in Nat
    BY <2>1 DEF Accounts
  <2>7. ReplayCall(a, c).ok
    <3> HIDE DEF a, c
    <3>1. /\ a.used + RestoredBill(c) <= Limit
          /\ (IF prot[c] THEN a.ordinary ELSE a.ordinary + RestoredBill(c))
                <= Limit - Protected
      BY <1>1, <2>3, <2>4, <2>5, <2>6
    <3> QED BY <2>3, <2>5, <3>1 DEF ReplayCall
  <2> QED BY <2>1, <2>2, <2>7
<1>4. 0..Len(log) \subseteq A
  <2> HIDE DEF A
  <2> QED BY <1>1, <1>2, <1>3, IntervalInduction
<1> QED BY <1>4

\* What the replay of the whole log gives.
LEMMA ReplayResult ==
    ASSUME ReplayTypeOK, LoggedOnce
    PROVE  /\ Replay.used \in Nat /\ Replay.ok \in BOOLEAN
           /\ Replay.used = Total(Due(Logged), Calls)
           /\ Replay.ok => /\ Total(Due(Logged), Calls) <= Limit
                           /\ Total(OrdinaryDue(Logged), Calls) <= Limit - Protected
<1>1. Len(log) \in Nat /\ DOMAIN log = 1..Len(log) /\ Len(log) \in 0..Len(log)
  BY DEF ReplayTypeOK
<1>2. PICK r : Runs(r, Len(log)) /\ Replay = r[Len(log)]
  BY <1>1, ReplayRuns
<1>3. First(Len(log)) = Logged
  BY <1>1 DEF First, Logged, Range
<1>4. Replay \in Accounts
  BY <1>1, <1>2 DEF Runs
<1>5. /\ Replay.used = Total(Due(Logged), Calls)
      /\ Replay.ordinary = Total(OrdinaryDue(Logged), Calls)
  BY <1>1, <1>2, <1>3, ReplaySums
<1>6. Replay.ok => Replay.used <= Limit /\ Replay.ordinary <= Limit - Protected
  BY <1>1, <1>2, ReplayWithin
<1> QED BY <1>4, <1>5, <1>6 DEF Accounts

-----------------------------------------------------------------------------
(* Types, and what holds of each call *)

\* The type invariant covers what the replay reads.
LEMMA TypeReplay == ASSUME TypeOK PROVE ReplayTypeOK
  BY DEF TypeOK, ReplayTypeOK

\* The log grows at its end, by a call that was not in it.
LEMMA LoggedAppend ==
    ASSUME log \in Seq(Calls), NEW c \in Calls, log' = Append(log, c)
    PROVE  /\ Logged' = Logged \cup {c} /\ log' \in Seq(Calls)
           /\ Len(log') = Len(log) + 1 /\ log'[Len(log) + 1] = c
           /\ \A i \in 1..Len(log) : log'[i] = log[i]
<1>1. /\ log' \in Seq(Calls) /\ Len(log') = Len(log) + 1 /\ log'[Len(log) + 1] = c
      /\ \A i \in 1..Len(log) : log'[i] = log[i]
      /\ DOMAIN log = 1..Len(log) /\ DOMAIN log' = 1..(Len(log) + 1) /\ Len(log) \in Nat
  OBVIOUS
<1>2. Logged' = Logged \cup {c}
  BY <1>1 DEF Logged, Range
<1> QED BY <1>1, <1>2

\* Every step keeps the types; a terminal event names a settlement.
LEMMA TypeStep ==
    ASSUME TypeOK, CallsOK, [Next]_vars, LoggedOnce
    PROVE  TypeOK'
<1> USE LedgerAssumption DEF Places, InFlight, Books, Answers
<1>1. ASSUME NEW c \in Calls, NEW n \in Amounts, NEW p \in BOOLEAN,
             NEW place \in {"held", "probing"}, Reserve(c, n, p, place)
      PROVE  TypeOK'
  BY <1>1 DEF Reserve, Goto, memory, events, TypeOK
<1>2. ASSUME NEW c \in Calls, NEW n \in Amounts, NEW p \in BOOLEAN, Reject(c, n, p)
      PROVE  TypeOK'
  BY <1>2 DEF Reject, Goto, memory, events, TypeOK
<1>3. ASSUME NEW c \in Calls, PreflightRelease(c)
      PROVE  TypeOK'
  BY <1>3 DEF PreflightRelease, Goto, memory, events, TypeOK
<1>4. ASSUME NEW c \in Calls, EmitReserved(c)
      PROVE  TypeOK'
  <2>1. log' \in Seq(Calls)
    <3>1. log \in Seq(Calls) /\ log' \in {log, Append(log, c)}
      BY <1>4 DEF EmitReserved, TypeOK
    <3> QED BY <3>1
  <2>2. book' \in [Calls -> Books]
    BY <1>4 DEF EmitReserved, TypeOK
  <2>3. pc' \in [Calls -> Places]
    <3>1. pc' = [pc EXCEPT ![c] = "calling"] \/ pc' = [pc EXCEPT ![c] = "failed"]
      BY <1>4 DEF EmitReserved, Goto
    <3> QED BY <3>1 DEF TypeOK
  <2> QED BY <1>4, <2>1, <2>2, <2>3 DEF EmitReserved, TypeOK
<1>5. ASSUME NEW c \in Calls, NEW n \in Amounts, Charge(c, n)
      PROVE  TypeOK'
  BY <1>5 DEF Charge, Goto, memory, events, TypeOK
<1>6. ASSUME NEW c \in Calls, Answer(c)
      PROVE  TypeOK'
  BY <1>6 DEF Answer, Goto, memory, events, TypeOK
<1>7. ASSUME NEW c \in Calls, Settle(c)
      PROVE  TypeOK'
  <2>1. book' \in [Calls -> Books]
    BY <1>7 DEF Settle, Consume, TypeOK
  <2>2. bill' \in [Calls -> Nat] /\ used' \in Nat
    BY <1>7 DEF Settle, Consume, TypeOK
  <2>3. pc' \in [Calls -> Places]
    BY <1>7 DEF Settle, Goto, TypeOK
  <2> QED BY <1>7, <2>1, <2>2, <2>3 DEF Settle, events, TypeOK
<1>8. ASSUME NEW c \in Calls, Record(c)
      PROVE  TypeOK'
  BY <1>8 DEF Record, Goto, memory, events, TypeOK
<1>9. ASSUME NEW c \in Calls, RecordBudgetTerminal(c)
      PROVE  TypeOK'
  <2>1. book[c] \in {"settled", "uncertain", "released"}
    BY <1>9 DEF RecordBudgetTerminal, CallsOK, EventsOK, BooksOK
  <2>2. terminal' \in [Calls -> [status : {"none", "settled", "uncertain"}, amount : Nat]]
    <3>1. terminal' = terminal \/ terminal' =
             [terminal EXCEPT ![c] = [status |-> book[c], amount |-> bill[c]]]
      BY <1>9 DEF RecordBudgetTerminal
    <3>2. book[c] # "released" => [status |-> book[c], amount |-> bill[c]]
               \in [status : {"none", "settled", "uncertain"}, amount : Nat]
      BY <2>1 DEF TypeOK
    <3>3. terminal' = terminal \/ book[c] # "released"
      BY <1>9 DEF RecordBudgetTerminal
    <3>4. terminal \in [Calls -> [status : {"none", "settled", "uncertain"}, amount : Nat]]
      BY DEF TypeOK
    <3> QED BY <3>1, <3>2, <3>3, <3>4
  <2>3. pc' \in [Calls -> Places]
    <3>1. pc' = [pc EXCEPT ![c] = "done"] \/ pc' = [pc EXCEPT ![c] = "failed"]
      BY <1>9 DEF RecordBudgetTerminal, Goto
    <3> QED BY <3>1 DEF TypeOK
  <2> QED BY <1>9, <2>2, <2>3 DEF RecordBudgetTerminal, memory, TypeOK
<1>10. ASSUME Crash
      PROVE  TypeOK'
  BY <1>10 DEF Crash, Goto, memory, events, TypeOK
<1>11. ASSUME Restore
      PROVE  TypeOK'
  <2>1. Replay.used \in Nat
    BY TypeReplay, ReplayResult
  <2>2. \A c \in Calls : RestoredBill(c) \in Nat
    BY TypeReplay, RestoredBillType
  <2> QED BY <1>11, <2>1, <2>2 DEF Restore, events, TypeOK
<1>12. ASSUME UNCHANGED vars
      PROVE  TypeOK'
  BY <1>12 DEF vars, memory, events, TypeOK
<1> QED BY <1>1, <1>2, <1>3, <1>4, <1>5, <1>6, <1>7, <1>8, <1>9, <1>10, <1>11, <1>12
        DEF Next, CallStep, ReserveCall, PreflightReserve

\* What the log and the events say of a call stays true.
LEMMA EventsStep ==
    ASSUME TypeOK, NEW d \in Calls, EventsOK(d), ProviderOK(d), BooksOK(d), [Next]_vars
    PROVE  EventsOK(d)'
<1> USE LedgerAssumption DEF InFlight
<1>1. ASSUME NEW c \in Calls, NEW n \in Amounts, NEW p \in BOOLEAN,
             NEW place \in {"held", "probing"}, Reserve(c, n, p, place)
      PROVE  EventsOK(d)'
  BY <1>1 DEF Reserve, Goto, memory, events, TypeOK, EventsOK, ProviderOK, BooksOK,
     Logged, Durable
<1>2. ASSUME NEW c \in Calls, NEW n \in Amounts, NEW p \in BOOLEAN, Reject(c, n, p)
      PROVE  EventsOK(d)'
  BY <1>2 DEF Reject, Goto, memory, events, TypeOK, EventsOK, ProviderOK, BooksOK,
     Logged, Durable
<1>3. ASSUME NEW c \in Calls, PreflightRelease(c)
      PROVE  EventsOK(d)'
  BY <1>3 DEF PreflightRelease, Goto, memory, events, TypeOK, EventsOK, ProviderOK,
     BooksOK, Logged, Durable
<1>4. ASSUME NEW c \in Calls, EmitReserved(c)
      PROVE  EventsOK(d)'
  <2>1. Logged' \in {Logged, Logged \cup {c}}
    <3>1. log' = log \/ log' = Append(log, c)
      BY <1>4 DEF EmitReserved
    <3> QED BY <3>1, LoggedAppend DEF TypeOK, Logged
  <2>2. log' = Append(log, c) => Logged' = Logged \cup {c}
    BY LoggedAppend DEF TypeOK
  <2> QED BY <1>4, <2>1, <2>2 DEF EmitReserved, Goto, TypeOK, EventsOK, Durable
<1>5. ASSUME NEW c \in Calls, NEW n \in Amounts, Charge(c, n)
      PROVE  EventsOK(d)'
  BY <1>5 DEF Charge, Goto, memory, events, TypeOK, EventsOK, ProviderOK, BooksOK,
     Logged, Durable
<1>6. ASSUME NEW c \in Calls, Answer(c)
      PROVE  EventsOK(d)'
  BY <1>6 DEF Answer, Goto, memory, events, TypeOK, EventsOK, ProviderOK, BooksOK,
     Logged, Durable
<1>7. ASSUME NEW c \in Calls, Settle(c)
      PROVE  EventsOK(d)'
  BY <1>7 DEF Settle, Consume, Goto, memory, events, TypeOK, EventsOK, ProviderOK,
     BooksOK, Logged, Durable
<1>8. ASSUME NEW c \in Calls, Record(c)
      PROVE  EventsOK(d)'
  BY <1>8 DEF Record, Goto, memory, events, TypeOK, EventsOK, ProviderOK, BooksOK,
     Logged, Durable
<1>9. ASSUME NEW c \in Calls, RecordBudgetTerminal(c)
      PROVE  EventsOK(d)'
  BY <1>9 DEF RecordBudgetTerminal, Goto, memory, events, TypeOK, EventsOK, ProviderOK,
     BooksOK, Logged, Durable
<1>10. ASSUME Crash
      PROVE  EventsOK(d)'
  BY <1>10 DEF Crash, Goto, memory, events, TypeOK, EventsOK, ProviderOK, BooksOK,
     Logged, Durable
<1>11. ASSUME Restore
      PROVE  EventsOK(d)'
  BY <1>11 DEF Restore, Goto, memory, events, TypeOK, EventsOK, ProviderOK, BooksOK,
     Logged, Durable
<1>12. ASSUME UNCHANGED vars
      PROVE  EventsOK(d)'
  BY <1>12 DEF vars, memory, events, TypeOK, EventsOK, ProviderOK, BooksOK, Logged, Durable
<1> QED BY <1>1, <1>2, <1>3, <1>4, <1>5, <1>6, <1>7, <1>8, <1>9, <1>10, <1>11, <1>12
        DEF Next, CallStep, ReserveCall, PreflightReserve

\* A call that was refused, or not served yet, was not charged.
LEMMA ProviderStep ==
    ASSUME TypeOK, NEW d \in Calls, EventsOK(d), ProviderOK(d), BooksOK(d), [Next]_vars
    PROVE  ProviderOK(d)'
<1> USE LedgerAssumption DEF InFlight
<1>1. ASSUME NEW c \in Calls, NEW n \in Amounts, NEW p \in BOOLEAN,
             NEW place \in {"held", "probing"}, Reserve(c, n, p, place)
      PROVE  ProviderOK(d)'
  BY <1>1 DEF Reserve, Goto, memory, events, TypeOK, EventsOK, ProviderOK
<1>2. ASSUME NEW c \in Calls, NEW n \in Amounts, NEW p \in BOOLEAN, Reject(c, n, p)
      PROVE  ProviderOK(d)'
  BY <1>2 DEF Reject, Goto, memory, events, TypeOK, EventsOK, ProviderOK
<1>3. ASSUME NEW c \in Calls, PreflightRelease(c)
      PROVE  ProviderOK(d)'
  BY <1>3 DEF PreflightRelease, Goto, memory, events, TypeOK, EventsOK, ProviderOK
<1>4. ASSUME NEW c \in Calls, EmitReserved(c)
      PROVE  ProviderOK(d)'
  BY <1>4 DEF EmitReserved, Goto, memory, events, TypeOK, EventsOK, ProviderOK
<1>5. ASSUME NEW c \in Calls, NEW n \in Amounts, Charge(c, n)
      PROVE  ProviderOK(d)'
  BY <1>5 DEF Charge, Goto, memory, events, TypeOK, EventsOK, ProviderOK
<1>6. ASSUME NEW c \in Calls, Answer(c)
      PROVE  ProviderOK(d)'
  BY <1>6 DEF Answer, Goto, memory, events, TypeOK, EventsOK, ProviderOK
<1>7. ASSUME NEW c \in Calls, Settle(c)
      PROVE  ProviderOK(d)'
  BY <1>7 DEF Settle, Consume, Goto, memory, events, TypeOK, EventsOK, ProviderOK
<1>8. ASSUME NEW c \in Calls, Record(c)
      PROVE  ProviderOK(d)'
  BY <1>8 DEF Record, Goto, memory, events, TypeOK, EventsOK, ProviderOK
<1>9. ASSUME NEW c \in Calls, RecordBudgetTerminal(c)
      PROVE  ProviderOK(d)'
  BY <1>9 DEF RecordBudgetTerminal, Goto, memory, events, TypeOK, EventsOK, ProviderOK
<1>10. ASSUME Crash
      PROVE  ProviderOK(d)'
  BY <1>10 DEF Crash, Goto, memory, events, TypeOK, EventsOK, ProviderOK
<1>11. ASSUME Restore
      PROVE  ProviderOK(d)'
  BY <1>11 DEF Restore, Goto, memory, events, TypeOK, EventsOK, ProviderOK
<1>12. ASSUME UNCHANGED vars
      PROVE  ProviderOK(d)'
  BY <1>12 DEF vars, memory, events, TypeOK, EventsOK, ProviderOK
<1> QED BY <1>1, <1>2, <1>3, <1>4, <1>5, <1>6, <1>7, <1>8, <1>9, <1>10, <1>11, <1>12
        DEF Next, CallStep, ReserveCall, PreflightReserve

\* The books keep agreeing with where the call is and what it was charged.
LEMMA BooksStep ==
    ASSUME TypeOK, NEW d \in Calls, EventsOK(d), ProviderOK(d), BooksOK(d), [Next]_vars
    PROVE  BooksOK(d)'
<1> USE LedgerAssumption DEF InFlight
<1>1. ASSUME NEW c \in Calls, NEW n \in Amounts, NEW p \in BOOLEAN,
             NEW place \in {"held", "probing"}, Reserve(c, n, p, place)
      PROVE  BooksOK(d)'
  BY <1>1 DEF Reserve, Goto, memory, events, TypeOK, EventsOK, ProviderOK, BooksOK, Booked
<1>2. ASSUME NEW c \in Calls, NEW n \in Amounts, NEW p \in BOOLEAN, Reject(c, n, p)
      PROVE  BooksOK(d)'
  BY <1>2 DEF Reject, Goto, memory, events, TypeOK, EventsOK, ProviderOK, BooksOK, Booked
<1>3. ASSUME NEW c \in Calls, PreflightRelease(c)
      PROVE  BooksOK(d)'
  BY <1>3 DEF PreflightRelease, Goto, memory, events, TypeOK, EventsOK, ProviderOK,
     BooksOK, Booked
<1>4. ASSUME NEW c \in Calls, EmitReserved(c)
      PROVE  BooksOK(d)'
  BY <1>4 DEF EmitReserved, Goto, memory, events, TypeOK, EventsOK, ProviderOK, BooksOK,
     Booked
<1>5. ASSUME NEW c \in Calls, NEW n \in Amounts, Charge(c, n)
      PROVE  BooksOK(d)'
  BY <1>5 DEF Charge, Goto, memory, events, TypeOK, EventsOK, ProviderOK, BooksOK, Booked
<1>6. ASSUME NEW c \in Calls, Answer(c)
      PROVE  BooksOK(d)'
  BY <1>6 DEF Answer, Goto, memory, events, TypeOK, EventsOK, ProviderOK, BooksOK, Booked
<1>7. ASSUME NEW c \in Calls, Settle(c)
      PROVE  BooksOK(d)'
  BY <1>7 DEF Settle, Consume, Goto, memory, events, TypeOK, EventsOK, ProviderOK,
     BooksOK, Booked
<1>8. ASSUME NEW c \in Calls, Record(c)
      PROVE  BooksOK(d)'
  BY <1>8 DEF Record, Goto, memory, events, TypeOK, EventsOK, ProviderOK, BooksOK, Booked
<1>9. ASSUME NEW c \in Calls, RecordBudgetTerminal(c)
      PROVE  BooksOK(d)'
  BY <1>9 DEF RecordBudgetTerminal, Goto, memory, events, TypeOK, EventsOK, ProviderOK,
     BooksOK, Booked
<1>10. ASSUME Crash
      PROVE  BooksOK(d)'
  BY <1>10 DEF Crash, Goto, memory, events, TypeOK, EventsOK, ProviderOK, BooksOK, Booked
<1>11. ASSUME Restore
      PROVE  BooksOK(d)'
  <2>1. ~(pc[d] \in InFlight) /\ pc' = pc /\ spent' = spent /\ size' = size
    BY <1>11 DEF Restore, EventsOK
  <2>2. CASE ~(d \in Logged)
    <3>1. book'[d] = "none" /\ bill'[d] = 0
      BY <1>11, <2>2 DEF Restore
    <3> QED BY <2>1, <2>2, <3>1 DEF EventsOK, BooksOK, Booked
  <2>3. CASE d \in Logged
    <3>1. /\ bill'[d] = RestoredBill(d)
          /\ book'[d] = IF terminal[d].status = "settled" THEN "settled" ELSE "uncertain"
      BY <1>11, <2>3 DEF Restore
    <3>2. pc[d] # "idle"
      BY <2>3 DEF EventsOK
    <3> QED BY <2>1, <3>1, <3>2 DEF EventsOK, BooksOK, Booked, RestoredBill
  <2> QED BY <2>2, <2>3
<1>12. ASSUME UNCHANGED vars
      PROVE  BooksOK(d)'
  BY <1>12 DEF vars, memory, events, TypeOK, EventsOK, ProviderOK, BooksOK, Booked
<1> QED BY <1>1, <1>2, <1>3, <1>4, <1>5, <1>6, <1>7, <1>8, <1>9, <1>10, <1>11, <1>12
        DEF Next, CallStep, ReserveCall, PreflightReserve

\* A call is logged once: it is not in the log when its reservation is recorded.
LEMMA LoggedOnceStep ==
    ASSUME TypeOK, CallsOK, LoggedOnce, [Next]_vars
    PROVE  LoggedOnce'
<1>1. CASE UNCHANGED log
  BY <1>1 DEF LoggedOnce
<1>2. ASSUME NEW c \in Calls, pc[c] = "held", log' = Append(log, c)
      PROVE  LoggedOnce'
  <2>1. /\ Len(log) \in Nat /\ DOMAIN log = 1..Len(log) /\ DOMAIN log' = 1..(Len(log) + 1)
        /\ log'[Len(log) + 1] = c /\ \A i \in 1..Len(log) : log'[i] = log[i]
    BY <1>2 DEF TypeOK
  <2>2. \A i \in 1..Len(log) : log[i] # c
    BY <1>2, <2>1 DEF CallsOK, EventsOK, Logged, Range
  <2> QED BY <2>1, <2>2 DEF LoggedOnce
<1>3. ASSUME NEW c \in Calls, CallStep(c)
      PROVE  UNCHANGED log \/ (pc[c] = "held" /\ log' = Append(log, c))
  BY <1>3 DEF CallStep, ReserveCall, PreflightReserve, Reserve, Reject, PreflightRelease,
     EmitReserved, Charge, Answer, Settle, Record, RecordBudgetTerminal, events
<1>4. Crash \/ Restore \/ UNCHANGED vars => UNCHANGED log
  BY DEF Crash, Restore, vars, events
<1> QED BY <1>1, <1>2, <1>3, <1>4 DEF Next

-----------------------------------------------------------------------------
(* The books *)

\* What the books hold for a call in flight, split as the code splits it.
HeldSize        == [c \in Calls |-> IF book[c] = "active" THEN size[c] ELSE 0]
OrdinaryBill    == [c \in Calls |-> IF prot[c] THEN 0 ELSE bill[c]]
ProtectedBill   == [c \in Calls |-> IF prot[c] THEN bill[c] ELSE 0]
OrdinarySize    == [c \in Calls |-> IF prot[c] THEN 0 ELSE HeldSize[c]]
ProtectedSize   == [c \in Calls |-> IF prot[c] THEN HeldSize[c] ELSE 0]

\* What the books keep are amounts.
LEMMA BookAmounts ==
    ASSUME TypeOK
    PROVE  /\ Amounted(bill) /\ Amounted(HeldSize) /\ Amounted(OrdinaryBill)
           /\ Amounted(ProtectedBill) /\ Amounted(OrdinarySize) /\ Amounted(ProtectedSize)
           /\ Amounted(Claim) /\ Amounted(OrdinaryClaim)
<1>1. Amounted(bill) /\ Amounted(HeldSize)
  BY DEF TypeOK, Amounted, HeldSize
<1>2. Amounted(OrdinaryBill) /\ Amounted(ProtectedBill)
  BY DEF TypeOK, Amounted, OrdinaryBill, ProtectedBill
<1>3. Amounted(OrdinarySize) /\ Amounted(ProtectedSize)
  BY <1>1 DEF TypeOK, Amounted, OrdinarySize, ProtectedSize
<1>4. Amounted(Claim)
  BY DEF TypeOK, Amounted, Claim
<1>5. Amounted(OrdinaryClaim)
  BY <1>4 DEF TypeOK, Amounted, OrdinaryClaim
<1> QED BY <1>1, <1>2, <1>3, <1>4, <1>5

\* The sums of the code, as totals over all calls.
LEMMA BookTotals ==
    ASSUME TypeOK
    PROVE  /\ Held = Total(HeldSize, Calls)
           /\ OrdinaryHeld = Total(OrdinarySize, Calls)
           /\ ProtectedBilled = Total(ProtectedBill, Calls)
           /\ Total(size, Active \cap ProtectedSet) = Total(ProtectedSize, Calls)
           /\ Total(bill, Calls) = Total(OrdinaryBill, Calls) + Total(ProtectedBill, Calls)
           /\ Total(HeldSize, Calls) = Total(OrdinarySize, Calls) + Total(ProtectedSize, Calls)
<1> USE BookAmounts
<1>1. Held = Total(HeldSize, Calls)
  <2>1. /\ Active \subseteq Calls /\ \A c \in Active : size[c] = HeldSize[c]
        /\ \A c \in Calls \ Active : HeldSize[c] = 0
    BY DEF Active, HeldSize
  <2> QED BY <2>1, TotalPart DEF Held
<1>2. OrdinaryHeld = Total(OrdinarySize, Calls)
  <2> DEFINE T == Active \ ProtectedSet
  <2>1. /\ T \subseteq Calls /\ \A c \in T : size[c] = OrdinarySize[c]
        /\ \A c \in Calls \ T : OrdinarySize[c] = 0
    BY DEF Active, HeldSize, ProtectedSet, OrdinarySize
  <2>2. OrdinaryHeld = Total(size, T)
    BY DEF OrdinaryHeld
  <2> HIDE DEF T
  <2> QED BY <2>1, <2>2, TotalPart
<1>3. ProtectedBilled = Total(ProtectedBill, Calls)
  <2>1. /\ ProtectedSet \subseteq Calls /\ \A c \in ProtectedSet : bill[c] = ProtectedBill[c]
        /\ \A c \in Calls \ ProtectedSet : ProtectedBill[c] = 0
    BY DEF ProtectedSet, ProtectedBill
  <2> QED BY <2>1, TotalPart DEF ProtectedBilled
<1>4. Total(size, Active \cap ProtectedSet) = Total(ProtectedSize, Calls)
  <2> DEFINE T == Active \cap ProtectedSet
  <2>1. /\ T \subseteq Calls /\ \A c \in T : size[c] = ProtectedSize[c]
        /\ \A c \in Calls \ T : ProtectedSize[c] = 0
    BY DEF Active, HeldSize, ProtectedSet, ProtectedSize
  <2> HIDE DEF T
  <2>2. Total(size, T) = Total(ProtectedSize, Calls)
    BY <2>1, TotalPart
  <2> QED BY <2>2 DEF T
<1>5. Total(bill, Calls) = Total(OrdinaryBill, Calls) + Total(ProtectedBill, Calls)
  <2>1. \A c \in Calls : bill[c] = OrdinaryBill[c] + ProtectedBill[c]
    BY DEF OrdinaryBill, ProtectedBill, TypeOK
  <2> QED BY <2>1, TotalPlus
<1>6. Total(HeldSize, Calls) = Total(OrdinarySize, Calls) + Total(ProtectedSize, Calls)
  <2>1. \A c \in Calls : HeldSize[c] = OrdinarySize[c] + ProtectedSize[c]
    BY DEF OrdinarySize, ProtectedSize, Amounted
  <2> QED BY <2>1, TotalPlus
<1> QED BY <1>1, <1>2, <1>3, <1>4, <1>5, <1>6

\* The claims are part of what a reservation is checked against.
LEMMA ClaimsChecked ==
    ASSUME TypeOK, used = Total(bill, Calls)
    PROVE  /\ Total(Claim, Calls) <= used + Held
           /\ Total(OrdinaryClaim, Calls) <= OrdinaryUsed + OrdinaryHeld
<1> USE BookAmounts
<1> DEFINE all == [c \in Calls |-> bill[c] + HeldSize[c]]
           ord == [c \in Calls |-> OrdinaryBill[c] + OrdinarySize[c]]
<1>1. Amounted(all) /\ Amounted(ord)
  BY DEF Amounted
<1>2. \A c \in Calls : Claim[c] <= all[c]
  BY DEF Claim, HeldSize, TypeOK
<1>3. \A c \in Calls : OrdinaryClaim[c] <= ord[c]
  <2> SUFFICES ASSUME NEW c \in Calls PROVE OrdinaryClaim[c] <= ord[c]
    OBVIOUS
  <2>1. CASE prot[c]
    BY <2>1 DEF OrdinaryClaim, OrdinaryBill, OrdinarySize
  <2>2. CASE ~prot[c]
    <3>1. OrdinaryClaim[c] = Claim[c] /\ ord[c] = all[c]
      BY <2>2 DEF OrdinaryClaim, OrdinaryBill, OrdinarySize
    <3> QED BY <1>2, <3>1
  <2> QED BY <2>1, <2>2
<1>4. /\ \A c \in Calls : all[c] = bill[c] + HeldSize[c]
      /\ \A c \in Calls : ord[c] = OrdinaryBill[c] + OrdinarySize[c]
  OBVIOUS
<1> HIDE DEF all, ord
<1>5. /\ Total(all, Calls) = Total(bill, Calls) + Total(HeldSize, Calls)
      /\ Total(ord, Calls) = Total(OrdinaryBill, Calls) + Total(OrdinarySize, Calls)
  BY <1>4, TotalPlus
<1>6. Total(Claim, Calls) <= Total(all, Calls)
  BY <1>1, <1>2, TotalMonotone
<1>7. Total(OrdinaryClaim, Calls) <= Total(ord, Calls)
  BY <1>1, <1>3, TotalMonotone
<1>8. /\ Total(OrdinaryBill, Calls) \in Nat /\ Total(ProtectedBill, Calls) \in Nat
  BY TotalType
<1>9. OrdinaryUsed = Total(OrdinaryBill, Calls)
  BY <1>8, BookTotals DEF OrdinaryUsed
<1> QED BY <1>5, <1>6, <1>7, <1>9, BookTotals

\* A reservation keeps the claims within what it was checked against.
LEMMA ReserveSums ==
    ASSUME TypeOK, TypeOK', CallsOK, SumsOK, NEW c \in Calls, NEW n \in Amounts,
           NEW p \in BOOLEAN, NEW place, Reserve(c, n, p, place)
    PROVE  SumsOK'
<1> USE BookAmounts
<1>1. proc = "up" /\ pc[c] = "idle" /\ n \in Nat /\ Limit \in Nat /\ Protected \in 0..Limit
  BY LedgerAssumption DEF Reserve
<1>2. book[c] = "none" /\ bill[c] = 0
  BY <1>1 DEF CallsOK, BooksOK
<1>3. /\ size' = [size EXCEPT ![c] = n] /\ prot' = [prot EXCEPT ![c] = p]
      /\ book' = [book EXCEPT ![c] = "active"] /\ UNCHANGED <<bill, used, proc>>
      /\ Admits(n, p)
  BY DEF Reserve
<1>4. /\ Amounted(Claim') /\ Claim[c] = 0 /\ Claim'[c] = n
      /\ \A d \in Calls : d # c => Claim[d] = Claim'[d]
  <2>1. Amounted(Claim')
    BY DEF Claim, Amounted, TypeOK
  <2>2. /\ book'[c] = "active" /\ size'[c] = n
        /\ \A d \in Calls : d # c => book'[d] = book[d] /\ size'[d] = size[d]
    BY <1>3 DEF TypeOK
  <2>3. Claim[c] = 0 /\ Claim'[c] = n
    BY <1>2, <2>2 DEF Claim, TypeOK
  <2>4. \A d \in Calls : d # c => Claim[d] = Claim'[d]
    BY <1>3, <2>2 DEF Claim
  <2> QED BY <2>1, <2>3, <2>4
<1>5. /\ Amounted(OrdinaryClaim') /\ OrdinaryClaim[c] = 0
      /\ OrdinaryClaim'[c] = IF p THEN 0 ELSE n
      /\ \A d \in Calls : d # c => OrdinaryClaim[d] = OrdinaryClaim'[d]
  <2>1. prot'[c] = p /\ \A d \in Calls : d # c => prot'[d] = prot[d]
    BY <1>3 DEF TypeOK
  <2>2. /\ \A d \in Calls : OrdinaryClaim'[d] = IF prot'[d] THEN 0 ELSE Claim'[d]
        /\ \A d \in Calls : OrdinaryClaim[d] = IF prot[d] THEN 0 ELSE Claim[d]
    BY DEF OrdinaryClaim
  <2>3. Amounted(OrdinaryClaim')
    BY <1>4, <2>2 DEF Amounted
  <2> QED BY <1>4, <2>1, <2>2, <2>3
<1>6. Total(Claim', Calls) = (Total(Claim, Calls) - Claim[c]) + Claim'[c]
  BY <1>4, TotalChange
<1>7. Total(OrdinaryClaim', Calls)
        = (Total(OrdinaryClaim, Calls) - OrdinaryClaim[c]) + OrdinaryClaim'[c]
  BY <1>5, TotalChange
<1>8. /\ used = Total(bill, Calls)
      /\ Total(Claim, Calls) <= Limit /\ Total(OrdinaryClaim, Calls) <= Limit - Protected
  BY <1>1 DEF SumsOK
<1>9. /\ Total(Claim, Calls) \in Nat /\ Total(OrdinaryClaim, Calls) \in Nat
      /\ Total(HeldSize, Calls) \in Nat /\ Total(OrdinarySize, Calls) \in Nat
      /\ Total(OrdinaryBill, Calls) \in Nat /\ Total(ProtectedBill, Calls) \in Nat
  BY TotalType
<1>10. Held \in Nat /\ OrdinaryHeld \in Nat /\ used \in Nat /\ OrdinaryUsed \in Nat
  <2>1. OrdinaryUsed = Total(OrdinaryBill, Calls)
    BY <1>8, <1>9, BookTotals DEF OrdinaryUsed
  <2> QED BY <1>9, <2>1, BookTotals DEF TypeOK
<1>11. Total(Claim', Calls) <= Limit
  <2>1. used + Held + n <= Limit /\ Total(Claim, Calls) <= used + Held
    BY <1>3, <1>8, ClaimsChecked DEF Admits
  <2> QED BY <1>1, <1>4, <1>6, <1>9, <1>10, <2>1
<1>12. Total(OrdinaryClaim', Calls) <= Limit - Protected
  <2>1. CASE p
    BY <1>1, <1>5, <1>7, <1>8, <1>9, <2>1
  <2>2. CASE ~p
    <3>1. /\ OrdinaryUsed + OrdinaryHeld + n <= Limit - Protected
          /\ Total(OrdinaryClaim, Calls) <= OrdinaryUsed + OrdinaryHeld
      BY <1>3, <1>8, <2>2, ClaimsChecked DEF Admits
    <3> QED BY <1>1, <1>5, <1>7, <1>9, <1>10, <2>2, <3>1
  <2> QED BY <2>1, <2>2
<1>13. Total(bill', Calls) = Total(bill, Calls) /\ used' = used
  BY <1>3
<1> QED BY <1>8, <1>11, <1>12, <1>13 DEF SumsOK

\* A step that gives back, or bills within the reservation, lowers the claims.
LEMMA ShrinkSums ==
    ASSUME TypeOK, TypeOK', SumsOK, proc = "up", UNCHANGED <<size, prot>>,
           \A d \in Calls : Claim'[d] <= Claim[d], used' = Total(bill', Calls)
    PROVE  SumsOK'
<1> USE BookAmounts
<1>1. Amounted(Claim')
  BY DEF Claim, Amounted, TypeOK
<1>2. /\ Amounted(OrdinaryClaim')
      /\ \A d \in Calls : OrdinaryClaim'[d] <= OrdinaryClaim[d]
  BY <1>1 DEF OrdinaryClaim, Amounted
<1>3. /\ Total(Claim', Calls) <= Total(Claim, Calls)
      /\ Total(OrdinaryClaim', Calls) <= Total(OrdinaryClaim, Calls)
  BY <1>1, <1>2, TotalMonotone
<1>4. /\ Total(Claim', Calls) \in Nat /\ Total(OrdinaryClaim', Calls) \in Nat
      /\ Total(Claim, Calls) \in Nat /\ Total(OrdinaryClaim, Calls) \in Nat
      /\ Limit \in Nat /\ Protected \in 0..Limit
  BY <1>1, <1>2, TotalType, LedgerAssumption
<1> QED BY <1>3, <1>4 DEF SumsOK

\* A settlement bills at most the reservation, or what was charged.
LEMMA SettleSums ==
    ASSUME TypeOK, TypeOK', CallsOK, SumsOK, NEW c \in Calls, Settle(c)
    PROVE  SumsOK'
<1> USE BookAmounts
<1>1. pc[c] = "returned" /\ UNCHANGED <<size, prot>>
  BY DEF Settle
<1>2. proc = "up" /\ book[c] = "active" /\ bill[c] = 0
  BY <1>1 DEF CallsOK, EventsOK, BooksOK, Booked, InFlight
<1>3. used = Total(bill, Calls)
  BY <1>2 DEF SumsOK
<1>4. CASE UNCHANGED <<bill, used>> /\ book' = [book EXCEPT ![c] = "released"]
  <2>1. \A d \in Calls : Claim'[d] <= Claim[d]
    BY <1>1, <1>2, <1>4 DEF Claim, TypeOK
  <2> QED BY <1>1, <1>2, <1>3, <1>4, <2>1, ShrinkSums
<1>5. ASSUME NEW status \in {"settled", "uncertain"}, NEW amount \in Nat,
             Consume(c, status, amount)
      PROVE  SumsOK'
  <2>1. \A d \in Calls : Claim'[d] <= Claim[d]
    BY <1>1, <1>2, <1>5 DEF Consume, Claim, TypeOK
  <2>2. /\ bill'[c] = amount /\ Amounted(bill')
        /\ \A d \in Calls : d # c => bill[d] = bill'[d]
    BY <1>5 DEF Consume, TypeOK, Amounted
  <2>3. Total(bill', Calls) = (Total(bill, Calls) - bill[c]) + bill'[c]
    BY <2>2, TotalChange
  <2>4. Total(bill, Calls) \in Nat
    BY TotalType
  <2>5. used' = Total(bill', Calls)
    BY <1>2, <1>3, <1>5, <2>2, <2>3, <2>4 DEF Consume
  <2> QED BY <1>1, <1>2, <2>1, <2>5, ShrinkSums
<1>6. \/ UNCHANGED <<bill, used>> /\ book' = [book EXCEPT ![c] = "released"]
      \/ Consume(c, "uncertain", size[c]) \/ Consume(c, "settled", spent[c])
  BY DEF Settle
<1>7. size[c] \in Nat /\ spent[c] \in Nat
  BY DEF TypeOK
<1> QED BY <1>4, <1>5, <1>6, <1>7

\* A restored session starts from the replay's accounts.
LEMMA RestoreSums ==
    ASSUME TypeOK, TypeOK', LoggedOnce, Restore
    PROVE  SumsOK'
<1>1. SUFFICES ASSUME proc' = "up" PROVE SumsOK'
  BY DEF SumsOK
<1>2. Replay.ok
  BY <1>1 DEF Restore
<1>3. /\ used' = Total(Due(Logged), Calls)
      /\ Total(Due(Logged), Calls) <= Limit
      /\ Total(OrdinaryDue(Logged), Calls) <= Limit - Protected
  BY <1>2, TypeReplay, ReplayResult DEF Restore
<1>4. Amounted(Due(Logged)) /\ Amounted(OrdinaryDue(Logged)) /\ Amounted(bill')
  BY TypeReplay, DueType DEF TypeOK, Amounted
<1>5. /\ \A c \in Calls : bill'[c] = Due(Logged)[c]
      /\ \A c \in Calls : book'[c] # "active" /\ UNCHANGED <<size, prot>>
  BY DEF Restore, Due
<1>6. Amounted(Claim') /\ \A c \in Calls : Claim'[c] <= Due(Logged)[c]
  BY <1>5 DEF Claim, Amounted, TypeOK
<1>7. /\ Amounted(OrdinaryClaim')
      /\ \A c \in Calls : OrdinaryClaim'[c] <= OrdinaryDue(Logged)[c]
  <2>1. \A c \in Calls : OrdinaryDue(Logged)[c] = IF prot[c] THEN 0 ELSE Due(Logged)[c]
    BY DEF Due, OrdinaryDue
  <2> QED BY <1>5, <1>6, <2>1 DEF OrdinaryClaim, Amounted
<1>8. /\ Total(bill', Calls) = Total(Due(Logged), Calls)
      /\ Total(Claim', Calls) <= Total(Due(Logged), Calls)
      /\ Total(OrdinaryClaim', Calls) <= Total(OrdinaryDue(Logged), Calls)
  BY <1>4, <1>5, <1>6, <1>7, TotalSame, TotalMonotone
<1>9. /\ Total(Claim', Calls) \in Nat /\ Total(OrdinaryClaim', Calls) \in Nat
      /\ Total(Due(Logged), Calls) \in Nat /\ Total(OrdinaryDue(Logged), Calls) \in Nat
      /\ Limit \in Nat /\ Protected \in 0..Limit
  BY <1>4, <1>6, <1>7, TotalType, LedgerAssumption
<1> QED BY <1>3, <1>8, <1>9 DEF SumsOK

\* Every step keeps the counter right and the claims within the limits.
LEMMA SumsStep ==
    ASSUME TypeOK, TypeOK', CallsOK, LoggedOnce, SumsOK, [Next]_vars
    PROVE  SumsOK'
<1>1. CASE UNCHANGED <<proc, size, prot, book, bill, used>>
  BY <1>1 DEF SumsOK, Claim, OrdinaryClaim
<1>2. ASSUME NEW c \in Calls, pc[c] \in {"probing", "held"},
             book' = [book EXCEPT ![c] = "released"],
             UNCHANGED <<proc, size, prot, bill, used>>
      PROVE  SumsOK'
  <2>1. proc = "up" /\ bill[c] = 0
    BY <1>2 DEF CallsOK, EventsOK, BooksOK, Booked, InFlight
  <2>2. used' = Total(bill', Calls)
    BY <1>2, <2>1 DEF SumsOK
  <2>3. \A d \in Calls : Claim'[d] <= Claim[d]
    BY <1>2, <2>1 DEF Claim, TypeOK
  <2> QED BY <1>2, <2>1, <2>2, <2>3, ShrinkSums
<1>3. ASSUME NEW c \in Calls, EmitReserved(c) \/ PreflightRelease(c)
      PROVE  SumsOK'
  BY <1>1, <1>2, <1>3 DEF EmitReserved, PreflightRelease
<1>4. ASSUME NEW c \in Calls, NEW n \in Amounts, NEW p \in BOOLEAN,
             Reject(c, n, p) \/ Charge(c, n)
      PROVE  SumsOK'
  BY <1>1, <1>4 DEF Reject, Charge, memory
<1>5. ASSUME NEW c \in Calls, Answer(c) \/ Record(c) \/ RecordBudgetTerminal(c)
      PROVE  SumsOK'
  BY <1>1, <1>5 DEF Answer, Record, RecordBudgetTerminal, memory
<1>6. CASE Crash
  BY <1>6 DEF Crash, SumsOK
<1>7. CASE UNCHANGED vars
  BY <1>1, <1>7 DEF vars, memory
<1>8. ASSUME NEW c \in Calls, CallStep(c) PROVE SumsOK'
  <2>1. ASSUME NEW n \in Amounts, Charge(c, n) PROVE SumsOK'
    BY <1>4, <2>1
  <2>2. ASSUME NEW n \in Amounts, NEW p \in BOOLEAN,
               ReserveCall(c, n, p) \/ PreflightReserve(c, n, p) \/ Reject(c, n, p)
        PROVE  SumsOK'
    BY <1>4, <2>2, ReserveSums DEF ReserveCall, PreflightReserve
  <2> QED BY <1>3, <1>5, <1>8, <2>1, <2>2, SettleSums DEF CallStep
<1> QED BY <1>6, <1>7, <1>8, RestoreSums DEF Next

\* While the process runs, the claims cover what was charged.
LEMMA CostClaimed ==
    TypeOK /\ CallsOK /\ SumsOK /\ proc = "up" => CostBounded
<1> SUFFICES ASSUME TypeOK, CallsOK, SumsOK, proc = "up" PROVE CostBounded
  OBVIOUS
<1>1. Amounted(Cost) /\ Amounted(Claim)
  BY BookAmounts DEF Cost, Amounted, TypeOK
<1>2. ASSUME NEW c \in Calls PROVE Cost[c] <= Claim[c]
  <2>1. BooksOK(c) /\ book[c] \in Books
    BY DEF CallsOK, TypeOK
  <2> QED BY <2>1 DEF BooksOK, Books, Cost, Claim, TypeOK
<1>3. Total(Cost, Calls) <= Total(Claim, Calls)
  BY <1>1, <1>2, TotalMonotone
<1>4. Total(Cost, Calls) \in Nat /\ Total(Claim, Calls) \in Nat /\ Limit \in Nat
  BY <1>1, TotalType, LedgerAssumption
<1> QED BY <1>3, <1>4 DEF SumsOK, CostBounded

\* The cost stays bounded over a crash, when the claims are gone.
LEMMA CostStep ==
    ASSUME CallsOK, TypeOK', CallsOK', SumsOK', CostBounded, [Next]_vars
    PROVE  CostBounded'
<1>1. CASE proc' = "up"
  <2>1. (TypeOK /\ CallsOK /\ SumsOK /\ proc = "up" => CostBounded)'
    BY CostClaimed, PTL
  <2> QED BY <1>1, <2>1
<1>2. CASE UNCHANGED <<size, spent>>
  BY <1>2 DEF CostBounded, Cost
<1>3. Crash \/ Restore \/ UNCHANGED vars => UNCHANGED <<size, spent>>
  BY DEF Crash, Restore, vars
<1>4. ASSUME NEW c \in Calls, CallStep(c), proc' # "up" PROVE UNCHANGED <<size, spent>>
  <2>1. CASE \E n \in Amounts : Charge(c, n)
    BY <1>4, <2>1 DEF Charge, CallsOK, EventsOK, InFlight
  <2> QED BY <1>4, <2>1 DEF CallStep, ReserveCall, PreflightReserve, Reserve, Reject,
     PreflightRelease, EmitReserved, Answer, Settle, Record, RecordBudgetTerminal
<1> QED BY <1>1, <1>2, <1>3, <1>4 DEF Next

-----------------------------------------------------------------------------
(* One call at a time *)

\* Outside of a call the books say what a replay would, if every append succeeds
\* and the provider serves each call within its reservation.
LEMMA GentleStep ==
    ASSUME TypeOK, NEW d \in Calls, EventsOK(d), ProviderOK(d), BooksOK(d), GentleOK(d),
           [Next]_vars
    PROVE  GentleOK(d)'
<1> USE LedgerAssumption DEF InFlight
<1>1. ASSUME NEW c \in Calls, NEW n \in Amounts, NEW p \in BOOLEAN,
             NEW place \in {"held", "probing"}, Reserve(c, n, p, place)
      PROVE  GentleOK(d)'
  BY <1>1 DEF Reserve, Goto, memory, events, Booked, TypeOK, EventsOK, BooksOK, GentleOK,
     GentleEnv, Logged, RestoredBill
<1>2. ASSUME NEW c \in Calls, NEW n \in Amounts, NEW p \in BOOLEAN, Reject(c, n, p)
      PROVE  GentleOK(d)'
  BY <1>2 DEF Reject, Goto, memory, events, Booked, TypeOK, EventsOK, BooksOK, GentleOK,
     GentleEnv, Logged, RestoredBill
<1>3. ASSUME NEW c \in Calls, PreflightRelease(c)
      PROVE  GentleOK(d)'
  BY <1>3 DEF PreflightRelease, Goto, memory, events, Booked, TypeOK, EventsOK, BooksOK,
     GentleOK, GentleEnv, Logged, RestoredBill
<1>4. ASSUME NEW c \in Calls, EmitReserved(c)
      PROVE  GentleOK(d)'
  <2>1. GentleEnv' = GentleEnv
    BY <1>4 DEF EmitReserved, GentleEnv
  <2>2. CASE ~GentleEnv
    BY <2>1, <2>2 DEF GentleOK
  <2>3. CASE GentleEnv
    <3>1. /\ log' = Append(log, c) /\ pc' = [pc EXCEPT ![c] = "calling"]
          /\ UNCHANGED <<proc, size, bill, book, terminal, answer, spent>>
      BY <1>4, <2>3 DEF EmitReserved, Goto, GentleEnv
    <3>2. Logged' = Logged \cup {c}
      BY <3>1, LoggedAppend DEF TypeOK
    <3> QED BY <2>1, <2>3, <3>1, <3>2 DEF GentleOK, RestoredBill, TypeOK
  <2> QED BY <2>2, <2>3
<1>5. ASSUME NEW c \in Calls, NEW n \in Amounts, Charge(c, n)
      PROVE  GentleOK(d)'
  BY <1>5 DEF Charge, Goto, memory, events, Booked, TypeOK, EventsOK, BooksOK, GentleOK,
     GentleEnv, Logged, RestoredBill
<1>6. ASSUME NEW c \in Calls, Answer(c)
      PROVE  GentleOK(d)'
  BY <1>6 DEF Answer, Goto, memory, events, Booked, TypeOK, EventsOK, BooksOK, GentleOK,
     GentleEnv, Logged, RestoredBill
<1>7. ASSUME NEW c \in Calls, Settle(c)
      PROVE  GentleOK(d)'
  BY <1>7 DEF Settle, Consume, Goto, memory, events, Booked, TypeOK, EventsOK, BooksOK,
     GentleOK, GentleEnv, Logged, RestoredBill
<1>8. ASSUME NEW c \in Calls, Record(c)
      PROVE  GentleOK(d)'
  BY <1>8 DEF Record, Goto, memory, events, Booked, TypeOK, EventsOK, BooksOK, GentleOK,
     GentleEnv, Logged, RestoredBill
<1>9. ASSUME NEW c \in Calls, RecordBudgetTerminal(c)
      PROVE  GentleOK(d)'
  <2>1. GentleEnv' = GentleEnv
    BY <1>9 DEF RecordBudgetTerminal, GentleEnv
  <2>2. CASE ~GentleEnv
    BY <2>1, <2>2 DEF GentleOK
  <2>3. CASE GentleEnv /\ d = c
    <3>1. /\ proc = "up" /\ book[c] \in {"settled", "uncertain"} /\ pc[c] = "recorded"
          /\ book[c] = "uncertain" => bill[c] = size[c]
      BY <1>9, <2>3 DEF RecordBudgetTerminal, GentleOK, EventsOK, BooksOK
    <3>2. /\ terminal' = [terminal EXCEPT ![c] = [status |-> book[c], amount |-> bill[c]]]
          /\ pc' = [pc EXCEPT ![c] = "done"]
          /\ UNCHANGED <<proc, size, bill, book, log, answer, spent>>
      BY <1>9, <2>3, <3>1 DEF RecordBudgetTerminal, Goto, GentleEnv, memory
    <3>3. terminal'[c].status = book[c] /\ terminal'[c].amount = bill[c] /\ pc'[c] = "done"
      BY <3>2 DEF TypeOK
    <3> QED BY <2>1, <2>3, <3>1, <3>2, <3>3 DEF GentleOK, RestoredBill, Logged
  <2>4. CASE d # c
    <3>1. /\ terminal'[d] = terminal[d] /\ pc'[d] = pc[d]
          /\ UNCHANGED <<proc, size, bill, book, log, answer, spent>>
      BY <1>9, <2>4 DEF RecordBudgetTerminal, Goto, memory, TypeOK
    <3> QED BY <2>1, <3>1 DEF GentleOK, RestoredBill, Logged
  <2> QED BY <2>2, <2>3, <2>4
<1>10. ASSUME Crash
      PROVE  GentleOK(d)'
  BY <1>10 DEF Crash, Goto, memory, events, Booked, TypeOK, EventsOK, BooksOK, GentleOK,
     GentleEnv, Logged, RestoredBill
<1>11. ASSUME Restore
      PROVE  GentleOK(d)'
  <2>1. ~(pc[d] \in InFlight) /\ UNCHANGED <<env, pc, size, terminal, log, spent, answer>>
    BY <1>11 DEF Restore, EventsOK, events
  <2>2. d \in Logged => bill'[d] = RestoredBill(d) /\ book'[d] # "active"
    BY <1>11 DEF Restore
  <2> QED BY <2>1, <2>2 DEF GentleOK, GentleEnv, RestoredBill, Logged
<1>12. ASSUME UNCHANGED vars
      PROVE  GentleOK(d)'
  BY <1>12 DEF vars, memory, events, Booked, TypeOK, EventsOK, BooksOK, GentleOK,
     GentleEnv, Logged, RestoredBill
<1> QED BY <1>1, <1>2, <1>3, <1>4, <1>5, <1>6, <1>7, <1>8, <1>9, <1>10, <1>11, <1>12
        DEF Next, CallStep, ReserveCall, PreflightReserve

\* A step may put a call in flight only by a reservation, when the threads allow it.
LEMMA OneAtATimeStep ==
    ASSUME TypeOK, OneAtATime, [Next]_vars
    PROVE  OneAtATime'
<1> USE DEF InFlight
<1>1. CASE /\ UNCHANGED env
           /\ \A d \in Calls : pc'[d] \in InFlight => pc[d] \in InFlight
  BY <1>1 DEF OneAtATime
<1>2. ASSUME NEW c \in Calls, NEW n \in Amounts, NEW p \in BOOLEAN, NEW place,
             Reserve(c, n, p, place)
      PROVE  OneAtATime'
  <2> DEFINE busy == {k \in Calls : pc[k] \in InFlight}
  <2>1. SUFFICES ASSUME env'.threads = 1 PROVE OneAtATime'
    BY DEF OneAtATime
  <2>2. Cardinality(busy) < 1 /\ pc' = [pc EXCEPT ![c] = place]
    BY <1>2, <2>1 DEF Reserve, Goto
  <2>3. IsFiniteSet(busy) /\ busy \subseteq Calls
    BY LedgerAssumption, FS_Subset
  <2>4. busy = {}
    <3> HIDE DEF busy
    <3>1. Cardinality(busy) \in Nat
      BY <2>3, FS_CardinalityType
    <3> QED BY <2>2, <2>3, <3>1, FS_EmptySet
  <2>5. \A d \in Calls : pc'[d] \in InFlight => d = c
    BY <2>2, <2>4 DEF TypeOK
  <2> QED BY <2>5 DEF OneAtATime
<1>3. ASSUME NEW c \in Calls,
             \/ PreflightRelease(c) \/ EmitReserved(c) \/ Answer(c) \/ Settle(c)
             \/ Record(c) \/ RecordBudgetTerminal(c)
      PROVE  OneAtATime'
  BY <1>1, <1>3 DEF PreflightRelease, EmitReserved, Answer, Settle, Record,
     RecordBudgetTerminal, Goto, TypeOK
<1>4. ASSUME NEW c \in Calls, NEW n \in Amounts, NEW p \in BOOLEAN,
             Reject(c, n, p) \/ Charge(c, n)
      PROVE  OneAtATime'
  BY <1>1, <1>4 DEF Reject, Charge, Goto, TypeOK
<1>5. Crash \/ Restore \/ UNCHANGED vars => OneAtATime'
  BY <1>1 DEF Crash, Restore, vars
<1>6. ASSUME NEW c \in Calls, CallStep(c) PROVE OneAtATime'
  <2>1. ASSUME NEW n \in Amounts, Charge(c, n) PROVE OneAtATime'
    BY <1>4, <2>1
  <2>2. ASSUME NEW n \in Amounts, NEW p \in BOOLEAN,
               ReserveCall(c, n, p) \/ PreflightReserve(c, n, p) \/ Reject(c, n, p)
        PROVE  OneAtATime'
    BY <1>2, <1>4, <2>2 DEF ReserveCall, PreflightReserve
  <2> QED BY <1>3, <1>6, <2>1, <2>2 DEF CallStep
<1> QED BY <1>5, <1>6 DEF Next

\* Then a replay bills no call more than its reservation.
LEMMA GentleBill ==
    ASSUME TypeOK, GentleEnv, NEW c \in Calls, EventsOK(c), GentleOK(c)
    PROVE  RestoredBill(c) <= size[c]
  BY DEF TypeOK, EventsOK, GentleOK, RestoredBill

\* When a call is about to be recorded, it fits after everything in the log.
LEMMA RoomForNext ==
    ASSUME TypeOK, CallsOK, SumsOK, OneAtATime, \A d \in Calls : GentleOK(d), GentleEnv,
           NEW c \in Calls, pc[c] = "held"
    PROVE  /\ Total(Due(Logged), Calls) + size[c] <= Limit
           /\ prot[c] \/ Total(OrdinaryDue(Logged), Calls) + size[c] <= Limit - Protected
<1> DEFINE all == [Due(Logged) EXCEPT ![c] = size[c]]
           ord == [OrdinaryDue(Logged) EXCEPT ![c] = size[c]]
<1>1. /\ proc = "up" /\ ~(c \in Logged) /\ book[c] = "active"
  BY DEF CallsOK, EventsOK, BooksOK, Booked, InFlight
<1>2. /\ Amounted(Due(Logged)) /\ Amounted(OrdinaryDue(Logged))
      /\ Amounted(Claim) /\ Amounted(OrdinaryClaim)
  BY TypeReplay, DueType, BookAmounts
<1>3. Due(Logged)[c] = 0 /\ OrdinaryDue(Logged)[c] = 0 /\ size[c] \in Nat
  BY <1>1 DEF Due, OrdinaryDue, TypeOK
<1>4. /\ all[c] = size[c] /\ \A d \in Calls : d # c => all[d] = Due(Logged)[d]
      /\ ord[c] = size[c] /\ \A d \in Calls : d # c => ord[d] = OrdinaryDue(Logged)[d]
  BY DEF Due, OrdinaryDue
<1> HIDE DEF all, ord
<1>5. Amounted(all) /\ Amounted(ord)
  BY <1>2, <1>3, <1>4 DEF Amounted
<1>6. ASSUME NEW d \in Calls, d # c PROVE Due(Logged)[d] <= Claim[d]
  <2>1. CASE ~(d \in Logged)
    BY <1>2, <2>1 DEF Due, Amounted
  <2>2. CASE d \in Logged
    <3>1. ~(pc[d] \in InFlight)
      BY <1>6 DEF OneAtATime, GentleEnv, InFlight
    <3>2. bill[d] = RestoredBill(d) /\ book[d] # "active"
      BY <1>1, <2>2, <3>1 DEF GentleOK
    <3>3. RestoredBill(d) <= size[d] /\ RestoredBill(d) \in Nat /\ size[d] \in Nat
      BY TypeReplay, RestoredBillType, GentleBill DEF CallsOK
    <3>4. Claim[d] = RestoredBill(d)
      BY <3>2, <3>3 DEF Claim
    <3> QED BY <2>2, <3>3, <3>4 DEF Due
  <2> QED BY <2>1, <2>2
<1>7. \A d \in Calls : all[d] <= Claim[d]
  <2>1. Claim[c] = size[c]
    BY <1>1 DEF Claim
  <2> QED BY <1>3, <1>4, <1>6, <2>1
<1>8. /\ Total(all, Calls) = (Total(Due(Logged), Calls) - Due(Logged)[c]) + all[c]
      /\ Total(ord, Calls) = (Total(OrdinaryDue(Logged), Calls) - OrdinaryDue(Logged)[c]) + ord[c]
  BY <1>2, <1>4, <1>5, TotalChange
<1>9. /\ Total(all, Calls) \in Nat /\ Total(ord, Calls) \in Nat
      /\ Total(Due(Logged), Calls) \in Nat /\ Total(OrdinaryDue(Logged), Calls) \in Nat
      /\ Total(Claim, Calls) \in Nat /\ Total(OrdinaryClaim, Calls) \in Nat
      /\ Limit \in Nat /\ Protected \in 0..Limit
  BY <1>2, <1>5, TotalType, LedgerAssumption
<1>10. Total(Due(Logged), Calls) + size[c] <= Limit
  <2>1. Total(all, Calls) <= Total(Claim, Calls) /\ Total(Claim, Calls) <= Limit
    BY <1>1, <1>2, <1>5, <1>7, TotalMonotone DEF SumsOK
  <2> QED BY <1>3, <1>4, <1>8, <1>9, <2>1
<1>11. ASSUME ~prot[c]
       PROVE  Total(OrdinaryDue(Logged), Calls) + size[c] <= Limit - Protected
  <2>1. ASSUME NEW d \in Calls PROVE ord[d] <= OrdinaryClaim[d]
    <3>1. CASE d = c
      BY <1>3, <1>4, <1>11, <3>1, <1>1 DEF OrdinaryClaim, Claim
    <3>2. CASE d # c /\ prot[d]
      BY <1>4, <3>2 DEF OrdinaryDue, OrdinaryClaim
    <3>3. CASE d # c /\ ~prot[d]
      <4>1. OrdinaryDue(Logged)[d] = Due(Logged)[d] /\ OrdinaryClaim[d] = Claim[d]
        BY <3>3 DEF OrdinaryDue, Due, OrdinaryClaim
      <4> QED BY <1>4, <1>6, <3>3, <4>1
    <3> QED BY <3>1, <3>2, <3>3
  <2>2. Total(ord, Calls) <= Total(OrdinaryClaim, Calls)
    BY <1>2, <1>5, <2>1, TotalMonotone
  <2>3. Total(OrdinaryClaim, Calls) <= Limit - Protected
    BY <1>1 DEF SumsOK
  <2> QED BY <1>3, <1>4, <1>8, <1>9, <2>2, <2>3
<1> QED BY <1>10, <1>11

\* A terminal event never raises what a replay bills for a call.
LEMMA DueFalls ==
    ASSUME TypeOK, TypeOK', GentleEnv, CallsOK, \A d \in Calls : GentleOK(d),
           [Next]_vars, NEW d \in Logged
    PROVE  /\ size'[d] = size[d] /\ prot'[d] = prot[d]
           /\ RestoredBill(d)' <= RestoredBill(d)
<1>1. d \in Calls /\ EventsOK(d) /\ BooksOK(d) /\ GentleOK(d) /\ pc[d] # "idle"
  <2>1. PICK i \in DOMAIN log : d = log[i]
    BY DEF Logged, Range
  <2>2. d \in Calls
    BY <2>1 DEF TypeOK
  <2> QED BY <2>2 DEF CallsOK, EventsOK
<1>2. /\ RestoredBill(d) \in Nat /\ RestoredBill(d) <= size[d]
  BY <1>1, TypeReplay, RestoredBillType, GentleBill
<1>3. CASE size'[d] = size[d] /\ prot'[d] = prot[d] /\ terminal'[d] = terminal[d]
  BY <1>2, <1>3 DEF RestoredBill
<1>4. CASE RecordBudgetTerminal(d)
  <2>1. UNCHANGED <<size, prot>> /\ pc[d] = "recorded"
    BY <1>4 DEF RecordBudgetTerminal
  <2>2. proc = "up" /\ terminal[d].status = "none"
    BY <1>1, <2>1 DEF EventsOK, InFlight
  <2>3. RestoredBill(d) = size[d]
    BY <2>2 DEF RestoredBill
  <2>4. \/ terminal' = terminal
        \/ terminal' = [terminal EXCEPT ![d] = [status |-> book[d], amount |-> bill[d]]]
    BY <1>4 DEF RecordBudgetTerminal
  <2>5. terminal'[d].status = "settled" => terminal'[d].amount = spent[d]
    <3>1. CASE terminal' = terminal
      BY <2>2, <3>1
    <3>2. CASE terminal' = [terminal EXCEPT ![d] = [status |-> book[d], amount |-> bill[d]]]
      <4>1. terminal'[d] = [status |-> book[d], amount |-> bill[d]]
        BY <1>1, <3>2 DEF TypeOK
      <4> QED BY <1>1, <2>2, <4>1 DEF BooksOK
    <3> QED BY <2>4, <3>1, <3>2
  <2>6. spent[d] <= size[d] /\ size[d] \in Nat
    BY <1>1 DEF GentleOK, TypeOK
  <2> QED BY <2>1, <2>3, <2>5, <2>6 DEF RestoredBill
<1>5. ASSUME NEW c \in Calls, NEW n \in Amounts, NEW p \in BOOLEAN,
             \/ ReserveCall(c, n, p) \/ PreflightReserve(c, n, p) \/ Reject(c, n, p)
             \/ Charge(c, n)
      PROVE  size'[d] = size[d] /\ prot'[d] = prot[d] /\ terminal'[d] = terminal[d]
  BY <1>1, <1>5 DEF ReserveCall, PreflightReserve, Reserve, Reject, Charge, events, TypeOK
<1>6. ASSUME NEW c \in Calls,
             \/ PreflightRelease(c) \/ EmitReserved(c) \/ Answer(c) \/ Settle(c)
             \/ Record(c)
      PROVE  size'[d] = size[d] /\ prot'[d] = prot[d] /\ terminal'[d] = terminal[d]
  BY <1>6 DEF PreflightRelease, EmitReserved, Answer, Settle, Record, events
<1>7. ASSUME NEW c \in Calls, RecordBudgetTerminal(c), c # d
      PROVE  size'[d] = size[d] /\ prot'[d] = prot[d] /\ terminal'[d] = terminal[d]
  BY <1>1, <1>7 DEF RecordBudgetTerminal, TypeOK
<1>8. Crash \/ Restore \/ UNCHANGED vars =>
          size'[d] = size[d] /\ prot'[d] = prot[d] /\ terminal'[d] = terminal[d]
  BY DEF Crash, Restore, vars, events
<1>9. ASSUME NEW c \in Calls, CallStep(c)
      PROVE  \/ RecordBudgetTerminal(d)
             \/ size'[d] = size[d] /\ prot'[d] = prot[d] /\ terminal'[d] = terminal[d]
  <2>1. ASSUME NEW n \in Amounts, Charge(c, n)
        PROVE  size'[d] = size[d] /\ prot'[d] = prot[d] /\ terminal'[d] = terminal[d]
    BY <1>5, <2>1
  <2> QED BY <1>5, <1>6, <1>7, <1>9, <2>1 DEF CallStep
<1> QED BY <1>3, <1>4, <1>8, <1>9 DEF Next

\* The first calls of the log stay the first.
LEMMA FirstStays ==
    ASSUME log \in Seq(Calls), NEW c \in Calls, log' \in {log, Append(log, c)},
           NEW k \in 0..Len(log)
    PROVE  First(k)' = First(k) /\ First(k) \subseteq Logged
<1>1. \A i \in 1..Len(log) : log'[i] = log[i]
  OBVIOUS
<1>2. Len(log) \in Nat /\ DOMAIN log = 1..Len(log)
  OBVIOUS
<1>3. 1..k \subseteq 1..Len(log)
  BY <1>2
<1> QED BY <1>1, <1>2, <1>3 DEF First, Logged, Range

\* So the room before a recorded call never shrinks.
LEMMA RoomStays ==
    ASSUME TypeOK, TypeOK', GentleEnv, CallsOK, \A d \in Calls : GentleOK(d), RoomOK,
           [Next]_vars, NEW c \in Calls, log' \in {log, Append(log, c)},
           NEW k \in 1..Len(log)
    PROVE  /\ log'[k] = log[k]
           /\ Total(Due(First(k - 1))', Calls) + size'[log'[k]] <= Limit
           /\ prot'[log'[k]] \/ Total(OrdinaryDue(First(k - 1))', Calls) + size'[log'[k]]
                                   <= Limit - Protected
<1>1. /\ log \in Seq(Calls) /\ Len(log) \in Nat /\ k \in 1..Len(log) /\ k - 1 \in 0..Len(log)
      /\ log[k] \in Calls
  <2>1. log \in Seq(Calls)
    BY DEF TypeOK
  <2>2. Len(log) \in Nat /\ log[k] \in Calls
    BY <2>1
  <2> QED BY <2>1, <2>2
<1>2. log'[k] = log[k] /\ log[k] \in Logged
  BY <1>1 DEF Logged, Range
<1>3. First(k - 1)' = First(k - 1) /\ First(k - 1) \subseteq Logged
  BY <1>1, FirstStays
<1>4. \A d \in Logged : /\ size'[d] = size[d] /\ prot'[d] = prot[d]
                        /\ RestoredBill(d)' <= RestoredBill(d)
  BY DueFalls
<1>5. \A d \in Calls : RestoredBill(d) \in Nat /\ RestoredBill(d)' \in Nat
  BY TypeReplay, RestoredBillType DEF TypeOK, RestoredBill
<1>6. /\ \A d \in Calls : Due(First(k - 1))'[d] =
                IF d \in First(k - 1) THEN RestoredBill(d)' ELSE 0
      /\ \A d \in Calls : OrdinaryDue(First(k - 1))'[d] =
                IF d \in First(k - 1) /\ ~prot'[d] THEN RestoredBill(d)' ELSE 0
  BY <1>3 DEF Due, OrdinaryDue
<1>7. /\ \A d \in Calls : Due(First(k - 1))[d] =
                IF d \in First(k - 1) THEN RestoredBill(d) ELSE 0
      /\ \A d \in Calls : OrdinaryDue(First(k - 1))[d] =
                IF d \in First(k - 1) /\ ~prot[d] THEN RestoredBill(d) ELSE 0
  BY DEF Due, OrdinaryDue
<1> DEFINE a  == Due(First(k - 1))
           b  == OrdinaryDue(First(k - 1))
<1>8. /\ Amounted(a) /\ Amounted(b) /\ Amounted(a') /\ Amounted(b')
  BY <1>5, <1>6, <1>7 DEF Amounted
<1>9. /\ \A d \in Calls : a'[d] <= a[d]
      /\ \A d \in Calls : b'[d] <= b[d]
  BY <1>3, <1>4, <1>5, <1>6, <1>7
<1>10. /\ Total(a', Calls) <= Total(a, Calls) /\ Total(b', Calls) <= Total(b, Calls)
       /\ Total(a, Calls) \in Nat /\ Total(b, Calls) \in Nat
       /\ Total(a', Calls) \in Nat /\ Total(b', Calls) \in Nat
  <2> HIDE DEF a, b
  <2> QED BY <1>8, <1>9, TotalMonotone, TotalType
<1>11. /\ Total(a, Calls) + size[log[k]] <= Limit
       /\ prot[log[k]] \/ Total(b, Calls) + size[log[k]] <= Limit - Protected
  BY DEF RoomOK
<1>12. /\ size'[log'[k]] = size[log[k]] /\ prot'[log'[k]] = prot[log[k]]
       /\ size[log[k]] \in Nat /\ Limit \in Nat /\ Protected \in 0..Limit
  <2>1. size[log[k]] \in Nat
    BY <1>1 DEF TypeOK
  <2>2. /\ size'[log'[k]] = size[log[k]] /\ prot'[log'[k]] = prot[log[k]]
    BY <1>2, <1>4
  <2> QED BY <2>1, <2>2, LedgerAssumption
<1> HIDE DEF a, b
<1>13. /\ Total(a', Calls) + size'[log'[k]] <= Limit
       /\ prot'[log'[k]] \/ Total(b', Calls) + size'[log'[k]] <= Limit - Protected
  BY <1>10, <1>11, <1>12
<1> QED BY <1>2, <1>13 DEF a, b

\* Every step leaves the replay room for each logged call.
LEMMA RoomStep ==
    ASSUME TypeOK, TypeOK', CallsOK, SumsOK, OneAtATime, \A d \in Calls : GentleOK(d),
           RoomOK, [Next]_vars
    PROVE  RoomOK'
<1>1. SUFFICES ASSUME GentleEnv', NEW k \in 1..Len(log')
               PROVE  /\ Total(Due(First(k - 1))', Calls) + size'[log'[k]] <= Limit
                      /\ prot'[log'[k]] \/ Total(OrdinaryDue(First(k - 1))', Calls)
                                              + size'[log'[k]] <= Limit - Protected
  BY DEF RoomOK
<1>2. UNCHANGED env
  BY DEF Next, CallStep, ReserveCall, PreflightReserve, Reserve, Reject, PreflightRelease,
     EmitReserved, Charge, Answer, Settle, Record, RecordBudgetTerminal, Crash, Restore, vars
<1>3. GentleEnv
  BY <1>1, <1>2 DEF GentleEnv
<1>4. \/ UNCHANGED log
      \/ \E c \in Calls : EmitReserved(c)
  BY DEF Next, CallStep, ReserveCall, PreflightReserve, Reserve, Reject, PreflightRelease,
     Charge, Answer, Settle, Record, RecordBudgetTerminal, Crash, Restore, vars, events
<1>5. CASE UNCHANGED log
  <2>1. k \in 1..Len(log) /\ log[k] \in Calls
    BY <1>1, <1>5 DEF TypeOK
  <2> QED BY <1>3, <1>5, <2>1, RoomStays
<1>6. ASSUME NEW c \in Calls, EmitReserved(c), log' = Append(log, c)
      PROVE  /\ Total(Due(First(k - 1))', Calls) + size'[log'[k]] <= Limit
             /\ prot'[log'[k]] \/ Total(OrdinaryDue(First(k - 1))', Calls)
                                     + size'[log'[k]] <= Limit - Protected
  <2>1. /\ log \in Seq(Calls) /\ Len(log) \in Nat /\ DOMAIN log = 1..Len(log)
        /\ Len(log') = Len(log) + 1 /\ log'[Len(log) + 1] = c
    BY <1>6 DEF TypeOK
  <2>2. CASE k \in 1..Len(log)
    BY <1>3, <1>6, <2>2, RoomStays
  <2>3. CASE k = Len(log) + 1
    <3>1. pc[c] = "held" /\ UNCHANGED <<size, prot, terminal>>
      BY <1>6 DEF EmitReserved
    <3>2. First(k - 1)' = Logged
      <4>1. k - 1 = Len(log) /\ Len(log) \in 0..Len(log)
        BY <2>1, <2>3
      <4>2. k - 1 \in 0..Len(log)
        BY <4>1
      <4>3. First(k - 1)' = First(k - 1)
        BY <1>6, <2>1, <4>2, FirstStays
      <4>4. First(k - 1) = Logged
        BY <2>1, <4>1 DEF First, Logged, Range
      <4> QED BY <4>3, <4>4
    <3>3. /\ Due(First(k - 1))' = Due(Logged)
          /\ OrdinaryDue(First(k - 1))' = OrdinaryDue(Logged)
      BY <3>1, <3>2 DEF Due, OrdinaryDue, RestoredBill
    <3>4. log'[k] = c /\ size'[c] = size[c] /\ prot'[c] = prot[c]
      BY <2>1, <2>3, <3>1
    <3> QED BY <1>3, <3>1, <3>3, <3>4, RoomForNext
  <2> QED BY <1>1, <2>1, <2>2, <2>3
<1> QED BY <1>4, <1>5, <1>6 DEF EmitReserved

\* A resume is not refused.
LEMMA NotRefusedStep ==
    ASSUME TypeOK, CallsOK, LoggedOnce, \A d \in Calls : GentleOK(d), RoomOK, NotRefused,
           [Next]_vars
    PROVE  NotRefused'
<1>1. UNCHANGED env
  BY DEF Next, CallStep, ReserveCall, PreflightReserve, Reserve, Reject, PreflightRelease,
     EmitReserved, Charge, Answer, Settle, Record, RecordBudgetTerminal, Crash, Restore, vars
<1>2. Restore \/ proc' = proc \/ proc' = "down"
  BY DEF Next, CallStep, ReserveCall, PreflightReserve, Reserve, Reject, PreflightRelease,
     EmitReserved, Charge, Answer, Settle, Record, RecordBudgetTerminal, Crash, vars
<1>3. ASSUME GentleEnv PROVE Replay.ok
  <2>1. ReplayTypeOK /\ Len(log) \in Nat /\ DOMAIN log = 1..Len(log) /\ Len(log) \in 0..Len(log)
    BY TypeReplay DEF TypeOK
  <2>2. PICK r : Runs(r, Len(log)) /\ Replay = r[Len(log)]
    BY <2>1, ReplayRuns
  <2>3. \A c \in Calls : RestoredBill(c) <= size[c]
    BY <1>3, GentleBill DEF CallsOK
  <2> QED BY <1>3, <2>1, <2>2, <2>3, ReplayAccepts DEF RoomOK
<1> QED BY <1>1, <1>2, <1>3 DEF NotRefused, GentleEnv, Restore

-----------------------------------------------------------------------------
(* The invariant *)

LedgerInv ==
    /\ TypeOK /\ CallsOK /\ LoggedOnce /\ SumsOK /\ CostBounded
    /\ OneAtATime /\ (\A c \in Calls : GentleOK(c)) /\ RoomOK /\ NotRefused

\* The invariant holds when the process starts.
LEMMA LedgerInit == Init => LedgerInv
<1> SUFFICES ASSUME Init PROVE LedgerInv
  OBVIOUS
<1> USE LedgerAssumption
<1>1. TypeOK
  BY DEF Init, TypeOK, Places, Books, Answers, NoEvent
<1>2. CallsOK /\ \A c \in Calls : GentleOK(c)
  BY DEF Init, CallsOK, EventsOK, ProviderOK, BooksOK, GentleOK, InFlight, Durable, Booked,
     NoEvent, Logged, Range
<1>3. LoggedOnce /\ OneAtATime /\ RoomOK /\ NotRefused
  BY DEF Init, LoggedOnce, OneAtATime, InFlight, RoomOK, NotRefused
<1>4. /\ \A c \in Calls : bill[c] = 0
      /\ \A c \in Calls : Claim[c] = 0
      /\ \A c \in Calls : OrdinaryClaim[c] = 0
      /\ \A c \in Calls : Cost[c] = 0
  BY DEF Init, Claim, OrdinaryClaim, Cost
<1>5. /\ Total(bill, Calls) = 0 /\ Total(Claim, Calls) = 0
      /\ Total(OrdinaryClaim, Calls) = 0 /\ Total(Cost, Calls) = 0
  BY <1>4, TotalZero
<1>6. SumsOK /\ CostBounded
  BY <1>5 DEF Init, SumsOK, CostBounded
<1> QED BY <1>1, <1>2, <1>3, <1>6 DEF LedgerInv

\* Every step of a call, a crash and a restore keep the invariant.
LEMMA LedgerStep == LedgerInv /\ [Next]_vars => LedgerInv'
<1> SUFFICES ASSUME LedgerInv, [Next]_vars PROVE LedgerInv'
  OBVIOUS
<1> USE DEF LedgerInv
<1>1. TypeOK'
  BY TypeStep
<1>2. CallsOK'
  <2>1. \A d \in Calls : EventsOK(d) /\ ProviderOK(d) /\ BooksOK(d)
    BY DEF CallsOK
  <2>2. \A d \in Calls : EventsOK(d)' /\ ProviderOK(d)' /\ BooksOK(d)'
    BY <2>1, EventsStep, ProviderStep, BooksStep
  <2> QED BY <2>2 DEF CallsOK
<1>3. \A d \in Calls : GentleOK(d)'
  <2>1. \A d \in Calls : EventsOK(d) /\ ProviderOK(d) /\ BooksOK(d) /\ GentleOK(d)
    BY DEF CallsOK
  <2> QED BY <2>1, GentleStep
<1>4. LoggedOnce' /\ OneAtATime' /\ NotRefused'
  BY LoggedOnceStep, OneAtATimeStep, NotRefusedStep
<1>5. SumsOK' /\ RoomOK'
  BY <1>1, SumsStep, RoomStep
<1>6. CostBounded'
  BY <1>1, <1>2, <1>5, CostStep
<1> QED BY <1>1, <1>2, <1>3, <1>4, <1>5, <1>6

\* The invariant holds of every reachable state.
THEOREM LedgerInvariant == Spec => []LedgerInv
  BY LedgerInit, LedgerStep, PTL DEF Spec

-----------------------------------------------------------------------------
(* The theorems *)

\* TypeOK: the state has its types and the running counter of the budget
\* never goes below zero, whatever interleaves and wherever the process stops.
THEOREM LedgerTypes == Spec => []TypeOK
<1>1. LedgerInv => TypeOK
  BY DEF LedgerInv
<1> QED BY <1>1, LedgerInvariant, PTL

\* SpendBounded: reserve before the call, settle after it, and replay on
\* restart keep what the provider charges within the policy's limit, up to
\* what it charged above the reservations it was given.
THEOREM SpendWithinLimit == Spec => []SpendBounded
<1>1. ASSUME LedgerInv PROVE SpendBounded
  <2>1. Amounted(Cost) /\ Amounted(Excess)
    BY <1>1 DEF LedgerInv, TypeOK, Amounted, Cost, Excess
  <2>2. \A c \in Calls : spent[c] = Cost[c] + Excess[c]
    BY <1>1 DEF LedgerInv, TypeOK, Cost, Excess
  <2>3. Total(spent, Calls) = Total(Cost, Calls) + Total(Excess, Calls)
    BY <2>1, <2>2, TotalPlus
  <2>4. Total(Cost, Calls) \in Nat /\ Total(Excess, Calls) \in Nat /\ Limit \in Nat
    BY <2>1, TotalType, LedgerAssumption
  <2> QED BY <1>1, <2>3, <2>4 DEF LedgerInv, CostBounded, SpendBounded, Overrun
<1>2. LedgerInv => SpendBounded
  BY <1>1
<1> QED BY <1>2, LedgerInvariant, PTL

\* RestartCovers: at every moment restore_run_budget_state would bill at
\* least what was charged, up to the overruns.
THEOREM RestartBillsCharges == Spec => []RestartCovers
<1>1. ASSUME LedgerInv PROVE RestartCovers
  <2>1. Amounted(Cost) /\ Amounted(Excess) /\ Amounted(Due(Logged))
    BY <1>1, TypeReplay, DueType DEF LedgerInv, TypeOK, Amounted, Cost, Excess
  <2>2. \A c \in Calls : spent[c] = Cost[c] + Excess[c]
    BY <1>1 DEF LedgerInv, TypeOK, Cost, Excess
  <2>3. ASSUME NEW c \in Calls PROVE Cost[c] <= Due(Logged)[c]
    <3>1. EventsOK(c) /\ spent[c] \in Nat /\ size[c] \in Nat
      BY <1>1 DEF LedgerInv, CallsOK, TypeOK
    <3> QED BY <3>1 DEF EventsOK, Cost, Due, RestoredBill
  <2>4. Total(spent, Calls) = Total(Cost, Calls) + Total(Excess, Calls)
    BY <2>1, <2>2, TotalPlus
  <2>5. Total(Cost, Calls) <= Total(Due(Logged), Calls)
    BY <2>1, <2>3, TotalMonotone
  <2>6. Replay.used = Total(Due(Logged), Calls)
    BY <1>1, TypeReplay, ReplayResult DEF LedgerInv
  <2>7. /\ Total(Cost, Calls) \in Nat /\ Total(Excess, Calls) \in Nat
        /\ Total(Due(Logged), Calls) \in Nat
    BY <2>1, TotalType
  <2> QED BY <2>4, <2>5, <2>6, <2>7 DEF RestartCovers, Overrun
<1>2. LedgerInv => RestartCovers
  BY <1>1
<1> QED BY <1>2, LedgerInvariant, PTL

\* FinalizationAdmitted: a protected reservation that fits in what is left of
\* the protected part passes _enforce, whatever ordinary calls are in flight.
THEOREM FinalizationNeverLockedOut == Spec => []FinalizationAdmitted
<1>1. ASSUME LedgerInv, proc = "up", NEW n \in Amounts,
             n + (Total(size, Active \cap ProtectedSet) + ProtectedBilled)
                 + Overrun(Calls \ ProtectedSet) <= Protected
      PROVE  Admits(n, TRUE)
  <2> DEFINE extra == [c \in Calls |-> IF prot[c] THEN 0 ELSE Excess[c]]
             ord   == [c \in Calls |-> OrdinaryBill[c] + OrdinarySize[c]]
             top   == [c \in Calls |-> OrdinaryClaim[c] + extra[c]]
  <2>0. TypeOK /\ CallsOK /\ SumsOK
    BY <1>1 DEF LedgerInv
  <2>1. /\ Amounted(OrdinaryBill) /\ Amounted(OrdinarySize) /\ Amounted(ProtectedBill)
        /\ Amounted(ProtectedSize) /\ Amounted(OrdinaryClaim) /\ Amounted(Claim)
    BY <2>0, BookAmounts
  <2>2. Amounted(Excess)
    BY <2>0 DEF Amounted, Excess, TypeOK
  <2>3. Amounted(extra) /\ Amounted(ord) /\ Amounted(top)
    BY <2>1, <2>2 DEF Amounted
  <2>4. ASSUME NEW c \in Calls PROVE ord[c] <= top[c]
    <3>1. CASE prot[c]
      BY <3>1 DEF OrdinaryBill, OrdinarySize, OrdinaryClaim
    <3>2. CASE ~prot[c]
      <4>1. BooksOK(c) /\ book[c] \in Books /\ bill[c] \in Nat /\ size[c] \in Nat
            /\ spent[c] \in Nat
        BY <2>0 DEF CallsOK, TypeOK
      <4>2. bill[c] + HeldSize[c] <= Claim[c] + Excess[c]
        BY <1>1, <4>1 DEF BooksOK, Books, HeldSize, Claim, Excess
      <4> QED BY <3>2, <4>2 DEF OrdinaryBill, OrdinarySize, OrdinaryClaim
    <3> QED BY <3>1, <3>2
  <2>5. Overrun(Calls \ ProtectedSet) = Total(extra, Calls)
    <3> DEFINE T == Calls \ ProtectedSet
    <3>1. /\ T \subseteq Calls /\ \A c \in T : Excess[c] = extra[c]
          /\ \A c \in Calls \ T : extra[c] = 0
      BY DEF ProtectedSet
    <3>2. Overrun(T) = Total(Excess, T)
      BY DEF Overrun
    <3> HIDE DEF T, extra
    <3>3. Overrun(T) = Total(extra, Calls)
      BY <2>3, <3>1, <3>2, TotalPart
    <3> QED BY <3>3 DEF T
  <2>6. /\ \A c \in Calls : ord[c] = OrdinaryBill[c] + OrdinarySize[c]
        /\ \A c \in Calls : top[c] = OrdinaryClaim[c] + extra[c]
    OBVIOUS
  <2> HIDE DEF extra, ord, top
  <2>7. /\ Total(ord, Calls) = Total(OrdinaryBill, Calls) + Total(OrdinarySize, Calls)
        /\ Total(top, Calls) = Total(OrdinaryClaim, Calls) + Total(extra, Calls)
    BY <2>1, <2>3, <2>6, TotalPlus
  <2>8. Total(ord, Calls) <= Total(top, Calls)
    BY <2>3, <2>4, TotalMonotone
  <2>9. /\ used = Total(bill, Calls) /\ Total(OrdinaryClaim, Calls) <= Limit - Protected
    BY <1>1, <2>0 DEF SumsOK
  <2>10. /\ Total(OrdinaryBill, Calls) \in Nat /\ Total(OrdinarySize, Calls) \in Nat
         /\ Total(ProtectedBill, Calls) \in Nat /\ Total(ProtectedSize, Calls) \in Nat
         /\ Total(OrdinaryClaim, Calls) \in Nat /\ Total(extra, Calls) \in Nat
         /\ n \in Nat /\ Limit \in Nat /\ Protected \in 0..Limit
    BY <2>1, <2>3, TotalType, LedgerAssumption
  <2>11. n + (Total(ProtectedSize, Calls) + Total(ProtectedBill, Calls))
           + Total(extra, Calls) <= Protected
    BY <1>1, <2>0, <2>5, BookTotals
  <2>12. used + Held = (Total(OrdinaryBill, Calls) + Total(ProtectedBill, Calls))
                       + (Total(OrdinarySize, Calls) + Total(ProtectedSize, Calls))
    BY <2>0, <2>9, BookTotals
  <2>13. (used + Held) + n <= Limit
    BY <2>7, <2>8, <2>9, <2>10, <2>11, <2>12
  <2> QED BY <2>13 DEF Admits
<1>2. LedgerInv => FinalizationAdmitted
  BY <1>1 DEF FinalizationAdmitted
<1> QED BY <1>2, LedgerInvariant, PTL

\* ResumeAccepted: a session that made one call at a time, and whose provider
\* and event store behaved, can always be resumed: the replay admits every
\* call that the live run admitted.
THEOREM ResumeNotRefused == Spec => []ResumeAccepted
<1>1. LedgerInv => ResumeAccepted
  BY DEF LedgerInv, NotRefused, ResumeAccepted, GentleEnv
<1> QED BY <1>1, LedgerInvariant, PTL
=============================================================================
