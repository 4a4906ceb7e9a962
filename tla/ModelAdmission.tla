--------------------------- MODULE ModelAdmission ---------------------------
(***************************************************************************)
(* Admission of the calls that consume the model (chat, attachments,       *)
(* audio): the three Lua scripts of app/redis_resource_backend.py, each    *)
(* atomic in Redis, and model_resource_lease of app/routes/chat.py, which  *)
(* acquires a lease before a call, renews it beside the call and releases  *)
(* it afterwards.  Several replicas of the API share one Redis.            *)
(*                                                                         *)
(* A request draws one token, so requests stand for tokens.  Time is       *)
(* relative: left is what remains of a lease (its score is always the same *)
(* in both sorted sets, which every script writes together), age counts    *)
(* the ticks since an admission up to the rate window.  The replica's      *)
(* clock and Redis' clock are one; a renewal may come arbitrarily late.    *)
(*                                                                         *)
(* A call of Redis can fail before or after the script ran.                *)
(*                                                                         *)
(* A definition X_Y is a faulty variant of X, which the runs must reject.  *)
(***************************************************************************)
EXTENDS Naturals, FiniteSets, FiniteSetsExt

CONSTANTS
    Users, Requests, Replicas,
    Owner, At,       \* the user and the replica of each request
    Units,           \* the budget units each request asks for: requests above
                     \* max_request_budget_units are refused without effect
                     \* and are left out
    GlobalLimit, UserLimit, RpmLimit,
    UserDaily, GlobalDaily,
    Ttl,             \* ticks a lease lives without renewal
    Window,          \* ticks of the rate window (one minute)
    Everyone         \* the key of the global budget

ASSUME RequestAssumption ==
    /\ IsFiniteSet(Requests)
    /\ Owner \in [Requests -> Users] /\ At \in [Requests -> Replicas]
    /\ Units \in [Requests -> Nat \ {0}]
    /\ Everyone \notin Users
\* model_resource_policy refuses anything else.
ASSUME PolicyAssumption ==
    /\ {GlobalLimit, UserLimit, RpmLimit} \subseteq Nat \ {0}
    /\ {UserDaily, GlobalDaily, Ttl, Window} \subseteq Nat \ {0}
    /\ UserLimit <= GlobalLimit /\ UserDaily <= GlobalDaily

VARIABLES
    \* Redis: tokens in the sorted sets, and the two kinds of budget hash
    global, own, left, rpm, age, spent,
    \* the admissions of the current day (history)
    today,
    \* the requests, the renewal task of each, the flag of each replica
    pc, loop, failed

redisVars == <<global, own, left, rpm, age, spent, today>>
vars == <<redisVars, pc, loop, failed>>

Of(u) == {r \in Requests : Owner[r] = u}

TypeOK ==
    /\ global \subseteq Requests /\ own \subseteq Requests
    /\ left \in [Requests -> 0..Ttl]
    /\ rpm \subseteq Requests /\ age \in [Requests -> 0..Window]
    /\ spent \in [Users \cup {Everyone} ->
                  [day : {"today", "past"}, used : Nat]]
    /\ today \subseteq Requests
    /\ pc \in [Requests -> {"new", "denied", "running", "ended"}]
    /\ loop \in [Requests -> {"off", "asleep", "calling", "late"}]
    /\ failed \in [Replicas -> BOOLEAN]

Init ==
    /\ global = {} /\ own = {} /\ left = [r \in Requests |-> 0]
    /\ rpm = {} /\ age = [r \in Requests |-> Window]
    /\ spent = [k \in Users \cup {Everyone} |-> [day |-> "past", used |-> 0]]
    /\ today = {}
    /\ pc = [r \in Requests |-> "new"]
    /\ loop = [r \in Requests |-> "off"]
    /\ failed = [p \in Replicas |-> FALSE]

-----------------------------------------------------------------------------
(* ACQUIRE_LUA *)

Live(S) == {r \in S : left[r] > 0}
\* The purge covers the global set and the set of the caller's user.
PurgedGlobal == Live(global)
PurgedOwn(u) == (own \ Of(u)) \cup Live(own \cap Of(u))
PurgedRpm(u) == (rpm \ Of(u)) \cup {r \in rpm \cap Of(u) : age[r] < Window}

GlobalFull_OffByOne == Cardinality(PurgedGlobal) > GlobalLimit
GlobalFull == Cardinality(PurgedGlobal) >= GlobalLimit
UserFull(u) == Cardinality(PurgedOwn(u) \cap Of(u)) >= UserLimit
RateFull(u) == Cardinality(PurgedRpm(u) \cap Of(u)) >= RpmLimit

UsedToday(k) == IF spent[k].day = "today" THEN spent[k].used ELSE 0
OverBudget_Spent(r) ==
    \/ UsedToday(Owner[r]) >= UserDaily
    \/ UsedToday(Everyone) >= GlobalDaily
OverBudget(r) ==
    \/ UsedToday(Owner[r]) + Units[r] > UserDaily
    \/ UsedToday(Everyone) + Units[r] > GlobalDaily
Charge(r) ==
    spent' = [k \in Users \cup {Everyone} |->
                IF k \in {Owner[r], Everyone}
                THEN [day |-> "today", used |-> UsedToday(k) + Units[r]]
                ELSE spent[k]]

\* The script admits the token of r.
Admission(r) ==
    LET u == Owner[r] IN
    /\ ~GlobalFull /\ ~UserFull(u) /\ ~RateFull(u) /\ ~OverBudget(r)
    /\ global' = PurgedGlobal \cup {r}
    /\ own' = PurgedOwn(u) \cup {r}
    /\ left' = [left EXCEPT ![r] = Ttl]
    /\ rpm' = PurgedRpm(u) \cup {r}
    /\ age' = [age EXCEPT ![r] = 0]
    /\ Charge(r)
    /\ today' = today \cup {r}

\* The script refuses r; only the purges done before the failing check remain.
Rejection(r) ==
    LET u == Owner[r] IN
    \/ /\ GlobalFull \/ UserFull(u)
       /\ global' = PurgedGlobal /\ own' = PurgedOwn(u)
       /\ UNCHANGED <<left, rpm, age, spent, today>>
    \/ /\ ~GlobalFull /\ ~UserFull(u)
       /\ RateFull(u) \/ OverBudget(r)
       /\ global' = PurgedGlobal /\ own' = PurgedOwn(u)
       /\ rpm' = PurgedRpm(u)
       /\ UNCHANGED <<left, age, spent, today>>

-----------------------------------------------------------------------------
(* model_resource_lease *)

\* _model_resource_backend: a replica that has lost track admits nothing.
Open(r) == ~failed[At[r]]

Admit(r) ==
    /\ pc[r] = "new" /\ Open(r)
    /\ Admission(r)
    /\ pc' = [pc EXCEPT ![r] = "running"]
    /\ loop' = [loop EXCEPT ![r] = "asleep"]
    /\ UNCHANGED failed

\* 429: a limit is reached.
Refuse(r) ==
    /\ pc[r] = "new" /\ Open(r)
    /\ Rejection(r)
    /\ pc' = [pc EXCEPT ![r] = "denied"]
    /\ UNCHANGED <<loop, failed>>

\* 503: the replica is latched, or the script ran or not and its answer never
\* came.  What the script did stays in Redis.
Unavailable(r) ==
    /\ pc[r] = "new"
    /\ \/ ~Open(r) /\ UNCHANGED redisVars
       \/ Open(r) /\ (Admission(r) \/ Rejection(r) \/ UNCHANGED redisVars)
    /\ pc' = [pc EXCEPT ![r] = "denied"]
    /\ UNCHANGED <<loop, failed>>

\* RELEASE_LUA: both indexes, whatever they hold.
Removed(r) ==
    /\ global' = global \ {r} /\ own' = own \ {r}
    /\ left' = [left EXCEPT ![r] = 0]
    /\ UNCHANGED <<rpm, age, spent, today>>

Latch_Never(r) == UNCHANGED failed
Latch(r) == failed' = [failed EXCEPT ![At[r]] = TRUE]

\* The work ends, with an answer or an exception.  The renewal task is
\* cancelled, but a renewal already handed to a thread goes on; then the lease
\* is released.
Cancelled_Forgotten(l) == l
Cancelled(l) == IF l \in {"calling", "late"} THEN "late" ELSE "off"
Finish(r) ==
    /\ pc[r] = "running"
    /\ pc' = [pc EXCEPT ![r] = "ended"]
    /\ loop' = [loop EXCEPT ![r] = Cancelled(@)]
    /\ \/ Removed(r) /\ UNCHANGED failed
       \/ (Removed(r) \/ UNCHANGED redisVars) /\ Latch(r)

\* keep_lease_alive hands a renewal to a thread ...
StartRenewal(r) ==
    /\ loop[r] = "asleep"
    /\ loop' = [loop EXCEPT ![r] = "calling"]
    /\ UNCHANGED <<redisVars, pc, failed>>

\* ... where RENEW_LUA refuses a token that is not in both indexes.
Present(r) == r \in global /\ r \in own
Renewed_Recreated(r) ==
    /\ global' = global \cup {r} /\ own' = own \cup {r}
    /\ left' = [left EXCEPT ![r] = Ttl]
    /\ UNCHANGED <<rpm, age, spent, today>>
Renewed(r) ==
    /\ Present(r)
    /\ left' = [left EXCEPT ![r] = Ttl]
    /\ UNCHANGED <<global, own, rpm, age, spent, today>>

Renew(r) ==
    /\ loop[r] \in {"calling", "late"}
    /\ Renewed(r)
    /\ loop' = [loop EXCEPT ![r] = IF @ = "calling" THEN "asleep" ELSE "off"]
    /\ UNCHANGED <<pc, failed>>

\* The token is gone, or the call of Redis fails: the task ends and latches
\* its replica; the work it was for goes on.  Nobody hears a late thread.
Lost(r) ==
    /\ loop[r] \in {"calling", "late"}
    /\ Renewed(r) \/ UNCHANGED redisVars
    /\ loop' = [loop EXCEPT ![r] = "off"]
    /\ IF loop[r] = "calling" THEN Latch(r) ELSE UNCHANGED failed
    /\ UNCHANGED pc

\* The process of a replica dies with its calls, and starts again.
Crash(p) ==
    /\ pc' = [r \in Requests |-> IF At[r] = p /\ pc[r] = "running"
                                 THEN "ended" ELSE pc[r]]
    /\ loop' = [r \in Requests |-> IF At[r] = p THEN "off" ELSE loop[r]]
    /\ failed' = [failed EXCEPT ![p] = FALSE]
    /\ UNCHANGED redisVars

Elapsed_Endless(n) == n - 1
Elapsed(n) == IF n > 0 THEN n - 1 ELSE 0
Tick ==
    /\ left' = [r \in Requests |-> Elapsed(left[r])]
    /\ age' = [r \in Requests |-> IF age[r] < Window THEN age[r] + 1
                                                      ELSE Window]
    /\ UNCHANGED <<global, own, rpm, spent, today, pc, loop, failed>>

\* PEXPIRE: Redis drops a sorted set of leases as a whole once the last lease
\* written to it would have expired.  (The set of a user's admissions and the
\* budgets are kept longer than anything in them counts.)
GlobalIndexExpires ==
    /\ global # {} /\ Live(global) = {}
    /\ global' = {}
    /\ UNCHANGED <<own, left, rpm, age, spent, today, pc, loop, failed>>
OwnIndexExpires(u) ==
    /\ own \cap Of(u) # {} /\ Live(own \cap Of(u)) = {}
    /\ own' = own \ Of(u)
    /\ UNCHANGED <<global, left, rpm, age, spent, today, pc, loop, failed>>

\* Midnight UTC: current_day is another string.
NewDay ==
    /\ spent' = [k \in DOMAIN spent |-> [spent[k] EXCEPT !.day = "past"]]
    /\ today' = {}
    /\ UNCHANGED <<global, own, left, rpm, age, pc, loop, failed>>

Next ==
    \/ \E r \in Requests :
          \/ Admit(r) \/ Refuse(r) \/ Unavailable(r) \/ Finish(r)
          \/ StartRenewal(r) \/ Renew(r) \/ Lost(r)
    \/ \E p \in Replicas : Crash(p)
    \/ \E u \in Users : OwnIndexExpires(u)
    \/ Tick \/ GlobalIndexExpires \/ NewDay

\* Time passes, and the event loop runs the renewal task.  How long the model
\* takes to answer (Finish) is not the program's to promise.
Fairness ==
    /\ WF_vars(Tick)
    /\ \A r \in Requests :
          WF_vars(Renew(r) \/ Lost(r)) /\ WF_vars(StartRenewal(r))

Spec == Init /\ [][Next]_vars /\ Fairness
-----------------------------------------------------------------------------

\* Never more leases than places: neither over all replicas nor for one user
\* (ACQUIRE_LUA counts and adds in one script), whatever is renewed late,
\* released twice or left behind by a crash; and a lease that
\* counts against the whole service counts against its user, and conversely.
PlacesBounded ==
    /\ Cardinality(global) <= GlobalLimit
    /\ \A u \in Users : Cardinality(own \cap Of(u)) <= UserLimit
    /\ Live(global) = Live(own)

\* In no window of one minute is a user admitted more often than the policy
\* allows, and on no day do a user or all users together spend more than
\* their budgets: measured by the admissions themselves, not by the counters
\* the script keeps.
RateKept ==
    \A u \in Users : Cardinality({r \in Of(u) : age[r] < Window}) <= RpmLimit
UnitsOf(S) == MapThenSumSet(LAMBDA r : Units[r], S)
BudgetsKept ==
    /\ \A u \in Users : UnitsOf(today \cap Of(u)) <= UserDaily
    /\ UnitsOf(today) <= GlobalDaily
QuotasKept == RateKept /\ BudgetsKept

\* A running call whose lease is gone (it expired and another admission purged
\* it) is noticed: the call ends, or its replica stops admitting.
LostLeaseIsNoticed ==
    \A r \in Requests : (pc[r] = "running" /\ r \notin global)
                        ~> (pc[r] # "running" \/ failed[At[r]])

\* A place nobody works in is free again in the end: after a crash, an answer
\* of ACQUIRE_LUA that never arrived, or a release that failed.
Abandoned(r) == r \in Live(global)
                /\ pc[r] \in {"denied", "ended"}
AbandonedLeaseExpires == \A r \in Requests : Abandoned(r) ~> ~Abandoned(r)

\* The places are those of the semaphore.
Stage(r) == IF r \in Live(global) THEN "held"
            ELSE IF r \in global \/ pc[r] = "new" THEN "free"
            ELSE "over"
Semaphore == INSTANCE ExpiringSemaphore
    WITH Tokens <- Requests, Limit <- GlobalLimit,
         stage <- [r \in Requests |-> Stage(r)]

\* Every step of the three scripts is a step of the semaphore: a renewal takes
\* a place only where one is free, and a lease that was released or purged
\* never comes back, whichever thread still renews it.
ImplementsSemaphore == Semaphore!Spec
-----------------------------------------------------------------------------
(* The inductive invariants: IInv behind PlacesBounded, RateKept and the     *)
(* refinement, BudgetInv behind BudgetsKept                                  *)

\* A token enters the indexes with its request's only call of ACQUIRE_LUA, and
\* an admission that still counts for the rate is in the set of admissions.
IInv ==
    /\ PlacesBounded
    /\ RateKept
    /\ \A r \in global : pc[r] # "new"
    /\ \A r \in Requests : age[r] < Window => r \in rpm

\* The counters of the script are the sums of the admissions they were charged
\* with, and a request is charged once.
BudgetInv ==
    /\ BudgetsKept
    /\ \A u \in Users : UsedToday(u) = UnitsOf(today \cap Of(u))
    /\ UsedToday(Everyone) = UnitsOf(today)
    /\ \A r \in today : pc[r] # "new"
=============================================================================
