------------------------- MODULE RequestGatesProofs -------------------------
(***************************************************************************)
(* Proofs about RequestGates, for any finite set of requests, any tenants, *)
(* any limits, with and without a search timeout.                          *)
(*                                                                         *)
(* The counters are the numbers of requests that hold a slot: every path   *)
(* out of a handler takes its own request out of exactly one of those      *)
(* sets.  For the pools the inductive invariant also says whose job is     *)
(* where (JobsMatch): a job is in one place, belongs to the pool its       *)
(* request asked for, and a handler that is not waiting for it has timed   *)
(* out, which ingests never do.                                            *)
(***************************************************************************)
EXTENDS RequestGates, FiniteSetTheorems, SequenceTheorems, TLAPS

Slots(t) == {r \in Request : tenant[r] = t}

\* What each phase of a handler says about its request.
PhasesMatch ==
  \A r \in Request :
    /\ phase[r] = "new" => tenant[r] = None
    /\ phase[r] \in {"waiting", "ready"} => kind[r] \in Pool

\* No request is twice in a queue.
Once(s) == \A i, j \in 1 .. Len(s) : s[i] = s[j] => i = j

JobOf(k, r) ==
  /\ kind[r] = k
  /\ phase[r] \in {"waiting", "leaving", "new"}
  /\ k = "ingest" => phase[r] = "waiting"

JobsMatch ==
  \A k \in Pool :
    /\ \A r \in Elements(queue[k]) \cup running[k] : JobOf(k, r)
    /\ Once(queue[k])
    /\ \A r \in Elements(queue[k]) : r \notin running[k]

WithinCaps ==
  \A k \in Pool : active[k] <= MaxActive[k] /\ Cardinality(running[k]) <= MaxActive[k]

Inv == TypeOK /\ SlotsMatch /\ PhasesMatch /\ JobsMatch /\ WithinCaps

-----------------------------------------------------------------------------
(* Queues.                                                                 *)

\* What is appended is the only new element, and is there once.
LEMMA AppendElements ==
  ASSUME NEW S, NEW s \in Seq(S), NEW x \in S
  PROVE  /\ Append(s, x) \in Seq(S)
         /\ Elements(Append(s, x)) = Elements(s) \cup {x}
         /\ Once(s) /\ x \notin Elements(s) => Once(Append(s, x))
<1>1. /\ Append(s, x) \in Seq(S) /\ Len(Append(s, x)) = Len(s) + 1
      /\ \A i \in 1 .. Len(s) : Append(s, x)[i] = s[i]
      /\ Append(s, x)[Len(s) + 1] = x
  BY AppendProperties
<1>2. Len(s) \in Nat
  OBVIOUS
<1>3. Elements(Append(s, x)) = Elements(s) \cup {x}
  BY <1>1, <1>2 DEF Elements
<1>4. ASSUME Once(s), x \notin Elements(s) PROVE Once(Append(s, x))
  BY <1>1, <1>2, <1>4 DEF Elements, Once
<1> QED
  BY <1>1, <1>3, <1>4

\* The head leaves the queue, and is not there a second time.
LEMMA TailElements ==
  ASSUME NEW S, NEW s \in Seq(S), s # <<>>
  PROVE  /\ Tail(s) \in Seq(S) /\ Head(s) \in S
         /\ Elements(s) = Elements(Tail(s)) \cup {Head(s)}
         /\ Once(s) => Once(Tail(s)) /\ Head(s) \notin Elements(Tail(s))
<1>1. /\ Tail(s) \in Seq(S) /\ Len(Tail(s)) = Len(s) - 1
      /\ \A i \in 1 .. Len(Tail(s)) : Tail(s)[i] = s[i + 1]
      /\ Head(s) = s[1] /\ Head(s) \in S
  BY HeadTailProperties
<1>2. Len(s) \in Nat /\ Len(s) > 0
  OBVIOUS
<1>3. ASSUME NEW x \in Elements(s) PROVE x \in Elements(Tail(s)) \cup {Head(s)}
  <2>1. PICK i \in 1 .. Len(s) : x = s[i]
    BY <1>3 DEF Elements
  <2>2. CASE i = 1
    BY <1>1, <2>1, <2>2
  <2>3. CASE i # 1
    <3>1. i - 1 \in 1 .. Len(Tail(s)) /\ Tail(s)[i - 1] = x
      BY <1>1, <1>2, <2>1, <2>3
    <3> QED
      BY <3>1 DEF Elements
  <2> QED
    BY <2>2, <2>3
<1>4. Elements(Tail(s)) \cup {Head(s)} \subseteq Elements(s)
  BY <1>1, <1>2 DEF Elements
<1>5. ASSUME Once(s) PROVE Once(Tail(s)) /\ Head(s) \notin Elements(Tail(s))
  BY <1>1, <1>2, <1>5 DEF Elements, Once
<1> QED
  BY <1>1, <1>3, <1>4, <1>5

\* A queue in which nothing is twice is as long as the set of its elements.
LEMMA OnceCounts ==
  ASSUME NEW S, NEW s \in Seq(S), Once(s)
  PROVE  IsFiniteSet(Elements(s)) /\ Cardinality(Elements(s)) = Len(s)
<1>1. Len(s) \in Nat /\ DOMAIN s = 1 .. Len(s) /\ s \in [1 .. Len(s) -> S]
  OBVIOUS
<1>2. IsFiniteSet(1 .. Len(s)) /\ Cardinality(1 .. Len(s)) = Len(s)
  BY <1>1, FS_Interval
<1>3. s \in [1 .. Len(s) -> Elements(s)]
  BY <1>1 DEF Elements
<1>4. s \in Bijection(1 .. Len(s), Elements(s))
  BY <1>1, <1>3 DEF Bijection, Injection, Surjection, IsInjective, Elements, Once
<1> QED
  BY <1>1, <1>2, <1>4, FS_Bijection DEF ExistsBijection

-----------------------------------------------------------------------------
(* Counting slots.                                                         *)

\* A set of requests is finite and grows and shrinks by one.
LEMMA Counts ==
  ASSUME NEW S \in SUBSET Request
  PROVE  /\ IsFiniteSet(S) /\ Cardinality(S) \in Nat
         /\ \A r \in Request \ S : Cardinality(S \cup {r}) = Cardinality(S) + 1
         /\ \A r \in S : Cardinality(S \ {r}) = Cardinality(S) - 1 /\ Cardinality(S) > 0
<1>1. IsFiniteSet(S) /\ Cardinality(S) \in Nat
  BY FS_Subset, FS_CardinalityType, GatesAssumption
<1>2. \A r \in Request \ S : Cardinality(S \cup {r}) = Cardinality(S) + 1
  BY <1>1, FS_AddElement
<1>3. \A r \in S : Cardinality(S \ {r}) = Cardinality(S) - 1
  BY <1>1, FS_RemoveElement
<1>4. \A r \in S : Cardinality(S) > 0
  BY <1>1, FS_EmptySet
<1> QED
  BY <1>1, <1>2, <1>3, <1>4

TenantsMatch == \A t \in Tenant : tenantActive[t] = Cardinality(Slots(t))
GatesMatch == \A k \in Pool : active[k] = Cardinality(Held(k))

\* The two halves of SlotsMatch.
LEMMA Halves ==
  /\ SlotsMatch <=> TenantsMatch /\ GatesMatch
  /\ SlotsMatch' <=> TenantsMatch' /\ GatesMatch'
BY DEF SlotsMatch, TenantsMatch, GatesMatch, Slots

\* A request that gets a slot of a tenant is counted there and nowhere else.
LEMMA TenantTakes ==
  ASSUME TypeOK, TenantsMatch, NEW r \in Request, tenant[r] = None, NEW t \in Tenant,
         tenant' = [tenant EXCEPT ![r] = t],
         tenantActive' = [tenantActive EXCEPT ![t] = @ + 1]
  PROVE  TenantsMatch'
<1> SUFFICES ASSUME NEW u \in Tenant PROVE tenantActive'[u] = Cardinality(Slots(u)')
  BY DEF TenantsMatch
<1>1. Slots(u) \in SUBSET Request /\ tenantActive[u] = Cardinality(Slots(u))
  BY DEF Slots, TenantsMatch
<1>2. CASE u = t
  <2>1. Slots(u)' = Slots(u) \cup {r} /\ r \notin Slots(u)
    BY <1>2, GatesAssumption DEF TypeOK, Slots
  <2> QED
    BY <1>1, <1>2, <2>1, Counts DEF TypeOK
<1>3. CASE u # t
  <2>1. Slots(u)' = Slots(u)
    BY <1>3, GatesAssumption DEF TypeOK, Slots
  <2> QED
    BY <1>1, <1>3, <2>1 DEF TypeOK
<1> QED
  BY <1>2, <1>3

\* A request that leaves gives back the slot it had, if any.
LEMMA TenantGetsBack ==
  ASSUME TypeOK, TenantsMatch, NEW r \in Request, Leave(r)
  PROVE  TenantsMatch'
<1> SUFFICES ASSUME NEW u \in Tenant PROVE tenantActive'[u] = Cardinality(Slots(u)')
  BY DEF TenantsMatch
<1>1. Slots(u) \in SUBSET Request /\ tenantActive[u] = Cardinality(Slots(u))
  BY DEF Slots, TenantsMatch
<1>2. CASE u = tenant[r]
  <2>1. Slots(u)' = Slots(u) \ {r} /\ r \in Slots(u)
    BY <1>2, GatesAssumption DEF Leave, TypeOK, Slots
  <2> QED
    BY <1>1, <1>2, <2>1, Counts DEF Leave, TypeOK
<1>3. CASE u # tenant[r]
  <2>1. Slots(u)' = Slots(u)
    BY <1>3, GatesAssumption DEF Leave, TypeOK, Slots
  <2> QED
    BY <1>1, <1>3, <2>1 DEF Leave, TypeOK
<1> QED
  BY <1>2, <1>3

\* A request that enters a gate is counted at that gate and nowhere else.
LEMMA GateTakes ==
  ASSUME TypeOK, GatesMatch, NEW r \in Request, kind[r] \in Pool, kind' = kind,
         phase[r] \notin {"waiting", "ready"},
         phase' = [phase EXCEPT ![r] = "waiting"],
         active' = [active EXCEPT ![kind[r]] = @ + 1]
  PROVE  GatesMatch'
<1> SUFFICES ASSUME NEW k \in Pool PROVE active'[k] = Cardinality(Held(k)')
  BY DEF GatesMatch
<1>1. Held(k) \in SUBSET Request /\ active[k] = Cardinality(Held(k))
  BY DEF Held, GatesMatch
<1>2. CASE k = kind[r]
  <2>1. Held(k)' = Held(k) \cup {r} /\ r \notin Held(k)
    BY <1>2 DEF TypeOK, Held
  <2> QED
    BY <1>1, <1>2, <2>1, Counts DEF TypeOK
<1>3. CASE k # kind[r]
  <2>1. Held(k)' = Held(k)
    BY <1>3 DEF TypeOK, Held
  <2> QED
    BY <1>1, <1>3, <2>1 DEF TypeOK
<1> QED
  BY <1>2, <1>3

\* A request that leaves its gate is taken out of that count only.
LEMMA GateGetsBack ==
  ASSUME TypeOK, GatesMatch, NEW r \in Request, kind[r] \in Pool,
         phase[r] \in {"waiting", "ready"}, Answer(r)
  PROVE  GatesMatch' /\ \A k \in Pool : active'[k] \in Nat /\ active'[k] <= active[k]
<1> SUFFICES ASSUME NEW k \in Pool
             PROVE  /\ active'[k] = Cardinality(Held(k)')
                    /\ active'[k] \in Nat /\ active'[k] <= active[k]
  BY DEF GatesMatch
<1>1. Held(k) \in SUBSET Request /\ active[k] = Cardinality(Held(k))
  BY DEF Held, GatesMatch
<1>2. CASE k = kind[r]
  <2>1. Held(k)' = Held(k) \ {r} /\ r \in Held(k)
    BY <1>2 DEF Answer, TypeOK, Held
  <2>2. active'[k] = active[k] - 1
    BY <1>2 DEF Answer, TypeOK
  <2>3. /\ Cardinality(Held(k) \ {r}) = Cardinality(Held(k)) - 1
        /\ Cardinality(Held(k)) > 0 /\ Cardinality(Held(k)) \in Nat
    BY <1>1, <2>1, Counts
  <2>4. Cardinality(Held(k)') = Cardinality(Held(k)) - 1
    BY <2>1, <2>3
  <2> QED
    BY <1>1, <2>2, <2>3, <2>4
<1>3. CASE k # kind[r]
  <2>1. Held(k)' = Held(k)
    BY <1>3 DEF Answer, TypeOK, Held
  <2> QED
    BY <1>1, <1>3, <2>1 DEF Answer, TypeOK
<1> QED
  BY <1>2, <1>3

\* Elsewhere the counts do not change.
LEMMA CountsStay ==
  /\ TenantsMatch /\ UNCHANGED <<tenant, tenantActive>> => TenantsMatch'
  /\ GatesMatch /\ UNCHANGED active /\ (\A k \in Pool : Held(k)' = Held(k)) => GatesMatch'
<1>1. ASSUME TenantsMatch, UNCHANGED <<tenant, tenantActive>> PROVE TenantsMatch'
  BY <1>1 DEF TenantsMatch, Slots
<1>2. ASSUME GatesMatch, UNCHANGED active, \A k \in Pool : Held(k)' = Held(k)
      PROVE  GatesMatch'
  <2> SUFFICES ASSUME NEW k \in Pool PROVE active'[k] = Cardinality(Held(k)')
    BY DEF GatesMatch
  <2>1. active'[k] = Cardinality(Held(k)) /\ Held(k)' = Held(k)
    BY <1>2 DEF GatesMatch
  <2> QED
    BY <2>1
<1> QED
  BY <1>1, <1>2

-----------------------------------------------------------------------------
(* The steps.                                                              *)

\* The counters and the phases.
Counters == TypeOK /\ TenantsMatch /\ GatesMatch /\ PhasesMatch

\* The loop's bookkeeping is kept by every step on the loop.
LEMMA ArriveCounters ==
  ASSUME Counters, NEW r \in Request, Arrive(r) PROVE Counters' /\ active' = active
<1> USE GatesAssumption DEF Counters
<1>1. PICK k \in Pool \cup {"other"}, t \in Tenant, admin \in BOOLEAN :
        /\ kind' = [kind EXCEPT ![r] = k]
        /\ IF admin \/ TenantLimit[t] = 0
           THEN UNCHANGED <<tenant, tenantActive>>
           ELSE /\ tenantActive[t] < TenantLimit[t]
                /\ tenant' = [tenant EXCEPT ![r] = t]
                /\ tenantActive' = [tenantActive EXCEPT ![t] = @ + 1]
  BY DEF Arrive
<1>2. phase[r] = "new" /\ phase' = [phase EXCEPT ![r] = "handler"]
      /\ UNCHANGED <<active, queue, running>>
  BY DEF Arrive, jobs
<1>3. tenant[r] = None
  BY <1>2 DEF PhasesMatch
<1>4. GatesMatch'
  <2>1. \A p \in Pool : Held(p)' = Held(p)
    BY <1>1, <1>2 DEF Held, TypeOK
  <2> QED
    BY <1>2, <2>1, CountsStay
<1>5. CASE admin \/ TenantLimit[t] = 0
  <2>1. UNCHANGED <<tenant, tenantActive>>
    BY <1>1, <1>5
  <2>2. TenantsMatch'
    BY <2>1, CountsStay
  <2>3. TypeOK' /\ PhasesMatch'
    BY <1>1, <1>2, <2>1 DEF TypeOK, Phase, PhasesMatch
  <2> QED
    BY <1>2, <1>4, <2>2, <2>3
<1>6. CASE ~(admin \/ TenantLimit[t] = 0)
  <2>1. /\ tenant' = [tenant EXCEPT ![r] = t]
        /\ tenantActive' = [tenantActive EXCEPT ![t] = @ + 1]
    BY <1>1, <1>6
  <2>2. TenantsMatch'
    BY <1>3, <2>1, TenantTakes
  <2>3. TypeOK' /\ PhasesMatch'
    BY <1>1, <1>2, <2>1 DEF TypeOK, Phase, PhasesMatch
  <2> QED
    BY <1>2, <1>4, <2>2, <2>3
<1> QED
  BY <1>5, <1>6

\* A handler goes through the gate of its pool only while there is room.
LEMMA HandleCounters ==
  ASSUME Counters, WithinCaps, NEW r \in Request, Handle(r)
  PROVE  Counters' /\ \A k \in Pool : active'[k] <= MaxActive[k]
<1> USE GatesAssumption DEF Counters
<1>1. phase[r] = "handler" /\ UNCHANGED <<kind, tenant, tenantActive, running>>
  BY DEF Handle
<1>2. TenantsMatch'
  BY <1>1, CountsStay
<1>3. CASE kind[r] \in Pool /\ active[kind[r]] < MaxActive[kind[r]]
  <2>1. /\ phase' = [phase EXCEPT ![r] = "waiting"]
        /\ active' = [active EXCEPT ![kind[r]] = @ + 1]
        /\ queue' = [queue EXCEPT ![kind[r]] = Append(@, r)]
    BY <1>3 DEF Handle
  <2>2. GatesMatch'
    BY <1>1, <1>3, <2>1, GateTakes
  <2>3. TypeOK'
    <3>1. \A k \in Pool : queue'[k] \in Seq(Request)
      BY <1>3, <2>1, AppendElements DEF TypeOK
    <3> QED
      BY <1>1, <1>3, <2>1, <3>1 DEF TypeOK, Phase
  <2>4. PhasesMatch'
    BY <1>1, <1>3, <2>1 DEF TypeOK, PhasesMatch
  <2>5. \A k \in Pool : active'[k] <= MaxActive[k]
    BY <1>3, <2>1 DEF TypeOK, WithinCaps
  <2> QED
    BY <1>2, <2>2, <2>3, <2>4, <2>5
<1>4. CASE ~(kind[r] \in Pool /\ active[kind[r]] < MaxActive[kind[r]])
  <2>1. phase' = [phase EXCEPT ![r] = "leaving"] /\ UNCHANGED <<active, queue>>
    BY <1>4 DEF Handle
  <2>2. \A p \in Pool : Held(p)' = Held(p)
    BY <1>1, <2>1 DEF Held, TypeOK
  <2>3. GatesMatch'
    BY <2>1, <2>2, CountsStay
  <2>4. TypeOK' /\ PhasesMatch'
    BY <1>1, <2>1 DEF TypeOK, Phase, PhasesMatch
  <2> QED
    BY <1>2, <2>1, <2>3, <2>4 DEF WithinCaps
<1> QED
  BY <1>3, <1>4

\* An answer, in time or not, gives the slot of the gate back.
LEMMA AnswerCounters ==
  ASSUME Counters, NEW r \in Request, phase[r] \in {"waiting", "ready"}, Answer(r)
  PROVE  Counters' /\ \A k \in Pool : active'[k] <= active[k]
<1> USE GatesAssumption DEF Counters
<1>1. kind[r] \in Pool
  BY DEF PhasesMatch
<1>2. GatesMatch' /\ \A k \in Pool : active'[k] \in Nat /\ active'[k] <= active[k]
  BY <1>1, GateGetsBack
<1>3. TenantsMatch'
  BY CountsStay DEF Answer
<1>4. TypeOK' /\ PhasesMatch'
  BY <1>1, <1>2 DEF Answer, jobs, TypeOK, Phase, PhasesMatch
<1> QED
  BY <1>2, <1>3, <1>4

\* Whoever leaves gives the slot of the tenant back.
LEMMA LeaveCounters ==
  ASSUME Counters, NEW r \in Request, Leave(r) PROVE Counters' /\ active' = active
<1> USE GatesAssumption DEF Counters
<1>1. TenantsMatch'
  BY TenantGetsBack
<1>2. \A p \in Pool : Held(p)' = Held(p)
  BY DEF Leave, Held, TypeOK
<1>3. GatesMatch' /\ active' = active
  BY <1>2, CountsStay DEF Leave
<1>4. TypeOK' /\ PhasesMatch'
  BY DEF Leave, jobs, TypeOK, Phase, PhasesMatch
<1> QED
  BY <1>1, <1>3, <1>4

\* A thread that takes up a job changes no count.
LEMMA TakeUpCounters ==
  ASSUME Counters, NEW k \in Pool, TakeUp(k) PROVE Counters' /\ active' = active
<1> USE DEF Counters
<1>1. UNCHANGED <<phase, kind, tenant, tenantActive, active>>
  BY DEF TakeUp
<1>2. TenantsMatch' /\ GatesMatch' /\ PhasesMatch'
  BY <1>1, CountsStay DEF Held, PhasesMatch
<1>3. Tail(queue[k]) \in Seq(Request) /\ Head(queue[k]) \in Request
  BY TailElements DEF TakeUp, TypeOK
<1>4. TypeOK'
  BY <1>1, <1>3 DEF TakeUp, TypeOK
<1> QED
  BY <1>1, <1>2, <1>4

\* Nor does a job that ends: its handler holds the slot until it has answered.
LEMMA JobEndsCounters ==
  ASSUME Counters, NEW r \in Request, JobEnds(r) PROVE Counters' /\ active' = active
<1> USE DEF Counters
<1>1. UNCHANGED <<kind, tenant, tenantActive, active, queue>>
      /\ phase' = [phase EXCEPT ![r] = IF @ = "waiting" THEN "ready" ELSE @]
  BY DEF JobEnds
<1>2. PICK k \in Pool : running' = [running EXCEPT ![k] = @ \ {r}]
  BY DEF JobEnds
<1>3. \A p \in Pool : Held(p)' = Held(p)
  BY <1>1 DEF Held, TypeOK
<1>4. TenantsMatch' /\ GatesMatch'
  BY <1>1, <1>3, CountsStay
<1>5. TypeOK' /\ PhasesMatch'
  BY <1>1, <1>2 DEF TypeOK, Phase, PhasesMatch
<1> QED
  BY <1>1, <1>4, <1>5

-----------------------------------------------------------------------------
(* Where the jobs are.                                                     *)

\* Who has no job may change phase and kind.
LEMMA JobsStay ==
  ASSUME JobsMatch, NEW r \in Request, UNCHANGED <<queue, running>>,
         ~Submitted(r) \/ \A k \in Pool : JobOf(k, r) => JobOf(k, r)',
         \A q \in Request : q # r => kind'[q] = kind[q] /\ phase'[q] = phase[q],
         TypeOK
  PROVE  JobsMatch'
<1> SUFFICES ASSUME NEW k \in Pool
             PROVE  /\ \A q \in Elements(queue'[k]) \cup running'[k] : JobOf(k, q)'
                    /\ Once(queue'[k])
                    /\ \A q \in Elements(queue'[k]) : q \notin running'[k]
  BY DEF JobsMatch
<1>1. ASSUME NEW q \in Elements(queue[k]) \cup running[k] PROVE JobOf(k, q)'
  <2>1. JobOf(k, q)
    BY <1>1 DEF JobsMatch
  <2>2. q \in Request
    BY <1>1 DEF TypeOK, Elements
  <2>3. CASE q = r
    BY <1>1, <2>1, <2>3 DEF Submitted
  <2>4. CASE q # r
    BY <2>1, <2>2, <2>4 DEF JobOf
  <2> QED
    BY <2>3, <2>4
<1> QED
  BY <1>1 DEF JobsMatch

\* A request in its handler, or with its answer, has no job.
LEMMA NoJob ==
  ASSUME JobsMatch, NEW r \in Request, phase[r] \notin {"waiting", "leaving", "new"}
  PROVE  ~Submitted(r)
BY DEF JobsMatch, JobOf, Submitted

\* What a handler submits is queued once.
LEMMA HandleJobs ==
  ASSUME TypeOK, JobsMatch, NEW r \in Request, Handle(r) PROVE JobsMatch'
<1>1. phase[r] = "handler" /\ UNCHANGED <<kind, running>> /\ ~Submitted(r)
  BY NoJob DEF Handle
<1>2. CASE kind[r] \in Pool /\ active[kind[r]] < MaxActive[kind[r]]
  <2>1. /\ phase' = [phase EXCEPT ![r] = "waiting"]
        /\ queue' = [queue EXCEPT ![kind[r]] = Append(@, r)]
    BY <1>2 DEF Handle
  <2> SUFFICES ASSUME NEW k \in Pool
               PROVE  /\ \A q \in Elements(queue'[k]) \cup running[k] : JobOf(k, q)'
                      /\ Once(queue'[k])
                      /\ \A q \in Elements(queue'[k]) : q \notin running[k]
    BY <1>1 DEF JobsMatch
  <2>2. queue[k] \in Seq(Request) /\ running[k] \subseteq Request
        /\ Elements(queue[k]) \subseteq Request
    BY DEF TypeOK, Elements
  <2>3. /\ \A q \in Elements(queue[k]) \cup running[k] : JobOf(k, q) /\ q # r
        /\ Once(queue[k]) /\ \A q \in Elements(queue[k]) : q \notin running[k]
    BY <1>1 DEF JobsMatch, Submitted
  <2>4. \A q \in Elements(queue[k]) \cup running[k] : JobOf(k, q)'
    BY <1>1, <2>1, <2>2, <2>3 DEF JobOf, TypeOK
  <2>5. CASE k = kind[r]
    <3>1. queue'[k] = Append(queue[k], r)
      BY <2>1, <2>5 DEF TypeOK
    <3>2. Elements(queue'[k]) = Elements(queue[k]) \cup {r} /\ Once(queue'[k])
      BY <2>2, <2>3, <3>1, AppendElements
    <3>3. JobOf(k, r)' /\ r \notin running[k]
      BY <1>1, <2>1, <2>3, <2>5 DEF JobOf, TypeOK
    <3> QED
      BY <2>3, <2>4, <3>2, <3>3
  <2>6. CASE k # kind[r]
    <3>1. queue'[k] = queue[k]
      BY <2>1, <2>6 DEF TypeOK
    <3> QED
      BY <2>3, <2>4, <3>1
  <2> QED
    BY <2>5, <2>6
<1>3. CASE ~(kind[r] \in Pool /\ active[kind[r]] < MaxActive[kind[r]])
  <2>1. phase' = [phase EXCEPT ![r] = "leaving"] /\ queue' = queue
    BY <1>3 DEF Handle
  <2> QED
    BY <1>1, <2>1, JobsStay DEF TypeOK
<1> QED
  BY <1>2, <1>3

\* A thread takes the oldest job, if one more may run.
LEMMA TakeUpJobs ==
  ASSUME TypeOK, JobsMatch, NEW p \in Pool, TakeUp(p)
  PROVE  /\ JobsMatch'
         /\ \A k \in Pool : Cardinality(running[k]) <= MaxActive[k]
                            => Cardinality(running'[k]) <= MaxActive[k]
<1> SUFFICES ASSUME NEW k \in Pool
             PROVE  /\ \A q \in Elements(queue'[k]) \cup running'[k] : JobOf(k, q)'
                    /\ Once(queue'[k])
                    /\ \A q \in Elements(queue'[k]) : q \notin running'[k]
                    /\ Cardinality(running[k]) <= MaxActive[k]
                       => Cardinality(running'[k]) <= MaxActive[k]
  BY DEF JobsMatch
<1>1. UNCHANGED <<phase, kind>>
  BY DEF TakeUp
<1>2. queue[k] \in Seq(Request) /\ running[k] \in SUBSET Request
  BY DEF TypeOK
<1>3. /\ \A q \in Elements(queue[k]) \cup running[k] : JobOf(k, q)'
      /\ Once(queue[k]) /\ \A q \in Elements(queue[k]) : q \notin running[k]
  BY <1>1 DEF JobsMatch, JobOf
<1>4. CASE k = p
  <2>1. queue[k] # <<>> /\ Cardinality(running[k]) < MaxActive[k]
        /\ queue'[k] = Tail(queue[k]) /\ running'[k] = running[k] \cup {Head(queue[k])}
    BY <1>4 DEF TakeUp, TypeOK
  <2>2. /\ Elements(queue[k]) = Elements(Tail(queue[k])) \cup {Head(queue[k])}
        /\ Once(Tail(queue[k])) /\ Head(queue[k]) \notin Elements(Tail(queue[k]))
        /\ Head(queue[k]) \in Request
    BY <1>2, <1>3, <2>1, TailElements
  <2>3. Head(queue[k]) \in Request \ running[k]
    BY <1>3, <2>2
  <2>4. Cardinality(running'[k]) = Cardinality(running[k]) + 1
        /\ Cardinality(running[k]) \in Nat
    BY <1>2, <2>1, <2>3, Counts
  <2>5. Cardinality(running'[k]) <= MaxActive[k]
    BY <2>1, <2>4, GatesAssumption
  <2> QED
    BY <1>3, <2>1, <2>2, <2>5
<1>5. CASE k # p
  <2>1. queue'[k] = queue[k] /\ running'[k] = running[k]
    BY <1>5 DEF TakeUp, TypeOK
  <2> QED
    BY <1>3, <2>1
<1> QED
  BY <1>4, <1>5

\* A job that ends is nowhere else.
LEMMA JobEndsJobs ==
  ASSUME TypeOK, JobsMatch, NEW r \in Request, JobEnds(r)
  PROVE  /\ JobsMatch'
         /\ \A k \in Pool : Cardinality(running'[k]) <= Cardinality(running[k])
<1>1. PICK p \in Pool : r \in running[p] /\ running' = [running EXCEPT ![p] = @ \ {r}]
  BY DEF JobEnds
<1>2. UNCHANGED <<kind, queue>>
      /\ phase' = [phase EXCEPT ![r] = IF @ = "waiting" THEN "ready" ELSE @]
  BY DEF JobEnds
<1> SUFFICES ASSUME NEW k \in Pool
             PROVE  /\ \A q \in Elements(queue[k]) \cup running'[k] : JobOf(k, q)'
                    /\ Once(queue[k])
                    /\ \A q \in Elements(queue[k]) : q \notin running'[k]
                    /\ Cardinality(running'[k]) <= Cardinality(running[k])
  BY <1>2 DEF JobsMatch
<1>3. running[k] \in SUBSET Request /\ Elements(queue[k]) \subseteq Request
  BY DEF TypeOK, Elements
<1>4. running'[k] = IF k = p THEN running[k] \ {r} ELSE running[k]
  BY <1>1 DEF TypeOK
<1>5. /\ \A q \in Elements(queue[k]) \cup running[k] : JobOf(k, q)
      /\ Once(queue[k]) /\ \A q \in Elements(queue[k]) : q \notin running[k]
  BY DEF JobsMatch
<1>6. r \notin Elements(queue[k]) /\ r \notin running'[k]
  <2>1. kind[r] = p
    BY <1>1 DEF JobsMatch, JobOf
  <2>2. CASE k = p
    BY <1>1, <1>4, <1>5, <2>2
  <2>3. CASE k # p
    BY <1>4, <1>5, <2>1, <2>3 DEF JobOf
  <2> QED
    BY <2>2, <2>3
<1>7. \A q \in Elements(queue[k]) \cup running'[k] : JobOf(k, q)'
  BY <1>2, <1>3, <1>4, <1>5, <1>6 DEF JobOf, TypeOK
<1>8. Cardinality(running'[k]) <= Cardinality(running[k])
  <2>1. Cardinality(running[k]) \in Nat
    BY <1>3, Counts
  <2>2. CASE k = p
    BY <1>1, <1>3, <1>4, <2>1, <2>2, Counts
  <2>3. CASE k # p
    BY <1>4, <2>1, <2>3
  <2> QED
    BY <2>2, <2>3
<1> QED
  BY <1>4, <1>5, <1>7, <1>8

-----------------------------------------------------------------------------
(* The theorems.                                                           *)

\* Nothing is admitted, queued or running yet.
LEMMA InitInv == Init => Inv
<1> SUFFICES ASSUME Init PROVE Inv
  OBVIOUS
<1> USE GatesAssumption DEF Init
<1>1. TypeOK
  BY DEF TypeOK, Phase
<1>2. SlotsMatch
  <2>1. \A t \in Tenant : {r \in Request : tenant[r] = t} = {}
    OBVIOUS
  <2>2. \A k \in Pool : Held(k) = {}
    BY DEF Held
  <2> QED
    BY <2>1, <2>2, FS_EmptySet DEF SlotsMatch
<1>3. PhasesMatch /\ JobsMatch
  BY DEF PhasesMatch, JobsMatch, Elements, Once
<1>4. WithinCaps
  BY FS_EmptySet DEF WithinCaps
<1> QED
  BY <1>1, <1>2, <1>3, <1>4 DEF Inv

\* Every step preserves the invariant.
LEMMA NextInv == Inv /\ [Next]_vars => Inv'
<1> SUFFICES ASSUME Inv, [Next]_vars PROVE Inv'
  OBVIOUS
<1>0. Counters /\ JobsMatch /\ WithinCaps /\ TypeOK
  BY Halves DEF Inv, Counters
<1>1. ASSUME Counters', JobsMatch',
             \A k \in Pool : active'[k] <= MaxActive[k]
                             /\ Cardinality(running'[k]) <= MaxActive[k]
      PROVE  Inv'
  BY <1>1, Halves DEF Inv, Counters, WithinCaps
<1>2. ASSUME NEW r \in Request, Arrive(r) PROVE Inv'
  <2>1. Counters' /\ active' = active
    BY <1>0, <1>2, ArriveCounters
  <2>2. JobsMatch' /\ running' = running
    BY <1>0, <1>2, JobsStay DEF Arrive, jobs, TypeOK
  <2> QED
    BY <1>0, <1>1, <2>1, <2>2 DEF WithinCaps
<1>3. ASSUME NEW r \in Request, Handle(r) PROVE Inv'
  <2>1. Counters' /\ \A k \in Pool : active'[k] <= MaxActive[k]
    BY <1>0, <1>3, HandleCounters
  <2>2. JobsMatch' /\ running' = running
    BY <1>0, <1>3, HandleJobs DEF Handle
  <2> QED
    BY <1>0, <1>1, <2>1, <2>2 DEF WithinCaps
<1>4. ASSUME NEW r \in Request, Resume(r) \/ TimeOut(r) PROVE Inv'
  <2>1. phase[r] \in {"waiting", "ready"} /\ Answer(r)
    BY <1>4 DEF Resume, TimeOut
  <2>2. Counters' /\ \A k \in Pool : active'[k] <= active[k]
    BY <1>0, <2>1, AnswerCounters
  <2>3. \A k \in Pool : active'[k] \in Nat /\ active[k] \in Nat /\ MaxActive[k] \in Nat
    BY <1>0, <2>2, GatesAssumption DEF Counters, TypeOK
  <2>4. ~Submitted(r) \/ \A k \in Pool : JobOf(k, r) => JobOf(k, r)'
    <3>1. CASE Resume(r)
      BY <1>0, <3>1, NoJob DEF Resume
    <3>2. CASE TimeOut(r)
      BY <1>0, <3>2 DEF TimeOut, Answer, JobOf, TypeOK
    <3> QED
      BY <1>4, <3>1, <3>2
  <2>5. JobsMatch' /\ running' = running
    BY <1>0, <2>1, <2>4, JobsStay DEF Answer, jobs, TypeOK
  <2> QED
    BY <1>0, <1>1, <2>2, <2>3, <2>5 DEF WithinCaps
<1>5. ASSUME NEW r \in Request, Leave(r) PROVE Inv'
  <2>1. Counters' /\ active' = active
    BY <1>0, <1>5, LeaveCounters
  <2>2. JobsMatch' /\ running' = running
    BY <1>0, <1>5, JobsStay DEF Leave, jobs, JobOf, TypeOK
  <2> QED
    BY <1>0, <1>1, <2>1, <2>2 DEF WithinCaps
<1>6. ASSUME NEW r \in Request, JobEnds(r) PROVE Inv'
  <2>1. Counters' /\ active' = active
    BY <1>0, <1>6, JobEndsCounters
  <2>2. JobsMatch' /\ \A k \in Pool : Cardinality(running'[k]) <= Cardinality(running[k])
    BY <1>0, <1>6, JobEndsJobs
  <2>3. \A k \in Pool : /\ Cardinality(running[k]) \in Nat /\ Cardinality(running'[k]) \in Nat
                        /\ MaxActive[k] \in Nat
    BY <1>0, <2>1, Counts, GatesAssumption DEF Counters, TypeOK
  <2> QED
    BY <1>0, <1>1, <2>1, <2>2, <2>3 DEF WithinCaps
<1>7. ASSUME NEW k \in Pool, TakeUp(k) PROVE Inv'
  <2>1. Counters' /\ active' = active
    BY <1>0, <1>7, TakeUpCounters
  <2>2. JobsMatch' /\ \A p \in Pool : Cardinality(running[p]) <= MaxActive[p]
                                      => Cardinality(running'[p]) <= MaxActive[p]
    BY <1>0, <1>7, TakeUpJobs
  <2> QED
    BY <1>0, <1>1, <2>1, <2>2 DEF WithinCaps
<1>8. CASE UNCHANGED vars
  <2>1. TypeOK' /\ PhasesMatch' /\ WithinCaps' /\ JobsMatch'
    BY <1>8 DEF vars, Inv, TypeOK, PhasesMatch, WithinCaps, JobsMatch, JobOf
  <2>2. SlotsMatch'
    BY <1>8 DEF vars, Inv, SlotsMatch, Held
  <2> QED
    BY <2>1, <2>2 DEF Inv
<1> QED
  BY <1>2, <1>3, <1>4, <1>5, <1>6, <1>7, <1>8 DEF Next, OnLoop

\* For any finite set of requests and any limits, the counters stay natural
\* numbers and the other variables keep their types.
THEOREM GatesTypes == Spec => []TypeOK
<1>1. Inv => TypeOK
  BY DEF Inv
<1> QED
  BY InitInv, NextInv, <1>1, PTL DEF Spec

\* For any finite set of requests and any limits, app.state.tenant_active,
\* active_searches and active_ingests are exactly the numbers of requests that
\* are inside: no path out of a handler loses a slot or returns it twice.
THEOREM GatesCount == Spec => []SlotsMatch
<1>1. Inv => SlotsMatch
  BY DEF Inv
<1> QED
  BY InitInv, NextInv, <1>1, PTL DEF Spec

\* For any finite set of requests and any limits, a job waits for a thread of
\* its pool only behind jobs whose handlers have timed out, and so an ingest,
\* which has no timeout, never waits.
THEOREM GatesAdmitWhatRuns == Spec => []StartsUnlessAbandoned
<1>1. ASSUME Inv PROVE StartsUnlessAbandoned
  <2> SUFFICES ASSUME NEW k \in Pool,
                      \A r \in Elements(queue[k]) \cup running[k] :
                        ~(k = "search" /\ phase[r] # "waiting")
               PROVE  ~(Len(queue[k]) > MaxActive[k] - Cardinality(running[k]))
    BY DEF StartsUnlessAbandoned
  <2>1. queue[k] \in Seq(Request) /\ running[k] \in SUBSET Request
        /\ Elements(queue[k]) \in SUBSET Request
    BY <1>1 DEF Inv, TypeOK, Elements
  <2>2. Elements(queue[k]) \cup running[k] \subseteq Held(k)
    BY <1>1, <2>1 DEF Inv, JobsMatch, JobOf, Held, Pool
  <2>3. IsFiniteSet(Held(k)) /\ Cardinality(Held(k)) <= MaxActive[k]
        /\ Cardinality(Held(k)) \in Nat
    <3>1. Held(k) \in SUBSET Request
      BY DEF Held
    <3> QED
      BY <1>1, <3>1, Counts DEF Inv, SlotsMatch, WithinCaps
  <2>4. Cardinality(Elements(queue[k]) \cup running[k]) <= Cardinality(Held(k))
    BY <2>2, <2>3, FS_Subset
  <2>5. IsFiniteSet(Elements(queue[k])) /\ Cardinality(Elements(queue[k])) = Len(queue[k])
    BY <1>1, <2>1, OnceCounts DEF Inv, JobsMatch
  <2>6. Elements(queue[k]) \cap running[k] = {}
    BY <1>1 DEF Inv, JobsMatch
  <2>7. IsFiniteSet(running[k]) /\ Cardinality(running[k]) \in Nat
    BY <2>1, Counts
  <2>8. Cardinality(Elements(queue[k]) \cup running[k])
          = Len(queue[k]) + Cardinality(running[k])
    <3>1. Cardinality(Elements(queue[k]) \cup running[k])
            = Cardinality(Elements(queue[k])) + Cardinality(running[k])
              - Cardinality(Elements(queue[k]) \cap running[k])
      BY <2>5, <2>7, FS_Union
    <3>2. Cardinality(Elements(queue[k]) \cap running[k]) = 0
      BY <2>6, FS_EmptySet
    <3>3. Len(queue[k]) \in Nat
      BY <2>1
    <3> QED
      BY <2>5, <2>7, <3>1, <3>2, <3>3
  <2>9. Len(queue[k]) \in Nat /\ MaxActive[k] \in Nat
    BY <2>1, GatesAssumption
  <2> QED
    BY <2>3, <2>4, <2>7, <2>8, <2>9
<1> QED
  BY InitInv, NextInv, <1>1, PTL DEF Spec
=============================================================================
