---------------------------- MODULE RequestGates ----------------------------
(***************************************************************************)
(* How the HTTP layer admits work: the tenant gate of pave/auth.py, the    *)
(* search gate and timeout of _do_search in pave/main.py, the ingest gate  *)
(* of pave/routes/documents.py, and the two thread pools behind them.      *)
(*                                                                         *)
(* Handlers run on one event loop: what a handler does between two awaits  *)
(* is one step.  The jobs it submits run on pool threads, which know       *)
(* nothing of the gates; a search that timed out keeps its thread.         *)
(*                                                                         *)
(* Both caps are on (0 turns a cap off and leaves the pool to asyncio).    *)
(***************************************************************************)
EXTENDS Naturals, Sequences, FiniteSets

CONSTANTS Request, Tenant, None,
          TenantLimit,      \* tenant_limits with the default filled in; 0 = no cap
          MaxActive,        \* MaxActive[k]: max_searches, max_ingests
          Timeouts          \* search.timeout_ms > 0

Pool == {"search", "ingest"}

ASSUME GatesAssumption ==
  /\ None \notin Tenant
  /\ TenantLimit \in [Tenant -> Nat]
  /\ MaxActive \in [Pool -> Nat \ {0}]
  /\ Timeouts \in BOOLEAN
  /\ IsFiniteSet(Request)

VARIABLES
  phase,          \* where the handler of each request is
  kind, tenant,   \* what it asks for, and whose slot it holds, if any
  tenantActive,   \* app.state.tenant_active
  active,         \* app.state.active_searches and active_ingests
  queue,          \* queue[k]: submitted jobs no thread has taken up
  running         \* running[k]: jobs on a thread of pool k

jobs == <<queue, running>>
vars == <<phase, kind, tenant, tenantActive, active, queue, running>>

Phase == {"new", "handler", "waiting", "ready", "leaving"}

Init ==
  /\ phase = [r \in Request |-> "new"]
  /\ kind = [r \in Request |-> "other"]
  /\ tenant = [r \in Request |-> None]
  /\ tenantActive = [t \in Tenant |-> 0]
  /\ active = [k \in Pool |-> 0]
  /\ queue = [k \in Pool |-> <<>>]
  /\ running = [k \in Pool |-> {}]

Elements(s) == {s[i] : i \in 1 .. Len(s)}
Submitted(r) == \E k \in Pool : r \in Elements(queue[k]) \cup running[k]

-----------------------------------------------------------------------------
(* On the event loop.                                                      *)

\* A request reaches the tenant gate: it bypasses it (admin, or no cap), takes
\* a slot, or gets 429, which leaves no trace.  A request is used again for a
\* later client once its job has left the pool.
Arrive(r) ==
  /\ phase[r] = "new" /\ ~Submitted(r)
  /\ \E k \in Pool \cup {"other"}, t \in Tenant, admin \in BOOLEAN :
       /\ kind' = [kind EXCEPT ![r] = k]
       /\ IF admin \/ TenantLimit[t] = 0
          THEN UNCHANGED <<tenant, tenantActive>>
          ELSE /\ tenantActive[t] < TenantLimit[t]
               /\ tenant' = [tenant EXCEPT ![r] = t]
               /\ tenantActive' = [tenantActive EXCEPT ![t] = @ + 1]
  /\ phase' = [phase EXCEPT ![r] = "handler"]
  /\ UNCHANGED <<active, jobs>>

\* (mutant of Handle: the gate lets one request too many in)
HandleOneMore(r) ==
  /\ phase[r] = "handler"
  /\ IF kind[r] \in Pool /\ active[kind[r]] <= MaxActive[kind[r]]
     THEN /\ phase' = [phase EXCEPT ![r] = "waiting"]
          /\ active' = [active EXCEPT ![kind[r]] = @ + 1]
          /\ queue' = [queue EXCEPT ![kind[r]] = Append(@, r)]
     ELSE /\ phase' = [phase EXCEPT ![r] = "leaving"]
          /\ UNCHANGED <<active, queue>>
  /\ UNCHANGED <<kind, tenant, tenantActive, running>>

\* The handler: through the gate of its pool and on to the executor, 503 when
\* the gate is full; other routes do their work without a gate.
Handle(r) ==
  /\ phase[r] = "handler"
  /\ IF kind[r] \in Pool /\ active[kind[r]] < MaxActive[kind[r]]
     THEN /\ phase' = [phase EXCEPT ![r] = "waiting"]
          /\ active' = [active EXCEPT ![kind[r]] = @ + 1]
          /\ queue' = [queue EXCEPT ![kind[r]] = Append(@, r)]
     ELSE /\ phase' = [phase EXCEPT ![r] = "leaving"]
          /\ UNCHANGED <<active, queue>>
  /\ UNCHANGED <<kind, tenant, tenantActive, running>>

\* The finally of the gate: the slot goes back, whatever the job does now.
Answer(r) ==
  /\ phase' = [phase EXCEPT ![r] = "leaving"]
  /\ active' = [active EXCEPT ![kind[r]] = @ - 1]
  /\ UNCHANGED <<kind, tenant, tenantActive, jobs>>

Resume(r) == phase[r] = "ready" /\ Answer(r)

\* (mutant of TimeOut: the clock runs only while the job has a thread)
TimeOutOnThread(r) ==
  /\ Timeouts
  /\ phase[r] = "waiting" /\ r \in running["search"]
  /\ Answer(r)

\* wait_for gives up on the shielded future: 503 search_timeout.
TimeOut(r) ==
  /\ Timeouts
  /\ phase[r] = "waiting" /\ kind[r] = "search"
  /\ Answer(r)

\* (mutant of Leave: the tenant slot is returned only if the limit is reached)
LeaveSlotBehind(r) ==
  /\ phase[r] = "leaving"
  /\ phase' = [phase EXCEPT ![r] = "new"]
  /\ tenant' = [tenant EXCEPT ![r] = None]
  /\ tenantActive' = [t \in Tenant |->
       IF t = tenant[r] /\ tenantActive[t] = TenantLimit[t]
       THEN tenantActive[t] - 1 ELSE tenantActive[t]]
  /\ UNCHANGED <<kind, active, jobs>>

\* (mutant of Leave: a slot is returned without asking whose it was)
LeaveAnySlot(r) ==
  /\ phase[r] = "leaving"
  /\ phase' = [phase EXCEPT ![r] = "new"]
  /\ tenant' = [tenant EXCEPT ![r] = None]
  /\ tenantActive' = [t \in Tenant |-> tenantActive[t] - 1]
  /\ UNCHANGED <<kind, active, jobs>>

\* The finally of the tenant gate: max(0, active - 1).
Leave(r) ==
  /\ phase[r] = "leaving"
  /\ phase' = [phase EXCEPT ![r] = "new"]
  /\ tenant' = [tenant EXCEPT ![r] = None]
  /\ tenantActive' = [t \in Tenant |->
       IF t = tenant[r] /\ tenantActive[t] > 0
       THEN tenantActive[t] - 1 ELSE tenantActive[t]]
  /\ UNCHANGED <<kind, active, jobs>>

-----------------------------------------------------------------------------
(* On the pool threads: ThreadPoolExecutor(max_workers = MaxActive[k]).    *)

TakeUp(k) ==
  /\ queue[k] # <<>>
  /\ Cardinality(running[k]) < MaxActive[k]
  /\ running' = [running EXCEPT ![k] = @ \cup {Head(queue[k])}]
  /\ queue' = [queue EXCEPT ![k] = Tail(@)]
  /\ UNCHANGED <<phase, kind, tenant, tenantActive, active>>

\* The job returns or raises; only a handler that still waits hears of it.
JobEnds(r) ==
  /\ \E k \in Pool :
       /\ r \in running[k]
       /\ running' = [running EXCEPT ![k] = @ \ {r}]
  /\ phase' = [phase EXCEPT ![r] = IF @ = "waiting" THEN "ready" ELSE @]
  /\ UNCHANGED <<kind, tenant, tenantActive, active, queue>>

OnLoop(r) == Handle(r) \/ Resume(r) \/ Leave(r)

Next ==
  \/ \E r \in Request : Arrive(r) \/ OnLoop(r) \/ TimeOut(r) \/ JobEnds(r)
  \/ \E k \in Pool : TakeUp(k)

Spec == Init /\ [][Next]_vars

\* The loop runs every handler that can go on, the timer of wait_for fires,
\* the pools take up what they can, and an ingest ends.  A search may hang:
\* its job gets no fairness.
Fairness ==
  /\ \A r \in Request : WF_vars(OnLoop(r)) /\ WF_vars(TimeOut(r))
  /\ \A r \in Request : WF_vars(JobEnds(r) /\ kind[r] = "ingest")
  /\ \A k \in Pool : WF_vars(TakeUp(k))

FairSpec == Spec /\ Fairness

-----------------------------------------------------------------------------
(* Properties.                                                             *)

TypeOK ==
  /\ phase \in [Request -> Phase]
  /\ kind \in [Request -> Pool \cup {"other"}]
  /\ tenant \in [Request -> Tenant \cup {None}]
  /\ tenantActive \in [Tenant -> Nat]
  /\ active \in [Pool -> Nat]
  /\ \A k \in Pool : queue[k] \in Seq(Request) /\ running[k] \subseteq Request
  /\ DOMAIN queue = Pool /\ DOMAIN running = Pool

Held(k) == {r \in Request : phase[r] \in {"waiting", "ready"} /\ kind[r] = k}

\* A slot is never lost or returned twice, on any path out of a handler (429,
\* 503, result, error, timeout): the counters say exactly who is inside.
SlotsMatch ==
  /\ \A t \in Tenant :
       tenantActive[t] = Cardinality({r \in Request : tenant[r] = t})
  /\ \A k \in Pool : active[k] = Cardinality(Held(k))

\* Work starts at once: a job is queued while no thread of its pool is free only
\* if some job of that pool is abandoned, that is, its handler has timed out and
\* given its slot back.  Ingests have no timeout and always start at once.
StartsUnlessAbandoned ==
  \A k \in Pool :
    Len(queue[k]) > MaxActive[k] - Cardinality(running[k]) =>
      \E r \in Elements(queue[k]) \cup running[k] :
        k = "search" /\ phase[r] # "waiting"

\* Every admitted request is answered although searches hang on their threads.
EveryRequestIsAnswered ==
  \A r \in Request : phase[r] = "waiting" ~> phase[r] = "new"
=============================================================================
