---------------------------- MODULE SbertWorker ----------------------------
(***************************************************************************)
(* pave/embedders/sbert_worker.py: the embedder that runs the model in a   *)
(* child process.  Callers take turns under one lock; a call is a message  *)
(* down a pipe and an answer back, with a timeout and one retry on a fresh *)
(* worker.  Nothing in a message says which call it belongs to.            *)
(*                                                                         *)
(* A call stands for its texts, and an answer for the texts it embeds; a   *)
(* call is made again once nothing of it is left in a pipe.  Calls with no *)
(* texts return at once and are left out.                                  *)
(***************************************************************************)
EXTENDS Naturals, Sequences

CONSTANTS Call, None

ASSUME WorkerAssumption == None \notin Call

VARIABLES
  at,           \* where each caller is in encode
  lock,         \* the caller that holds self._lock
  attempt,      \* attempt of the caller that holds the lock
  connected,    \* self._proc and self._conn are set
  worker,       \* the child: none, loading, idle, busy or dead
  busyOn,       \* the call it encodes
  requests,     \* encode messages in the pipe to the child
  answers,      \* messages in the pipe from it: [status, of]
  slow,         \* on this machine an encode may outlast _REQUEST_TIMEOUT_S
  result        \* what the last encode of each caller returned, or None

child == <<worker, busyOn, requests, answers>>
vars == <<at, lock, attempt, connected, child, slow, result>>

Place == {"idle", "want", "ensure", "starting", "restarting", "send", "poll"}

\* The constructor has started the first worker.
Init ==
  /\ at = [c \in Call |-> "idle"]
  /\ lock = None
  /\ attempt = 0
  /\ connected = TRUE
  /\ worker = "idle" /\ busyOn = None
  /\ requests = <<>> /\ answers = <<>>
  /\ slow \in BOOLEAN
  /\ result = [c \in Call |-> None]

-----------------------------------------------------------------------------
(* The parent process.                                                     *)

\* The call returns or raises, and the lock is free again.
Leave(c, value) ==
  /\ at' = [at EXCEPT ![c] = "idle"]
  /\ result' = [result EXCEPT ![c] = value]
  /\ lock' = None /\ attempt' = 0

Goto(c, place) == at' = [at EXCEPT ![c] = place] /\ UNCHANGED <<lock, result>>

\* _shutdown_locked: close or terminate the child; its pipe goes with it.
Shutdown ==
  /\ connected' = FALSE
  /\ worker' = "none" /\ busyOn' = None
  /\ requests' = <<>> /\ answers' = <<>>

\* _start_locked up to the wait for readiness; it shuts down what was there.
Spawn ==
  /\ connected' = FALSE
  /\ worker' = "loading" /\ busyOn' = None
  /\ requests' = <<>> /\ answers' = <<>>

Begin(c) ==
  /\ at[c] = "idle"
  /\ busyOn # c
  /\ \A i \in 1 .. Len(requests) : requests[i] # c
  /\ \A i \in 1 .. Len(answers) : answers[i].of # c
  /\ at' = [at EXCEPT ![c] = "want"]
  /\ result' = [result EXCEPT ![c] = None]
  /\ UNCHANGED <<lock, attempt, connected, child>>

\* (mutant of Acquire: the lock is not waited for)
AcquireAnyway(c) ==
  /\ at[c] = "want"
  /\ lock' = c /\ attempt' = 0
  /\ at' = [at EXCEPT ![c] = "ensure"]
  /\ UNCHANGED <<connected, child, result>>

Acquire(c) ==
  /\ at[c] = "want" /\ lock = None
  /\ lock' = c /\ attempt' = 0
  /\ at' = [at EXCEPT ![c] = "ensure"]
  /\ UNCHANGED <<connected, child, result>>

\* _ensure_worker_locked
Ensure(c) ==
  /\ at[c] = "ensure"
  /\ IF connected /\ worker # "dead"
     THEN Goto(c, "send") /\ UNCHANGED <<connected, child>>
     ELSE Goto(c, "starting") /\ Spawn
  /\ UNCHANGED attempt

\* The ready message arrives: the worker is taken into use.  A restart is the
\* end of the first attempt, and the second begins with _ensure_worker_locked.
Started(c) ==
  /\ at[c] \in {"starting", "restarting"}
  /\ answers # <<>> /\ Head(answers).status = "ready"
  /\ answers' = Tail(answers)
  /\ connected' = TRUE
  /\ Goto(c, IF at[c] = "starting" THEN "send" ELSE "ensure")
  /\ UNCHANGED <<attempt, worker, busyOn, requests>>

\* Not ready in time, failed to load, died, or another dimension: the child
\* is terminated and the call raises.
StartFails(c) ==
  /\ at[c] \in {"starting", "restarting"}
  /\ Shutdown
  /\ Leave(c, None)

\* (mutant of Failed: one attempt too many)
FailedOnceMore(c) ==
  IF attempt <= 1
  THEN attempt' = attempt + 1 /\ Goto(c, "restarting") /\ Spawn
  ELSE Leave(c, None) /\ UNCHANGED <<connected, child>>

\* (mutant of Failed: every failure starts another attempt)
FailedAgain(c) == attempt' = 1 /\ Goto(c, "restarting") /\ Spawn

\* The except clause: restart once, then raise and leave things as they are.
Failed(c) ==
  IF attempt = 0
  THEN attempt' = 1 /\ Goto(c, "restarting") /\ Spawn
  ELSE Leave(c, None) /\ UNCHANGED <<connected, child>>

Send(c) ==
  /\ at[c] = "send"
  /\ IF worker = "dead"
     THEN Failed(c)
     ELSE /\ requests' = Append(requests, c)
          /\ Goto(c, "poll")
          /\ UNCHANGED <<attempt, connected, worker, busyOn, answers>>

\* An answer is there: it is returned, or raised if it reports an error.
Receive(c) ==
  /\ at[c] = "poll" /\ answers # <<>>
  /\ LET a == Head(answers)
     IN Leave(c, IF a.status = "ok" THEN a.of ELSE None)
  /\ answers' = Tail(answers)
  /\ UNCHANGED <<connected, worker, busyOn, requests>>

\* End of file on the pipe of a dead child, or no answer in time.
NoAnswer(c) ==
  /\ at[c] = "poll" /\ answers = <<>>
  /\ worker = "dead" \/ slow
  /\ Failed(c)

Close ==
  /\ lock = None /\ connected
  /\ Shutdown
  /\ UNCHANGED <<at, lock, attempt, result>>

-----------------------------------------------------------------------------
(* The child: _worker_main.                                                *)

Say(status, c) == answers' = Append(answers, [status |-> status, of |-> c])

Load ==
  /\ worker = "loading"
  /\ worker' = "idle"
  /\ Say("ready", None)
  /\ UNCHANGED <<at, lock, attempt, connected, busyOn, requests, result>>

Take ==
  /\ worker = "idle" /\ requests # <<>>
  /\ worker' = "busy" /\ busyOn' = Head(requests)
  /\ requests' = Tail(requests)
  /\ UNCHANGED <<at, lock, attempt, connected, answers, result>>

Encode ==
  /\ worker = "busy"
  /\ \E status \in {"ok", "error"} : Say(status, busyOn)
  /\ worker' = "idle" /\ busyOn' = None
  /\ UNCHANGED <<at, lock, attempt, connected, requests, result>>

\* The child dies; what it has sent can still be read.
Die ==
  /\ worker \in {"loading", "idle", "busy"}
  /\ worker' = "dead" /\ busyOn' = None
  /\ requests' = <<>>
  /\ UNCHANGED <<at, lock, attempt, connected, answers, result>>

Caller(c) ==
  \/ Acquire(c) \/ Ensure(c) \/ Started(c) \/ StartFails(c)
  \/ Send(c) \/ Receive(c) \/ NoAnswer(c)

Next ==
  /\ \/ \E c \in Call : Begin(c) \/ Caller(c)
     \/ Close \/ Load \/ Take \/ Encode \/ Die
  /\ UNCHANGED slow

Spec == Init /\ [][Next]_vars

\* The holder of the lock goes on, with an answer or a timeout (startup has
\* one too); the lock is fair to no one. The child works while it lives.
Fairness ==
  /\ \A c \in Call : WF_vars(Caller(c) /\ lock = c /\ UNCHANGED slow)
  /\ WF_vars(\E c \in Call : Acquire(c) /\ UNCHANGED slow)
  /\ WF_vars(Load /\ UNCHANGED slow)
  /\ WF_vars(Take /\ UNCHANGED slow)
  /\ WF_vars(Encode /\ UNCHANGED slow)

FairSpec == Spec /\ Fairness

-----------------------------------------------------------------------------
(* Properties.                                                             *)

TypeOK ==
  /\ at \in [Call -> Place]
  /\ lock \in Call \cup {None}
  /\ attempt \in {0, 1}
  /\ connected \in BOOLEAN
  /\ worker \in {"none", "loading", "idle", "busy", "dead"}
  /\ busyOn \in Call \cup {None}
  /\ requests \in Seq(Call)
  /\ answers \in Seq([status : {"ready", "ok", "error"}, of : Call \cup {None}])
  /\ slow \in BOOLEAN
  /\ result \in [Call -> Call \cup {None}]

\* encode returns the vectors of the texts it was given and of no others,
\* although messages carry no id and workers die and are replaced.
AnswersMatch ==
  \A c \in Call : at[c] = "idle" => result[c] \in {c, None}

\* The same where every answer comes before the timeout.
PromptAnswersMatch == ~slow => AnswersMatch

\* Whoever holds the lock gives it back, with vectors or with an exception:
\* a hung or dying worker never blocks the other callers for good.
LockIsReturned ==
  \A c \in Call : lock = c ~> lock # c
=============================================================================
