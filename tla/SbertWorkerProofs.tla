------------------------- MODULE SbertWorkerProofs -------------------------
(***************************************************************************)
(* Proofs about SbertWorker, for any set of callers.                       *)
(*                                                                         *)
(* Nothing in a message says which call it answers, so the inductive       *)
(* invariant says what is in the pipes at every place of the caller that   *)
(* holds the lock (no other caller touches them): nothing between calls,   *)
(* at most the ready message while a worker starts, and during a call one  *)
(* thing of that call, its request, the child at work on it, or its        *)
(* answer.  An answer that comes after the timeout would be a second       *)
(* thing: the pipes are told apart only where no encode outlasts it.       *)
(***************************************************************************)
EXTENDS SbertWorker, SequenceTheorems, TLAPS

Holding(c) == at[c] \in {"ensure", "starting", "restarting", "send", "poll"}
InStart(c) == at[c] \in {"starting", "restarting"}

\* The lock is held by the one caller that is inside.
LockMatches == \A c \in Call : lock = c <=> Holding(c)

Quiet == requests = <<>> /\ answers = <<>> /\ busyOn = None

\* Between calls, and before a call is sent, nothing is under way.
Resting == Quiet /\ worker \in {"none", "idle", "dead"}

\* While a worker starts, at most its ready message is.
Starting ==
  /\ requests = <<>> /\ busyOn = None
  /\ worker \in {"loading", "idle", "dead"}
  /\ worker # "dead" => (answers = <<>> <=> worker = "loading")
  /\ answers # <<>> => Head(answers).status = "ready" /\ Tail(answers) = <<>>

\* During a call, one thing of that call is, or nothing if the child has died.
Calling(c) ==
  \/ requests = <<c>> /\ answers = <<>> /\ busyOn = None /\ worker = "idle"
  \/ requests = <<>> /\ answers = <<>> /\ busyOn = c /\ worker = "busy"
  \/ /\ requests = <<>> /\ busyOn = None /\ worker \in {"idle", "dead"}
     /\ answers # <<>> /\ Head(answers).of = c /\ Tail(answers) = <<>>
  \/ Quiet /\ worker = "dead"

Pipes ==
  /\ \A c \in Call : at[c] = "poll" => Calling(c)
  /\ \A c \in Call : InStart(c) => Starting
  /\ (\A c \in Call : at[c] # "poll" /\ ~InStart(c)) => Resting

\* A call goes to a worker that was taken into use.
InUse ==
  /\ connected => worker \in {"idle", "busy", "dead"}
  /\ \A c \in Call : at[c] \in {"send", "poll"} => connected
  /\ \A c \in Call : InStart(c) => worker # "none"
  /\ worker = "loading" => answers = <<>>

OwnResults == \A c \in Call : result[c] \in {c, None}

Inv ==
  /\ TypeOK
  /\ LockMatches
  /\ InUse
  /\ ~slow => Pipes /\ OwnResults

Message == [status : {"ready", "ok", "error"}, of : Call \cup {None}]

-----------------------------------------------------------------------------
(* One message in a pipe.                                                  *)

\* A sequence of one element is that element and nothing after it.
LEMMA OneMessage ==
  ASSUME NEW S, NEW m \in S
  PROVE  /\ Append(<<>>, m) = <<m>> /\ <<m>> # <<>> /\ <<m>> \in Seq(S)
         /\ Head(<<m>>) = m /\ Tail(<<m>>) = <<>>
OBVIOUS

\* What is taken from a pipe leaves a pipe.
LEMMA Taken ==
  ASSUME NEW S, NEW s \in Seq(S), s # <<>>
  PROVE  Head(s) \in S /\ Tail(s) \in Seq(S)
OBVIOUS

\* A pipe may be empty.
LEMMA Nothing == ASSUME NEW S PROVE <<>> \in Seq(S)
OBVIOUS

-----------------------------------------------------------------------------
(* Types.                                                                  *)

\* The initial state has the types.
LEMMA InitType == Init => TypeOK
BY DEF Init, TypeOK, Place

\* A step keeps them.
LEMMA TypeNext == TypeOK /\ [Next]_vars => TypeOK'
<1> SUFFICES ASSUME TypeOK, [Next]_vars PROVE TypeOK'
  OBVIOUS
<1> USE DEF TypeOK, Place, child, Goto, Leave, Spawn, Shutdown
<1>1. CASE Next
  <2>0. UNCHANGED slow
    BY <1>1 DEF Next
  <2>1. <<>> \in Seq(Message) /\ <<>> \in Seq(Call)
    BY Nothing
  <2>2. ASSUME NEW c \in Call, Begin(c) \/ Acquire(c) \/ Ensure(c) PROVE TypeOK'
    BY <2>0, <2>2, <2>1 DEF Message, Begin, Acquire, Ensure
  <2>3. ASSUME NEW c \in Call, Started(c) PROVE TypeOK'
    <3>1. Tail(answers) \in Seq(Message)
      BY <2>3, Taken DEF Started, Message
    <3> QED
      BY <2>0, <2>3, <3>1 DEF Started, Message
  <2>4. ASSUME NEW c \in Call, StartFails(c) PROVE TypeOK'
    BY <2>0, <2>4, <2>1 DEF StartFails, Message
  <2>5. ASSUME NEW c \in Call, Failed(c) PROVE TypeOK'
    <3>1. CASE attempt = 0
      BY <2>0, <2>1, <2>5, <3>1 DEF Failed, Message
    <3>2. CASE attempt # 0
      BY <2>0, <2>5, <3>2 DEF Failed
    <3> QED
      BY <3>1, <3>2
  <2>6. ASSUME NEW c \in Call, Send(c) PROVE TypeOK'
    <3>1. Append(requests, c) \in Seq(Call)
      OBVIOUS
    <3>2. CASE worker = "dead"
      BY <2>6, <2>5, <3>2 DEF Send
    <3>3. CASE worker # "dead"
      BY <2>0, <2>6, <3>1, <3>3 DEF Send
    <3> QED
      BY <3>2, <3>3
  <2>7. ASSUME NEW c \in Call, Receive(c) PROVE TypeOK'
    <3>1. Tail(answers) \in Seq(Message) /\ Head(answers) \in Message
      BY <2>7, Taken DEF Receive, Message
    <3> QED
      BY <2>0, <2>7, <3>1 DEF Receive, Message
  <2>8. ASSUME NEW c \in Call, NoAnswer(c) PROVE TypeOK'
    BY <2>8, <2>5 DEF NoAnswer
  <2>9. CASE Close
    BY <2>0, <2>9, <2>1 DEF Close, Message
  <2>10. CASE Load
    <3>1. Append(answers, [status |-> "ready", of |-> None]) \in Seq(Message)
      BY DEF Message
    <3> QED
      BY <2>0, <2>10, <3>1 DEF Load, Say, Message
  <2>11. CASE Take
    <3>1. Head(requests) \in Call /\ Tail(requests) \in Seq(Call)
      BY <2>11, Taken DEF Take
    <3> QED
      BY <2>0, <2>11, <3>1 DEF Take
  <2>12. CASE Encode
    <3>1. PICK status \in {"ok", "error"} : Say(status, busyOn)
      BY <2>12 DEF Encode
    <3>2. Append(answers, [status |-> status, of |-> busyOn]) \in Seq(Message)
      BY DEF Message
    <3> QED
      BY <2>0, <2>12, <3>1, <3>2 DEF Encode, Say, Message
  <2>13. CASE Die
    BY <2>0, <2>13 DEF Die
  <2> QED
    BY <1>1, <2>2, <2>3, <2>4, <2>6, <2>7, <2>8, <2>9, <2>10, <2>11, <2>12,
       <2>13
       DEF Next, Caller
<1>2. CASE UNCHANGED vars
  BY <1>2 DEF vars
<1> QED
  BY <1>1, <1>2

-----------------------------------------------------------------------------
(* The lock.                                                               *)

Locked == LockMatches /\ InUse

\* Who holds the lock is the only one inside.
LEMMA OnlyHolder ==
  ASSUME LockMatches, NEW c \in Call, Holding(c)
  PROVE  lock = c /\ \A d \in Call : d # c => ~Holding(d)
BY DEF LockMatches

\* Nobody is inside when the lock is free.
LEMMA NoHolder ==
  ASSUME LockMatches, lock = None PROVE \A d \in Call : ~Holding(d)
BY WorkerAssumption DEF LockMatches

\* A failure restarts the worker or leaves the call.
LEMMA FailedLocked ==
  ASSUME TypeOK, Locked, NEW c \in Call, at[c] \in {"send", "poll"}, Failed(c)
  PROVE  Locked'
<1>1. lock = c /\ \A d \in Call : d # c => ~Holding(d)
  BY OnlyHolder DEF Locked, Holding
<1> USE WorkerAssumption
    DEF TypeOK, Locked, LockMatches, InUse, Holding, InStart, Goto, Leave, Spawn, child
<1>2. CASE attempt = 0
  BY <1>1, <1>2 DEF Failed
<1>3. CASE attempt # 0
  BY <1>1, <1>3 DEF Failed
<1> QED
  BY <1>2, <1>3

\* The lock has one holder at every step, and a call goes to a worker in use.
LEMMA LockedNext == TypeOK /\ Locked /\ [Next]_vars => Locked'
<1> SUFFICES ASSUME TypeOK, Locked, [Next]_vars PROVE Locked'
  OBVIOUS
<1> USE WorkerAssumption
    DEF TypeOK, Locked, LockMatches, InUse, Holding, InStart, Goto, Leave, Spawn, Shutdown,
        child
<1>1. CASE Next
  <2>1. ASSUME NEW c \in Call, Begin(c) \/ Acquire(c) \/ Ensure(c) PROVE Locked'
    BY <2>1 DEF Begin, Acquire, Ensure
  <2>2. ASSUME NEW c \in Call, Started(c) PROVE Locked'
    BY <2>2 DEF Started
  <2>3. ASSUME NEW c \in Call, StartFails(c) PROVE Locked'
    BY <2>3 DEF StartFails
  <2>4. ASSUME NEW c \in Call, Send(c) PROVE Locked'
    <3>1. CASE worker = "dead"
      BY <2>4, <3>1, FailedLocked DEF Send
    <3>2. CASE worker # "dead"
      BY <2>4, <3>2 DEF Send
    <3> QED
      BY <3>1, <3>2
  <2>5. ASSUME NEW c \in Call, Receive(c) PROVE Locked'
    BY <2>5 DEF Receive
  <2>6. ASSUME NEW c \in Call, NoAnswer(c) PROVE Locked'
    BY <2>6, FailedLocked DEF NoAnswer
  <2>7. CASE Close \/ Load \/ Take
    BY <2>7 DEF Close, Load, Take
  <2>8. CASE Encode \/ Die
    BY <2>8 DEF Encode, Die
  <2> QED
    BY <1>1, <2>1, <2>2, <2>3, <2>4, <2>5, <2>6, <2>7, <2>8 DEF Next, Caller
<1>2. CASE UNCHANGED vars
  BY <1>2 DEF vars
<1> QED
  BY <1>1, <1>2

-----------------------------------------------------------------------------
(* The pipes, where no encode outlasts the timeout.                        *)

\* A caller that is inside decides alone what the pipes must hold.
LEMMA PipesOf ==
  ASSUME LockMatches, NEW c \in Call, Holding(c), Pipes
  PROVE  /\ at[c] = "poll" => Calling(c)
         /\ InStart(c) => Starting
         /\ at[c] \in {"ensure", "send"} => Resting
<1>1. \A d \in Call : d # c => ~Holding(d)
  BY OnlyHolder
<1> QED
  BY <1>1 DEF Pipes, Holding, InStart

\* The same after a step.
LEMMA PipesTo ==
  ASSUME LockMatches', NEW c \in Call, Holding(c)',
         at'[c] = "poll" => Calling(c)',
         InStart(c)' => Starting',
         at'[c] \in {"ensure", "send"} => Resting'
  PROVE  Pipes'
<1>1. \A d \in Call : d # c => ~Holding(d)'
  BY DEF LockMatches
<1> QED
  BY <1>1 DEF Pipes, Holding, InStart

\* With nobody inside, nothing is under way.
LEMMA PipesFree ==
  ASSUME LockMatches', lock' = None, Resting' PROVE Pipes'
BY WorkerAssumption DEF LockMatches, Pipes, Holding, InStart

\* A failure finds the child dead and the pipes empty.
LEMMA FailedPipes ==
  ASSUME TypeOK, NEW c \in Call, at[c] \in {"send", "poll"}, LockMatches', OwnResults,
         Quiet, worker = "dead", Failed(c)
  PROVE  Pipes' /\ OwnResults'
<1> USE WorkerAssumption DEF TypeOK, Quiet, OwnResults
<1>1. CASE attempt = 0
  <2>1. Starting' /\ at'[c] = "restarting" /\ result' = result
    BY <1>1 DEF Failed, Goto, Spawn, Starting
  <2> QED
    BY <2>1, PipesTo DEF Holding, InStart
<1>2. CASE attempt # 0
  <2>1. Resting' /\ lock' = None /\ OwnResults'
    BY <1>2 DEF Failed, Leave, child, Resting
  <2> QED
    BY <2>1, PipesFree
<1> QED
  BY <1>1, <1>2

\* A caller's step leaves in the pipes what its next place wants there.
LEMMA CallerPipes ==
  ASSUME TypeOK, Locked, Locked', Pipes, OwnResults, ~slow, NEW c \in Call, Caller(c)
  PROVE  Pipes' /\ OwnResults'
<1> USE WorkerAssumption DEF TypeOK, OwnResults, Locked
<1>1. CASE Acquire(c)
  <2>1. Resting
    BY <1>1, NoHolder DEF Acquire, Pipes, Holding, InStart
  <2>2. Resting' /\ at'[c] = "ensure"
    BY <1>1, <2>1 DEF Acquire, Resting, Quiet, child
  <2> QED
    BY <1>1, <2>2, PipesTo DEF Acquire, Holding, InStart
<1>2. CASE Ensure(c)
  <2>1. Resting
    BY <1>2, PipesOf DEF Ensure, Holding
  <2>2. \/ at'[c] = "send" /\ Resting'
        \/ at'[c] = "starting" /\ Starting'
    BY <1>2, <2>1 DEF Ensure, Goto, Spawn, child, Resting, Quiet, Starting
  <2> QED
    BY <1>2, <2>2, PipesTo DEF Ensure, Goto, Holding, InStart
<1>3. CASE Started(c)
  <2>1. Starting
    BY <1>3, PipesOf DEF Started, Holding, InStart
  <2>2. at'[c] \in {"send", "ensure"} /\ Resting'
    BY <1>3, <2>1 DEF Started, Goto, Starting, Resting, Quiet
  <2> QED
    BY <1>3, <2>2, PipesTo DEF Started, Goto, Holding, InStart
<1>4. CASE StartFails(c)
  <2>1. Resting' /\ lock' = None /\ OwnResults'
    BY <1>4 DEF StartFails, Leave, Shutdown, Resting, Quiet
  <2> QED
    BY <2>1, PipesFree
<1>5. CASE Send(c)
  <2>1. Resting /\ worker # "none"
    BY <1>5, PipesOf DEF Send, Holding, InUse
  <2>2. CASE worker = "dead"
    BY <1>5, <2>1, <2>2, FailedPipes DEF Send, Resting
  <2>3. CASE worker # "dead"
    <3>1. at'[c] = "poll" /\ Calling(c)'
      BY <1>5, <2>1, <2>3, OneMessage DEF Send, Goto, Resting, Quiet, Calling
    <3> QED
      BY <1>5, <2>3, <3>1, PipesTo DEF Send, Goto, Holding, InStart
  <2> QED
    BY <2>2, <2>3
<1>6. CASE Receive(c)
  <2>1. Calling(c)
    BY <1>6, PipesOf DEF Receive, Holding
  <2>2. Resting' /\ lock' = None /\ OwnResults'
    BY <1>6, <2>1 DEF Receive, Leave, Calling, Resting, Quiet
  <2> QED
    BY <2>2, PipesFree
<1>7. CASE NoAnswer(c)
  <2>1. Calling(c) /\ worker = "dead"
    BY <1>7, PipesOf DEF NoAnswer, Holding
  <2>2. Quiet
    BY <1>7, <2>1 DEF NoAnswer, Calling, Quiet
  <2> QED
    BY <1>7, <2>1, <2>2, FailedPipes DEF NoAnswer
<1> QED
  BY <1>1, <1>2, <1>3, <1>4, <1>5, <1>6, <1>7 DEF Caller

\* What the child does to the pipes is what the caller that is inside expects.
LEMMA ChildPipes ==
  ASSUME TypeOK, Pipes, Load \/ Take \/ Encode \/ Die
  PROVE  Pipes'
<1> USE WorkerAssumption DEF TypeOK
<1>1. UNCHANGED at
  BY DEF Load, Take, Encode, Die
<1>2. ASSUME Resting PROVE Resting'
  BY <1>2 DEF Load, Take, Encode, Die, Resting, Quiet
<1>3. ASSUME Starting PROVE Starting'
  <2>1. CASE Load
    <3>1. PICK m \in Message : m = [status |-> "ready", of |-> None]
      BY DEF Message
    <3>2. answers' = <<m>> /\ m.status = "ready"
      BY <1>3, <2>1, <3>1, OneMessage DEF Load, Say, Starting
    <3> QED
      BY <1>3, <2>1, <3>2, OneMessage DEF Load, Starting
  <2>2. CASE Take \/ Encode
    BY <1>3, <2>2 DEF Take, Encode, Starting
  <2>3. CASE Die
    BY <1>3, <2>3 DEF Die, Starting
  <2> QED
    BY <2>1, <2>2, <2>3
<1>4. ASSUME NEW c \in Call, Calling(c) PROVE Calling(c)'
  <2>1. CASE Load
    BY <1>4, <2>1 DEF Load, Calling, Quiet
  <2>2. CASE Take
    BY <1>4, <2>2, OneMessage DEF Take, Calling, Quiet
  <2>3. CASE Encode
    <3>1. PICK status \in {"ok", "error"} : Say(status, busyOn)
      BY <2>3 DEF Encode
    <3>2. PICK m \in Message : m = [status |-> status, of |-> busyOn]
      BY DEF Message
    <3>3. answers = <<>> /\ busyOn = c /\ requests = <<>>
      BY <1>4, <2>3 DEF Encode, Calling, Quiet
    <3>4. answers' = <<m>> /\ m.of = c
      BY <3>1, <3>2, <3>3, OneMessage DEF Say
    <3> QED
      BY <2>3, <3>3, <3>4, OneMessage DEF Encode, Calling
  <2>4. CASE Die
    BY <1>4, <2>4 DEF Die, Calling, Quiet
  <2> QED
    BY <2>1, <2>2, <2>3, <2>4
<1> QED
  BY <1>1, <1>2, <1>3, <1>4 DEF Pipes, InStart

\* Every step keeps the pipes as the places of the callers want them.
LEMMA PipesNext ==
  ASSUME TypeOK, Locked, Locked', Pipes, OwnResults, ~slow, Next
  PROVE  Pipes' /\ OwnResults'
<1>1. ASSUME NEW c \in Call, Begin(c) PROVE Pipes' /\ OwnResults'
  <2>1. /\ UNCHANGED <<lock, worker, busyOn, requests, answers>>
        /\ at' = [at EXCEPT ![c] = "want"] /\ at[c] = "idle"
        /\ result' = [result EXCEPT ![c] = None]
    BY <1>1 DEF Begin, child
  <2>2. OwnResults'
    BY <2>1 DEF TypeOK, OwnResults
  <2> QED
    BY <2>1, <2>2 DEF TypeOK, Pipes, Calling, InStart, Starting, Resting, Quiet
<1>2. CASE Close
  <2>1. lock' = None /\ Resting' /\ result' = result
    BY <1>2 DEF Close, Shutdown, Resting, Quiet
  <2> QED
    BY <2>1, PipesFree DEF Locked, OwnResults
<1>3. CASE Load \/ Take \/ Encode \/ Die
  BY <1>3, ChildPipes DEF OwnResults, Load, Take, Encode, Die
<1> QED
  BY <1>1, <1>2, <1>3, CallerPipes DEF Next

-----------------------------------------------------------------------------
(* The theorems.                                                           *)

\* The first worker waits for its first call.
LEMMA InitInv == Init => Inv
<1> SUFFICES ASSUME Init PROVE Inv
  OBVIOUS
<1>1. TypeOK
  BY InitType
<1>2. LockMatches /\ InUse
  BY WorkerAssumption DEF Init, LockMatches, InUse, Holding, InStart
<1>3. Pipes /\ OwnResults
  BY DEF Init, Pipes, InStart, Resting, Quiet, OwnResults
<1> QED
  BY <1>1, <1>2, <1>3 DEF Inv

\* Every step preserves the invariant.
LEMMA NextInv == Inv /\ [Next]_vars => Inv'
<1> SUFFICES ASSUME Inv, [Next]_vars PROVE Inv'
  OBVIOUS
<1>1. TypeOK' /\ Locked'
  BY TypeNext, LockedNext DEF Inv, Locked
<1>2. UNCHANGED slow
  BY DEF Next, vars
<1>3. ASSUME ~slow PROVE Pipes' /\ OwnResults'
  <2>1. CASE Next
    BY <1>1, <1>3, <2>1, PipesNext DEF Inv, Locked
  <2>2. CASE UNCHANGED vars
    BY <1>3, <2>2 DEF Inv, vars, child, Pipes, OwnResults, Calling, InStart, Starting,
                      Resting, Quiet
  <2> QED
    BY <2>1, <2>2
<1> QED
  BY <1>1, <1>2, <1>3 DEF Inv, Locked

\* For any set of callers, the variables keep their types: in particular every
\* message in a pipe names a caller or is the ready message.
THEOREM WorkerTypes == Spec => []TypeOK
<1>1. Inv => TypeOK
  BY DEF Inv
<1> QED
  BY InitInv, NextInv, <1>1, PTL DEF Spec

\* For any set of callers, where no encode outlasts _REQUEST_TIMEOUT_S, encode
\* of the worker embedder returns the vectors of the texts it was given or
\* raises, however workers die, fail to start and are closed meanwhile.
THEOREM WorkerAnswers == Spec => []PromptAnswersMatch
<1>1. Inv => PromptAnswersMatch
  BY DEF Inv, PromptAnswersMatch, AnswersMatch, OwnResults
<1> QED
  BY InitInv, NextInv, <1>1, PTL DEF Spec
=============================================================================
