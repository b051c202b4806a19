------------------------ MODULE ZenzLiveCorrectorProof ------------------------
(***************************************************************************)
(* Proofs about session/zenz_live_corrector.cc for every set of keys and   *)
(* outcomes and every number of generations.                               *)
(***************************************************************************)
EXTENDS ZenzLiveCorrector, TLAPS

\* A step of the owner or of the worker keeps the inductive invariant.  Each
\* of the five parts is a step below every action.
LEMMA StepKeepsIInv == IInv /\ [Next]_vars => IInv'
<1> SUFFICES ASSUME IInv, [Next]_vars PROVE IInv'
  OBVIOUS
<1> USE BoundAssumption, NoneAssumption
<1> USE DEF IInv, TypeOK, NoLostWakeup, ThreadMatchesFlag,
            NothingNewerThanAsked, Positions, Generation, Request, Response
<1>1. ASSUME NEW k \in Key, SubmitStart(k) PROVE IInv'
  <2> generation + 1 \in Generation
    BY <1>1 DEF SubmitStart
  <2> argument' \in Request
    BY <1>1 DEF SubmitStart
  <2>1. TypeOK'
    <3>1. started' \in BOOLEAN /\ stop' \in BOOLEAN
      BY <1>1, Zenon DEF SubmitStart
    <3>2. worker' \in {"none", "loop", "blocked", "convert", "exited"}
      BY <1>1 DEF SubmitStart
    <3>3. owner' \in {"idle", "store", "notify", "stop_notify", "join"}
      BY <1>1 DEF SubmitStart
    <3>4. generation' \in 0 .. MaxGeneration
      BY <1>1 DEF SubmitStart
    <3>5. UNCHANGED <<latest_request, latest_result, job, asked, delivered>>
      BY <1>1 DEF SubmitStart
    <3> QED
      BY <3>1, <3>2, <3>3, <3>4, <3>5
  <2>2. NoLostWakeup' /\ ThreadMatchesFlag'
    BY <1>1 DEF SubmitStart
  <2>3. NothingNewerThanAsked'
    BY <1>1 DEF SubmitStart
  <2>4. \A r \in {job, latest_result} \ {None} :
           r.generation \in Nat /\ r.generation <= generation
    OBVIOUS
  <2>5. \A r \in {job, latest_result}' \ {None} : r.generation < generation'
    BY <1>1, <2>4 DEF SubmitStart
  <2>6. Positions'
    BY <1>1, <2>5 DEF SubmitStart
  <2> QED
    BY <2>1, <2>2, <2>3, <2>6
<1>2. CASE SubmitStore
  BY <1>2 DEF SubmitStore, worker_vars
<1>3. CASE SubmitNotify
  BY <1>3 DEF SubmitNotify, Notify
<1>4. CASE CancelPending
  BY <1>4 DEF CancelPending, worker_vars
<1>5. CASE TakeResult
  BY <1>5 DEF TakeResult, Taken, worker_vars
<1>6. CASE StopRequest
  BY <1>6 DEF StopRequest, worker_vars
<1>7. CASE StopNotify
  BY <1>7 DEF StopNotify, Notify
<1>8. CASE StopJoin
  BY <1>8 DEF StopJoin
<1>9. CASE WorkerExit
  BY <1>9 DEF WorkerExit, owner_vars
<1>10. CASE WorkerTake
  BY <1>10 DEF WorkerTake, owner_vars
<1>11. CASE WorkerBlock
  BY <1>11 DEF WorkerBlock, owner_vars
<1>12. ASSUME NEW o \in Outcome, WorkerFinish(o) PROVE IInv'
  BY <1>12 DEF WorkerFinish, owner_vars
<1>13. CASE SpuriousWakeup
  BY <1>13 DEF SpuriousWakeup, owner_vars
<1>14. CASE UNCHANGED vars
  BY <1>14 DEF vars, worker_vars, owner_vars
<1> QED
  BY <1>1, <1>2, <1>3, <1>4, <1>5, <1>6, <1>7, <1>8, <1>9, <1>10, <1>11,
     <1>12, <1>13, <1>14 DEF Next, SubmitStep, StopStep, WorkerStep

\* The inductive invariant holds in every reachable state.
THEOREM InductiveInvariant == Spec => []IInv
<1>1. Init => IInv
  <2> SUFFICES ASSUME Init PROVE IInv
    OBVIOUS
  <2>1. TypeOK
    <3>1. started \in BOOLEAN /\ stop \in BOOLEAN
      BY Zenon DEF Init
    <3>2. generation \in 0 .. MaxGeneration
      BY BoundAssumption DEF Init
    <3> QED
      BY <3>1, <3>2 DEF Init, TypeOK
  <2>2. NoLostWakeup /\ ThreadMatchesFlag
    BY DEF Init, NoLostWakeup, ThreadMatchesFlag
  <2>3. NothingNewerThanAsked /\ Positions
    BY DEF Init, NothingNewerThanAsked, Positions
  <2> QED
    BY <2>1, <2>2, <2>3 DEF IInv
<1> QED
  BY <1>1, StepKeepsIInv, PTL DEF Spec

\* The type invariant, for every set of keys and number of generations.
THEOREM TypeCorrect == Spec => []TypeOK
<1>1. IInv => TypeOK
  BY DEF IInv
<1> QED
  BY <1>1, InductiveInvariant, PTL

\* The worker never sleeps through a request or a stop that nobody is going
\* to notify it of.
THEOREM LostWakeupFree == Spec => []NoLostWakeup
<1>1. IInv => NoLostWakeup
  BY DEF IInv
<1> QED
  BY <1>1, InductiveInvariant, PTL

\* std::thread is never assigned over a joinable thread.
THEOREM OneWorker == Spec => []ThreadMatchesFlag
<1>1. IInv => ThreadMatchesFlag
  BY DEF IInv
<1> QED
  BY <1>1, InductiveInvariant, PTL

\* TakeResult hands the owner the answer to its latest submission only.
THEOREM LatestDelivered == Spec => DeliversOnlyTheLatest
<1> DEFINE Fresh == delivered' # delivered =>
                      /\ asked # None
                      /\ delivered'.generation = asked.generation
                      /\ delivered'.key = asked.key
<1>1. IInv /\ [Next]_vars => [Fresh]_vars
  <2> SUFFICES ASSUME IInv, [Next]_vars, delivered' # delivered
               PROVE  /\ asked # None
                      /\ delivered'.generation = asked.generation
                      /\ delivered'.key = asked.key
    BY DEF vars, owner_vars
  <2>1. TakeResult
    BY DEF Next, SubmitStart, SubmitStep, SubmitStore, SubmitNotify, CancelPending,
           StopRequest, StopStep, StopNotify, StopJoin, WorkerStep, WorkerExit,
           WorkerTake, WorkerBlock, WorkerFinish, SpuriousWakeup, vars, owner_vars
  <2>2. /\ asked # None
        /\ latest_result # None
        /\ latest_result.generation = asked.generation
        /\ delivered' = latest_result
    BY <2>1 DEF TakeResult, Taken
  <2>3. asked.generation \in Nat
    BY <2>2 DEF IInv, TypeOK, Request, Generation
  <2> QED
    BY <2>2, <2>3 DEF IInv, NothingNewerThanAsked
<1> QED
  BY <1>1, InductiveInvariant, PTL DEF Spec, DeliversOnlyTheLatest

\* The converter is started on the owner's latest submission only.
THEOREM LatestConverted == Spec => ConvertsOnlyTheLatest
<1>1. IInv /\ [Next]_vars =>
        [worker' = "convert" /\ worker # "convert" => job' = asked]_vars
  <2> SUFFICES ASSUME IInv, [Next]_vars, worker' = "convert", worker # "convert"
               PROVE  job' = asked
    OBVIOUS
  <2>1. WorkerTake
    BY DEF Next, SubmitStart, SubmitStep, SubmitStore, SubmitNotify, CancelPending,
           TakeResult, StopRequest, StopStep, StopNotify, StopJoin, WorkerStep,
           WorkerExit, WorkerBlock, WorkerFinish, SpuriousWakeup, Notify,
           vars, worker_vars
  <2> QED
    BY <2>1 DEF WorkerTake, IInv, NothingNewerThanAsked
<1> QED
  BY <1>1, InductiveInvariant, PTL DEF Spec, ConvertsOnlyTheLatest

\* Every step of the two threads is a step of the mailbox or leaves it alone.
THEOREM ImplementsMailbox == Spec => Mailbox!Init /\ [][Mailbox!Next]_Mailbox!mailbox
<1>1. Init => Mailbox!Init
  BY DEF Init, Mailbox!Init
<1>2. IInv /\ [Next]_vars => [Mailbox!Next]_Mailbox!mailbox
  <2> SUFFICES ASSUME IInv, [Next]_vars PROVE [Mailbox!Next]_Mailbox!mailbox
    OBVIOUS
  <2> USE DEF Mailbox!mailbox
  <2>1. ASSUME NEW k \in Key, SubmitStart(k) PROVE UNCHANGED Mailbox!mailbox
    BY <2>1 DEF SubmitStart
  <2>2. CASE SubmitStore
    <3>1. argument \in Mailbox!Request
      BY <2>2 DEF SubmitStore, IInv, TypeOK, Positions, Request, Mailbox!Request
    <3>2. Mailbox!Submit(argument)
      BY <2>2 DEF SubmitStore, worker_vars, Mailbox!Submit
    <3> QED
      BY <3>1, <3>2 DEF Mailbox!Next
  <2>3. CASE SubmitNotify
    BY <2>3 DEF SubmitNotify
  <2>4. CASE CancelPending
    BY <2>4 DEF CancelPending, worker_vars, Mailbox!Next, Mailbox!CancelPending
  <2>5. CASE TakeResult
    <3>1. asked.generation \in Generation
      BY <2>5 DEF TakeResult, IInv, TypeOK, Request
    <3>2. Mailbox!TakeResult(asked.generation)
      BY <2>5 DEF TakeResult, worker_vars, Mailbox!TakeResult
    <3> QED
      BY <3>1, <3>2 DEF Mailbox!Next
  <2>6. CASE StopRequest
    BY <2>6 DEF StopRequest, worker_vars, Mailbox!Next, Mailbox!CancelPending
  <2>7. CASE StopStep
    BY <2>7 DEF StopStep, StopNotify, StopJoin
  <2>8. CASE WorkerTake
    BY <2>8 DEF WorkerTake, IInv, Positions, Mailbox!Next, Mailbox!Convert,
                Mailbox!Begin
  <2>9. ASSUME NEW o \in Outcome, WorkerFinish(o) PROVE Mailbox!Next
    BY <2>9 DEF WorkerFinish, IInv, Positions, Mailbox!Next, Mailbox!Convert,
                Mailbox!Finish, Mailbox!Answer
  <2>10. CASE WorkerExit \/ WorkerBlock \/ SpuriousWakeup
    BY <2>10 DEF WorkerExit, WorkerBlock, SpuriousWakeup
  <2>11. CASE UNCHANGED vars
    BY <2>11 DEF vars, worker_vars
  <2> QED
    BY <2>1, <2>2, <2>3, <2>4, <2>5, <2>6, <2>7, <2>8, <2>9, <2>10, <2>11
       DEF Next, SubmitStep, WorkerStep
<1> QED
  BY <1>1, <1>2, InductiveInvariant, PTL DEF Spec
=============================================================================
