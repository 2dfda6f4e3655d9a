-------------------------- MODULE JobSubmissionProofs --------------------------
(***************************************************************************)
(* One job per key, and the implementation of JobPipeline's submission,    *)
(* for any number of requests and failures.                                *)
(***************************************************************************)
EXTENDS JobSubmission, FiniteSetTheorems, TLAPS

Inv ==
    /\ created \subseteq Requests
    /\ index \in {"building", "built", "failed"}
    /\ OneJobPerKey

\* An insert is accepted under a finished index only if it is the first.
THEOREM NoDuplicates == Spec => []OneJobPerKey
<1>1. Init => Inv
  <2> SUFFICES ASSUME Init PROVE Inv
    OBVIOUS
  <2>1. Cardinality(created) = 0
    BY FS_EmptySet DEF Init
  <2> QED BY <2>1 DEF Init, Inv, OneJobPerKey
<1>2. Inv /\ [Next]_vars => Inv'
  <2> SUFFICES ASSUME Inv, [Next]_vars PROVE Inv'
    OBVIOUS
  <2>1. CASE IndexEnds
    BY <2>1 DEF Inv, OneJobPerKey, IndexEnds
  <2>2. ASSUME NEW r \in Requests, CreateJob(r)
        PROVE  Inv'
    <3>1. CASE index = "built" /\ created # {}
      BY <2>2, <3>1 DEF Inv, OneJobPerKey, CreateJob
    <3>2. CASE index = "built" /\ created = {}
      <4>1. created' = {r} /\ index' = index
        BY <2>2, <3>2 DEF CreateJob
      <4>2. Cardinality({r}) = 1
        BY FS_Singleton
      <4> QED BY <4>1, <4>2 DEF Inv, OneJobPerKey
    <3>3. CASE index # "built"
      BY <2>2, <3>3 DEF Inv, OneJobPerKey, CreateJob
    <3> QED BY <3>1, <3>2, <3>3
  <2>3. ASSUME NEW r \in Requests,
               Receive(r) \/ RedisAnswers(r) \/ FindExisting(r) \/ PushJob(r) \/ RequestFails(r)
        PROVE  Inv'
    BY <2>3 DEF Inv, OneJobPerKey, Receive, RedisAnswers, FindExisting, PushJob, RequestFails
  <2>4. CASE UNCHANGED vars
    BY <2>4 DEF Inv, OneJobPerKey, vars
  <2> QED BY <2>1, <2>2, <2>3, <2>4 DEF Next, SubmitStep
<1>3. Inv => OneJobPerKey
  BY DEF Inv
<1> QED BY <1>1, <1>2, <1>3, PTL DEF Spec

-----------------------------------------------------------------------------
(* Type correctness.  What a request did to the stores is known from where *)
(* it is, and every document left without a push cost a fault.             *)

Abandoned == {r \in created \ pushed : request[r] # "pushing"}

BeforeCreate == {"unsent", "pinging", "finding", "creating"}

SInv ==
    /\ TypeOK
    /\ \A r \in Requests : request[r] \in BeforeCreate => r \notin created
    /\ \A r \in Requests : request[r] = "pushing" => r \in created \ pushed
    /\ Cardinality(Abandoned) <= faults

LEMMA AbandonedIsFinite ==
    ASSUME created \subseteq Requests
    PROVE  IsFiniteSet(Abandoned) /\ Cardinality(Abandoned) \in Nat
<1>1. IsFiniteSet(Requests)
  BY SubmissionAssumption
<1>2. Abandoned \in SUBSET Requests
  BY DEF Abandoned
<1> QED BY <1>1, <1>2, FS_Subset, FS_CardinalityType

\* A step changes Abandoned only where a request ends without its push.
LEMMA StepAbandons ==
    ASSUME SInv, NEW r \in Requests,
           Receive(r) \/ SubmitStep(r) \/ RequestFails(r)
    PROVE  \/ Abandoned' = Abandoned /\ faults <= faults'
           \/ /\ RequestFails(r) /\ pushed' = pushed
              /\ request[r] = "pushing" /\ request'[r] # "pushing"
              /\ Abandoned' = Abandoned \cup {r} /\ r \notin Abandoned
<1> USE DEF SInv, TypeOK, Abandoned, BeforeCreate, Goes
<1>1. CASE Receive(r)
  BY <1>1 DEF Receive
<1>2. CASE RedisAnswers(r)
  BY <1>2 DEF RedisAnswers, Fault
<1>3. CASE FindExisting(r)
  BY <1>3 DEF FindExisting
<1>4. CASE CreateJob(r)
  BY <1>4 DEF CreateJob
<1>5. CASE PushJob(r)
  BY <1>5 DEF PushJob
<1>6. CASE RequestFails(r)
  <2>1. CASE request[r] = "pushing" /\ UNCHANGED pushed
    BY <1>6, <2>1 DEF RequestFails, Fault
  <2>2. CASE request[r] = "pushing" /\ pushed' = pushed \cup {r}
    BY <1>6, <2>2 DEF RequestFails, Fault
  <2>3. CASE request[r] # "pushing"
    BY <1>6, <2>3 DEF RequestFails, Fault, UnderWay
  <2> QED BY <1>6, <2>1, <2>2, <2>3 DEF RequestFails
<1> QED BY <1>1, <1>2, <1>3, <1>4, <1>5, <1>6 DEF SubmitStep

LEMMA AbandonedCosts ==
    ASSUME SInv, NEW r \in Requests,
           Receive(r) \/ SubmitStep(r) \/ RequestFails(r), faults' \in Nat
    PROVE  Cardinality(Abandoned)' <= faults'
<1>1. IsFiniteSet(Abandoned) /\ Cardinality(Abandoned) \in Nat
  BY AbandonedIsFinite DEF SInv, TypeOK
<1>2. faults \in Nat /\ Cardinality(Abandoned) <= faults
  BY SubmissionAssumption DEF SInv, TypeOK
<1>3. CASE Abandoned' = Abandoned /\ faults <= faults'
  BY <1>1, <1>2, <1>3
<1>4. CASE RequestFails(r) /\ Abandoned' = Abandoned \cup {r} /\ r \notin Abandoned
  <2>1. Cardinality(Abandoned \cup {r}) = Cardinality(Abandoned) + 1
    BY <1>1, <1>4, FS_AddElement
  <2>2. faults' = faults + 1
    BY <1>4 DEF RequestFails, Fault
  <2> QED BY <1>1, <1>2, <1>4, <2>1, <2>2
<1> QED BY <1>3, <1>4, StepAbandons

\* The invariant above holds of every behaviour.
THEOREM SubmissionInvariance == Spec => []SInv
<1>1. Init => SInv
  <2> SUFFICES ASSUME Init PROVE SInv
    OBVIOUS
  <2>1. Abandoned = {}
    BY DEF Init, Abandoned
  <2>2. Cardinality(Abandoned) = 0
    BY <2>1, FS_EmptySet
  <2> QED BY <2>2, SubmissionAssumption DEF Init, SInv, TypeOK, UnderWay, Answer, BeforeCreate
<1>2. SInv /\ [Next]_vars => SInv'
  <2> SUFFICES ASSUME SInv, [Next]_vars PROVE SInv'
    OBVIOUS
  <2>1. CASE IndexEnds
    BY <2>1 DEF IndexEnds, SInv, TypeOK, Abandoned
  <2>2. CASE UNCHANGED vars
    BY <2>2 DEF vars, SInv, TypeOK, Abandoned
  <2>3. ASSUME NEW r \in Requests, Receive(r) \/ SubmitStep(r) \/ RequestFails(r)
        PROVE  SInv'
    <3> USE <2>3
    <3>1. TypeOK'
      <4> USE DEF SInv, TypeOK, UnderWay, Answer, BeforeCreate, Goes
      <4>1. CASE Receive(r)
        BY <4>1 DEF Receive
      <4>2. CASE RedisAnswers(r)
        BY <4>2, SubmissionAssumption DEF RedisAnswers, Fault
      <4>3. CASE FindExisting(r)
        BY <4>3 DEF FindExisting
      <4>4. CASE CreateJob(r)
        BY <4>4 DEF CreateJob
      <4>5. CASE PushJob(r)
        BY <4>5 DEF PushJob
      <4>6. CASE RequestFails(r)
        BY <4>6, SubmissionAssumption DEF RequestFails, Fault
      <4> QED BY <4>1, <4>2, <4>3, <4>4, <4>5, <4>6 DEF SubmitStep
    <3>2. (\A q \in Requests : request[q] \in BeforeCreate => q \notin created)'
      <4> USE DEF SInv, TypeOK, UnderWay, Answer, BeforeCreate, Goes
      <4> QED BY DEF Receive, SubmitStep, RedisAnswers, FindExisting, CreateJob, PushJob, RequestFails
    <3>3. (\A q \in Requests : request[q] = "pushing" => q \in created \ pushed)'
      <4> USE DEF SInv, TypeOK, UnderWay, Answer, BeforeCreate, Goes
      <4> QED BY DEF Receive, SubmitStep, RedisAnswers, FindExisting, CreateJob, PushJob, RequestFails
    <3>4. (Cardinality(Abandoned) <= faults)'
      BY <3>1, AbandonedCosts, SubmissionAssumption DEF TypeOK
    <3> QED BY <3>1, <3>2, <3>3, <3>4 DEF SInv
  <2> QED BY <2>1, <2>2, <2>3 DEF Next
<1> QED BY <1>1, <1>2, PTL DEF Spec

\* Wherever submitJob stands with each request, the sets it leaves in the
\* stores nest: what was pushed was created, and what was created was asked for.
THEOREM SubmissionTypes == Spec => []TypeOK
<1>1. SInv => TypeOK
  BY DEF SInv
<1> QED BY <1>1, SubmissionInvariance, PTL

\* The safety behind AcceptedIsQueued: at every moment at which a client has
\* been told 201 or 200, a request is on its way to push, or has, or a command
\* failed.  That a 200 can come before the first push is why the middle case
\* is needed; that the push is then done is left to fairness.
AcceptedIsCarried ==
    (\E r \in Requests : request[r] \in {"200", "201"}) =>
        faults > 0 \/ pushed # {} \/ \E q \in Requests : request[q] = "pushing"

AnswersAreTrue ==
    /\ (\E r \in Requests : request[r] = "200") => created # {}
    /\ \A r \in Requests : request[r] = "201" => r \in pushed

\* Nobody is told of a job that nothing carries on, unless something failed.
THEOREM AcceptedJobsAreCarried == Spec => []AcceptedIsCarried
<1>1. Init => AnswersAreTrue
  BY DEF Init, AnswersAreTrue
<1>2. SInv /\ AnswersAreTrue /\ [Next]_vars => AnswersAreTrue'
  <2> SUFFICES ASSUME SInv, AnswersAreTrue, [Next]_vars PROVE AnswersAreTrue'
    OBVIOUS
  <2>1. CASE IndexEnds \/ UNCHANGED vars
    BY <2>1 DEF IndexEnds, vars, AnswersAreTrue
  <2>2. ASSUME NEW r \in Requests, Receive(r) \/ SubmitStep(r) \/ RequestFails(r)
        PROVE  AnswersAreTrue'
    <3> USE DEF SInv, TypeOK, Goes
    <3>1. /\ created \subseteq created' /\ pushed \subseteq pushed'
          /\ \A q \in Requests \ {r} : request'[q] = request[q]
      BY <2>2 DEF Receive, SubmitStep, RedisAnswers, FindExisting, CreateJob, PushJob, RequestFails
    <3>2. request'[r] = "200" => request[r] = "200" \/ created # {}
      BY <2>2 DEF Receive, SubmitStep, RedisAnswers, FindExisting, CreateJob, PushJob, RequestFails
    <3>3. request'[r] = "201" => request[r] = "201" \/ r \in pushed'
      BY <2>2 DEF Receive, SubmitStep, RedisAnswers, FindExisting, CreateJob, PushJob, RequestFails
    <3> QED BY <3>1, <3>2, <3>3 DEF AnswersAreTrue
  <2> QED BY <2>1, <2>2 DEF Next
<1>3. SInv /\ AnswersAreTrue => AcceptedIsCarried
  <2> SUFFICES ASSUME SInv, AnswersAreTrue, created # {}, pushed = {},
                      \A q \in Requests : request[q] # "pushing"
               PROVE  faults > 0
    BY DEF AcceptedIsCarried, AnswersAreTrue, SInv, TypeOK
  <2>1. Abandoned # {}
    BY DEF Abandoned, SInv, TypeOK
  <2>2. IsFiniteSet(Abandoned) /\ Cardinality(Abandoned) \in Nat
    BY AbandonedIsFinite DEF SInv, TypeOK
  <2>3. Cardinality(Abandoned) # 0
    BY <2>1, <2>2, FS_EmptySet
  <2>4. faults \in Nat /\ Cardinality(Abandoned) <= faults
    BY SubmissionAssumption DEF SInv, TypeOK
  <2> QED BY <2>2, <2>3, <2>4
<1> QED BY <1>1, <1>2, <1>3, SubmissionInvariance, PTL DEF Spec

-----------------------------------------------------------------------------
(* The refinement.  Only three steps are visible to JobPipeline: an        *)
(* accepted insert, a push, and a request that ends between the two.       *)

\* The values JobPipeline's variables have here.
MappedDb == [r \in Requests |-> IF r \in created THEN Doc!NewDoc ELSE Doc!NoDoc]

MappedQueue == pushed \ future

MappedDelayed == [r \in Requests |-> IF r \in pushed \cap future THEN "waiting" ELSE "absent"]

MappedSubmit ==
    [r \in Requests |->
        CASE r \notin created -> "new"
          [] request[r] = "pushing" -> IF r \in future THEN "scheduling" ELSE "enqueueing"
          [] OTHER -> "done"]

MappedFaults == Cardinality({r \in created \ pushed : request[r] # "pushing"})

mappedVars == <<MappedDb, MappedQueue, MappedDelayed, MappedSubmit, MappedFaults>>

\* A step that leaves the mapped values alone.
LEMMA Stutters ==
    ASSUME UNCHANGED mappedVars
    PROVE  UNCHANGED Pipeline!vars
BY DEF mappedVars, MappedDb, MappedQueue, MappedDelayed, MappedSubmit, MappedFaults,
       Pipeline!vars, NothingOf

LEMMA InsertIsCreateJob ==
    ASSUME SInv, NEW r \in Requests, CreateJob(r), created' # created
    PROVE  \E scheduled \in BOOLEAN : Pipeline!CreateJob(r, scheduled)
<1> USE DEF SInv, TypeOK, Goes
<1>1. /\ request[r] = "creating" /\ r \notin created
      /\ request' = [request EXCEPT ![r] = "pushing"] /\ created' = created \cup {r}
      /\ UNCHANGED <<future, pushed, faults>>
  BY DEF CreateJob, BeforeCreate
<1>2. MappedSubmit[r] = "new"
  BY <1>1 DEF MappedSubmit
<1>3. MappedDb' = [MappedDb EXCEPT ![r] = Doc!NewDoc]
  BY <1>1 DEF MappedDb
<1>4. PICK scheduled \in BOOLEAN : scheduled <=> r \in future
  OBVIOUS
<1>5. MappedSubmit' = [MappedSubmit EXCEPT ![r] = IF scheduled THEN "scheduling" ELSE "enqueueing"]
  BY <1>1, <1>4 DEF MappedSubmit
<1>6. UNCHANGED <<MappedQueue, MappedDelayed, MappedFaults>>
  <2>1. Abandoned' = Abandoned
    BY StepAbandons DEF SubmitStep, RequestFails, CreateJob
  <2> QED BY <1>1, <2>1 DEF MappedQueue, MappedDelayed, MappedFaults, Abandoned
<1>7. Pipeline!CreateJob(r, scheduled)
  BY <1>2, <1>3, <1>5, <1>6
     DEF Pipeline!CreateJob, Pipeline!workerVars, NothingOf, Pipeline!NewDoc, Doc!NewDoc,
         Pipeline!NoDoc, Doc!NoDoc,
         MappedDb, MappedQueue, MappedDelayed, MappedSubmit, MappedFaults
<1> QED BY <1>7

\* The ZADD was applied, whether the client hears 201, 500 or nothing.
LEMMA PushIsEnqueueOrSchedule ==
    ASSUME SInv, NEW r \in Requests, request[r] = "pushing",
           PushJob(r) \/ RequestFails(r), pushed' = pushed \cup {r}
    PROVE  Pipeline!EnqueueNewJob(r) \/ Pipeline!ScheduleNewJob(r)
<1> USE DEF SInv, TypeOK
<1>1. /\ r \in created \ pushed /\ pushed' = pushed \cup {r}
      /\ request'[r] # "pushing" /\ UNCHANGED <<future, created>>
      /\ \A q \in Requests \ {r} : request'[q] = request[q]
  BY DEF PushJob, RequestFails, Goes
<1>2. MappedSubmit[r] = IF r \in future THEN "scheduling" ELSE "enqueueing"
  BY <1>1 DEF MappedSubmit
<1>3. MappedSubmit' = [MappedSubmit EXCEPT ![r] = "done"]
  BY <1>1 DEF MappedSubmit
<1>4. UNCHANGED <<MappedDb, MappedFaults>>
  <2>1. Abandoned' = Abandoned
    BY <1>1 DEF Abandoned
  <2> QED BY <1>1, <2>1 DEF MappedDb, MappedFaults, Abandoned
<1>5. CASE r \in future
  <2>1. MappedDelayed' = [MappedDelayed EXCEPT ![r] = "waiting"] /\ UNCHANGED MappedQueue
    BY <1>1, <1>5 DEF MappedDelayed, MappedQueue
  <2> QED BY <1>2, <1>3, <1>4, <1>5, <2>1
          DEF Pipeline!ScheduleNewJob, Pipeline!PushToDelayedQueue, Pipeline!workerVars, NothingOf,
              MappedDb, MappedQueue, MappedDelayed, MappedSubmit, MappedFaults
<1>6. CASE r \notin future
  <2>1. MappedQueue' = MappedQueue \cup {r} /\ UNCHANGED MappedDelayed
    BY <1>1, <1>6 DEF MappedDelayed, MappedQueue
  <2> QED BY <1>2, <1>3, <1>4, <1>6, <2>1
          DEF Pipeline!EnqueueNewJob, Pipeline!PushJobToQueue, Pipeline!workerVars, NothingOf,
              MappedDb, MappedQueue, MappedDelayed, MappedSubmit, MappedFaults
<1> QED BY <1>5, <1>6

\* JobPipeline's fault is the one that came between insert and push; those
\* that hit a request elsewhere, or after an applied push, are not its own.
LEMMA AbandonIsSubmissionFails ==
    ASSUME SInv, NEW r \in Requests, RequestFails(r), request[r] = "pushing", pushed' = pushed
    PROVE  Pipeline!SubmissionFails(r)
<1> USE DEF SInv, TypeOK
<1>1. /\ r \in created \ pushed /\ request'[r] # "pushing"
      /\ UNCHANGED <<future, created, pushed>>
      /\ \A q \in Requests \ {r} : request'[q] = request[q]
      /\ faults < MaxFaults
  BY DEF RequestFails, Fault
<1>2. Abandoned' = Abandoned \cup {r} /\ r \notin Abandoned
  BY <1>1 DEF Abandoned
<1>3. IsFiniteSet(Abandoned) /\ Cardinality(Abandoned) \in Nat
  BY AbandonedIsFinite
<1>4. MappedFaults' = MappedFaults + 1
  <2>1. Cardinality(Abandoned \cup {r}) = Cardinality(Abandoned) + 1
    BY <1>2, <1>3, FS_AddElement
  <2> QED BY <1>2, <2>1 DEF MappedFaults, Abandoned
<1>5. MappedFaults < MaxFaults
  <2>1. MappedFaults = Cardinality(Abandoned)
    BY DEF MappedFaults, Abandoned
  <2>2. faults \in Nat /\ MaxFaults \in Nat /\ Cardinality(Abandoned) <= faults
    BY SubmissionAssumption
  <2> QED BY <1>1, <1>3, <2>1, <2>2
<1>6. MappedSubmit[r] \in {"enqueueing", "scheduling"}
  BY <1>1 DEF MappedSubmit
<1>7. MappedSubmit' = [MappedSubmit EXCEPT ![r] = "done"]
  BY <1>1 DEF MappedSubmit
<1>8. UNCHANGED <<MappedDb, MappedQueue, MappedDelayed>>
  BY <1>1 DEF MappedDb, MappedQueue, MappedDelayed
<1> QED BY <1>4, <1>5, <1>6, <1>7, <1>8
        DEF Pipeline!SubmissionFails, Pipeline!Fault, Pipeline!workerVars, NothingOf,
            MappedDb, MappedQueue, MappedDelayed, MappedSubmit, MappedFaults

\* Every other step of a request: of one that has no document yet, or loses
\* to the index, or fails without anything left to do.
LEMMA OtherStepsStutter ==
    ASSUME SInv, NEW r \in Requests, Receive(r) \/ SubmitStep(r) \/ RequestFails(r),
           created' = created, request[r] # "pushing"
    PROVE  UNCHANGED mappedVars
<1> USE DEF SInv, TypeOK, BeforeCreate, Goes
<1>1. /\ pushed' = pushed
      /\ request'[r] # "pushing"
      /\ \A q \in Requests \ {r} : request'[q] = request[q]
  BY DEF Receive, SubmitStep, RedisAnswers, FindExisting, CreateJob, PushJob, RequestFails
<1>2. \A q \in created : q \in future' <=> q \in future
  BY DEF Receive, SubmitStep, RedisAnswers, FindExisting, CreateJob, PushJob, RequestFails
<1>3. UNCHANGED <<MappedDb, MappedQueue, MappedDelayed>>
  BY <1>1, <1>2 DEF MappedDb, MappedQueue, MappedDelayed
<1>4. UNCHANGED MappedSubmit
  BY <1>1, <1>2 DEF MappedSubmit
<1>5. UNCHANGED MappedFaults
  <2>1. Abandoned' = Abandoned
    BY <1>1 DEF Abandoned
  <2> QED BY <2>1 DEF MappedFaults, Abandoned
<1> QED BY <1>3, <1>4, <1>5 DEF mappedVars

\* submitJob, with its retries, races and failures, is JobPipeline's CreateJob
\* followed by one push or one fault, for every document and in any number.
THEOREM SubmissionRefinesPipeline == Spec => SubmitsAsPipeline
<1>1. Init => Pipeline!Init
  <2> SUFFICES ASSUME Init PROVE Pipeline!Init
    OBVIOUS
  <2>1. /\ MappedDb = [r \in Requests |-> Doc!NoDoc] /\ MappedQueue = {}
        /\ MappedDelayed = [r \in Requests |-> "absent"]
        /\ MappedSubmit = [r \in Requests |-> "new"]
    BY DEF Init, MappedDb, MappedQueue, MappedDelayed, MappedSubmit
  <2>2. Abandoned = {}
    BY DEF Init, Abandoned
  <2>3. MappedFaults = 0
    BY <2>2, FS_EmptySet DEF MappedFaults, Abandoned
  <2> QED BY <2>1, <2>3
          DEF Pipeline!Init, NothingOf, Pipeline!NoDoc, Doc!NoDoc,
              MappedDb, MappedQueue, MappedDelayed, MappedSubmit, MappedFaults
<1>2. SInv /\ [Next]_vars => [Pipeline!Next]_(Pipeline!vars)
  <2> SUFFICES ASSUME SInv, [Next]_vars PROVE Pipeline!Next \/ UNCHANGED Pipeline!vars
    OBVIOUS
  <2>1. CASE IndexEnds \/ UNCHANGED vars
    <3>1. UNCHANGED mappedVars
      BY <2>1 DEF IndexEnds, vars, mappedVars, MappedDb, MappedQueue, MappedDelayed,
                  MappedSubmit, MappedFaults
    <3> QED BY <3>1, Stutters
  <2>2. ASSUME NEW r \in Requests, Receive(r) \/ SubmitStep(r) \/ RequestFails(r)
        PROVE  Pipeline!Next \/ UNCHANGED Pipeline!vars
    <3>1. CASE created' # created
      <4>1. CreateJob(r)
        BY <2>2, <3>1 DEF Receive, SubmitStep, RedisAnswers, FindExisting, PushJob, RequestFails
      <4>2. PICK scheduled \in BOOLEAN : Pipeline!CreateJob(r, scheduled)
        BY <3>1, <4>1, InsertIsCreateJob
      <4> QED BY <4>2 DEF Pipeline!Next, Pipeline!ApiStep
    <3>2. CASE created' = created /\ request[r] = "pushing"
      <4>1. PushJob(r) \/ RequestFails(r)
        BY <2>2, <3>2 DEF Receive, SubmitStep, RedisAnswers, FindExisting, CreateJob, Goes
      <4>2. pushed' = pushed \/ pushed' = pushed \cup {r}
        BY <4>1 DEF PushJob, RequestFails
      <4>3. CASE pushed' = pushed \cup {r}
        BY <3>2, <4>1, <4>3, PushIsEnqueueOrSchedule DEF Pipeline!Next, Pipeline!ApiStep
      <4>4. CASE pushed' = pushed /\ RequestFails(r)
        BY <3>2, <4>4, AbandonIsSubmissionFails DEF Pipeline!Next, Pipeline!FaultStep
      <4> QED BY <4>1, <4>2, <4>3, <4>4 DEF PushJob
    <3>3. CASE created' = created /\ request[r] # "pushing"
      BY <2>2, <3>3, OtherStepsStutter, Stutters
    <3> QED BY <3>1, <3>2, <3>3
  <2> QED BY <2>1, <2>2 DEF Next
<1> QED BY <1>1, <1>2, SubmissionInvariance, PTL DEF Spec, SubmitsAsPipeline, Pipeline!Spec
================================================================================
