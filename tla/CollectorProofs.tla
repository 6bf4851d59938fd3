-------------------------- MODULE CollectorProofs --------------------------
(***************************************************************************)
(* What modules OciCall and LeafCollectors promise: the calls for every    *)
(* plan of operations, every listing, every number of attempts and every   *)
(* deadline; the leaf collectors, which are made of such calls, for every  *)
(* set of items, children and compartments, and every bound on what        *)
(* changes and fails meanwhile.                                            *)
(***************************************************************************)
EXTENDS OciCall, LeafCollectors, FiniteSetTheorems, TLAPS

-----------------------------------------------------------------------------
(* The calls: the inductive invariant.                                      *)

\* The current operation holds exactly the pages read so far, a finished one some of its
\* pages, and one that succeeded all of them.
ReadInv ==
  /\ pc # "done" => items = UNION {current.pages[i] : i \in 1..page}
  /\ \A n \in 1..Len(results) :
       results[n].status = "success" /\ plan[n].kind # "public_ip" =>
         results[n].items = Listing(plan[n])
  /\ \A n \in 1..Len(results) : results[n].items \subseteq Listing(plan[n])

\* Once a late request has been sent no sleep follows it, and the next check fails.
LateInv ==
  /\ late <= 1
  /\ pc = "backoff" /\ current.kind # "public_ip" => ~deadline_exceeded(clock)
  /\ late > 0 =>
       /\ deadline_exceeded(clock)
       /\ pc # "backoff"
       /\ pc = "inflight" => current.kind # "public_ip"

\* How far the clock may be past the deadline at each point of the loops.
ClockInv ==
  deadline # NoDeadline =>
    /\ clock <= deadline + MaxDelay + MaxCall
    /\ pc = "inflight" => clock <= deadline + MaxDelay
    /\ pc = "inflight" /\ current.kind = "public_ip" => clock <= deadline
    /\ pc = "backoff" => clock <= deadline + MaxCall
    /\ pc = "backoff" /\ current.kind # "public_ip" => clock <= deadline

\* A thread sleeps only before an attempt it still has.
RetryInv == pc = "backoff" => attempt < MaxAttempts - 1

IInv == TypeOK /\ ReadInv /\ LateInv /\ ClockInv /\ RetryInv

USE AttemptsAssumption, TimeAssumption, NoDeadlineAssumption

-----------------------------------------------------------------------------
(* The calls: facts about the data.                                         *)

\* A member of a plan is an operation with at least one page.
LEMMA PlanType ==
  ASSUME TypeOK, NEW n \in 1..Len(plan)
  PROVE  /\ plan[n] \in Operation
         /\ plan[n].pages \in Seq(SUBSET AnyItem)
         /\ Len(plan[n].pages) \in Nat /\ Len(plan[n].pages) >= 1
         /\ plan[n].kind # "paginate" => Len(plan[n].pages) = 1
<1>1. plan \in Seq(Operation)
  BY PlansAssumption DEF TypeOK
<1>2. plan[n] \in Operation
  BY <1>1
<1> QED
  BY <1>2, OperationAssumption

\* While the thread is not done, the current operation is the next one of the plan.
LEMMA CurrentType ==
  ASSUME TypeOK, pc # "done"
  PROVE  /\ Len(results) + 1 \in 1..Len(plan)
         /\ current.pages \in Seq(SUBSET AnyItem)
         /\ Len(current.pages) \in Nat /\ Len(current.pages) >= 1
         /\ page < Len(current.pages)
<1>1. Len(results) \in Nat /\ Len(plan) \in Nat /\ Len(results) < Len(plan)
  BY PlansAssumption DEF TypeOK
<1>2. Len(results) + 1 \in 1..Len(plan)
  BY <1>1
<1> QED
  BY <1>2, PlanType DEF current, TypeOK

\* One more page read.
LEMMA OneMorePage ==
  ASSUME NEW f, NEW n \in Nat
  PROVE  UNION {f[i] : i \in 1..(n + 1)} = (UNION {f[i] : i \in 1..n}) \cup f[n + 1]
<1>1. 1..(n + 1) = (1..n) \cup {n + 1}
  OBVIOUS
<1> QED
  BY <1>1, Zenon

\* What has been read of an operation is part of its listing.
LEMMA ReadIsListed ==
  ASSUME IInv, pc # "done"
  PROVE  items \subseteq Listing(current)
<1>1. page \in Nat /\ Len(current.pages) \in Nat /\ page < Len(current.pages)
  BY CurrentType DEF IInv, TypeOK
<1>2. 1..page \subseteq 1..Len(current.pages)
  BY <1>1
<1>3. items = UNION {current.pages[i] : i \in 1..page}
  BY DEF IInv, ReadInv
<1> QED
  BY <1>2, <1>3 DEF Listing

\* Returning from an operation keeps the invariant if what was collected is right
\* for the status, and the time passed is within bounds.
LEMMA ReturnKeeps ==
  ASSUME IInv, pc # "done",
         NEW status \in {"success", "failed"}, NEW collected \in SUBSET AnyItem,
         collected \subseteq Listing(current),
         status = "success" /\ current.kind # "public_ip" => collected = Listing(current),
         Return(status, collected),
         clock' \in Nat, clock' >= clock,
         deadline # NoDeadline => clock' <= deadline + MaxDelay + MaxCall,
         UNCHANGED <<plan, deadline, late>>
  PROVE  IInv'
<1> USE DEF IInv
<1>1. /\ Len(results) \in Nat /\ Len(plan) \in Nat /\ Len(results) < Len(plan)
      /\ results \in Seq(Result)
  BY PlansAssumption DEF TypeOK
<1>2. /\ results' = Append(results, [status |-> status, items |-> collected])
      /\ results' \in Seq(Result)
      /\ Len(results') = Len(results) + 1
      /\ results'[Len(results) + 1] = [status |-> status, items |-> collected]
      /\ \A n \in 1..Len(results) : results'[n] = results[n]
  BY <1>1 DEF Return, Result
<1>3. /\ page' = 0 /\ items' = {} /\ attempt' = 0
      /\ pc' \in {"top", "done"}
      /\ pc' = "done" <=> Len(results') = Len(plan)
  BY <1>1, <1>2 DEF Return
<1>4. pc' # "done" => Len(results') + 1 \in 1..Len(plan')
  BY <1>1, <1>2, <1>3
<1>5. TypeOK'
  <2>1. pc' # "done" => 0 < Len(current'.pages)
    <3> SUFFICES ASSUME pc' # "done"
                 PROVE  0 < Len(current'.pages)
      OBVIOUS
    <3>1. current' = plan[Len(results') + 1]
      BY DEF current
    <3> QED
      BY <1>4, <3>1, PlanType
  <2> QED
    BY <1>1, <1>2, <1>3, <2>1 DEF TypeOK
<1>6. ReadInv'
  <2>1. pc' # "done" => items' = UNION {current'.pages[i] : i \in 1..page'}
    BY <1>3
  <2>2. ASSUME NEW n \in 1..Len(results'),
               results'[n].status = "success", plan'[n].kind # "public_ip"
        PROVE  results'[n].items = Listing(plan'[n])
    <3>1. CASE n = Len(results) + 1
      BY <3>1, <2>2, <1>2 DEF current
    <3>2. CASE n \in 1..Len(results)
      BY <3>2, <2>2, <1>2 DEF ReadInv
    <3> QED
      BY <3>1, <3>2, <1>1, <1>2
  <2>3. ASSUME NEW n \in 1..Len(results')
        PROVE  results'[n].items \subseteq Listing(plan'[n])
    <3>1. CASE n = Len(results) + 1
      BY <3>1, <1>2 DEF current
    <3>2. CASE n \in 1..Len(results)
      BY <3>2, <1>2 DEF ReadInv
    <3> QED
      BY <3>1, <3>2, <1>1, <1>2
  <2> QED
    BY <2>1, <2>2, <2>3 DEF ReadInv
<1>7. LateInv'
  BY <1>3 DEF LateInv, deadline_exceeded, TypeOK
<1>8. ClockInv'
  BY <1>3 DEF ClockInv, TypeOK
<1>9. RetryInv'
  BY <1>3 DEF RetryInv
<1> QED
  BY <1>5, <1>6, <1>7, <1>8, <1>9

-----------------------------------------------------------------------------
(* The calls: one lemma per action.                                         *)

\* Every plan starts within the invariant.
LEMMA InitKeeps == Init => IInv
<1> SUFFICES ASSUME Init
             PROVE  IInv
  OBVIOUS
<1>1. plan \in Seq(Operation) /\ Len(plan) \in Nat
  BY PlansAssumption DEF Init
<1>2. pc # "done" => 1 \in 1..Len(plan)
  BY <1>1 DEF Init
<1>3. pc # "done" => page < Len(current.pages)
  <2> SUFFICES ASSUME pc # "done"
               PROVE  page < Len(current.pages)
    OBVIOUS
  <2>1. plan[1] \in Operation
    BY <1>1, <1>2
  <2>2. Len(plan[1].pages) \in Nat /\ Len(plan[1].pages) >= 1
    BY <2>1, OperationAssumption
  <2> QED
    BY <2>2 DEF Init, current
<1>4. pc = "done" => Len(plan) = 0
  BY <1>1 DEF Init
<1>5. TypeOK
  BY <1>1, <1>2, <1>3, <1>4 DEF Init, TypeOK
<1>6. ReadInv
  BY DEF Init, ReadInv
<1>7. LateInv /\ ClockInv /\ RetryInv
  BY DEF Init, LateInv, ClockInv, RetryInv
<1> QED
  BY <1>5, <1>6, <1>7 DEF IInv

\* The check at the top of a loop.
LEMMA CutShortKeeps == IInv /\ CutShort => IInv'
<1> SUFFICES ASSUME IInv, CutShort
             PROVE  IInv'
  OBVIOUS
<1>1. pc # "done" /\ items \in SUBSET AnyItem /\ Return("failed", items)
  BY DEF CutShort, IInv, TypeOK
<1>4. items \subseteq Listing(current)
  BY <1>1, ReadIsListed
<1>2. clock' \in Nat /\ clock' >= clock
  BY DEF CutShort, IInv, TypeOK
<1>3. deadline # NoDeadline => clock' <= deadline + MaxDelay + MaxCall
  BY DEF CutShort, IInv, ClockInv
<1> QED
  BY <1>1, <1>2, <1>3, <1>4, ReturnKeeps DEF CutShort

\* A request in time.
LEMMA CallKeeps == IInv /\ Call => IInv'
<1> SUFFICES ASSUME IInv, Call
             PROVE  IInv'
  OBVIOUS
<1> USE DEF IInv, Call, Request
<1>1. late' = late /\ late = 0
  BY DEF TypeOK, LateInv, deadline_exceeded
<1>2. TypeOK'
  BY <1>1 DEF TypeOK, current
<1>3. ReadInv'
  BY DEF ReadInv, current
<1>4. LateInv'
  BY <1>1 DEF LateInv, current, deadline_exceeded
<1>5. ClockInv'
  BY DEF ClockInv, current, deadline_exceeded, TypeOK
<1> QED
  BY <1>2, <1>3, <1>4, <1>5 DEF RetryInv

\* A request whose answer arrives: how the clock stands afterwards.
LEMMA InflightClock ==
  ASSUME IInv, pc = "inflight", NEW d \in 0..MaxCall
  PROVE  /\ clock + d \in Nat /\ clock + d >= clock
         /\ deadline # NoDeadline => clock + d <= deadline + MaxDelay + MaxCall
         /\ deadline # NoDeadline /\ current.kind = "public_ip" =>
              clock + d <= deadline + MaxCall
BY DEF IInv, TypeOK, ClockInv

\* A page of a listing, the last one or one before it.
LEMMA AnswerKeeps == IInv /\ Answer => IInv'
<1> SUFFICES ASSUME IInv, Answer
             PROVE  IInv'
  OBVIOUS
<1>1. PICK d \in 0..MaxCall :
        /\ pc = "inflight"
        /\ clock' = clock + d
        /\ IF IsLastPage(page + 1)
           THEN Return("success", items \cup current.pages[page + 1])
           ELSE /\ items' = items \cup current.pages[page + 1]
                /\ page' = page + 1 /\ attempt' = 0 /\ pc' = "top"
                /\ UNCHANGED results
        /\ UNCHANGED <<plan, deadline, late>>
  BY DEF Answer
<1> DEFINE ps == current.pages
           read == items \cup ps[page + 1]
<1>2. /\ pc # "done" /\ page \in Nat /\ items \in SUBSET AnyItem
      /\ ps \in Seq(SUBSET AnyItem) /\ Len(ps) \in Nat /\ page < Len(ps)
  BY <1>1, CurrentType DEF IInv, TypeOK
<1>3. page + 1 \in 1..Len(ps) /\ ps[page + 1] \in SUBSET AnyItem
  BY <1>2
<1>4. read \in SUBSET AnyItem
  BY <1>2, <1>3
<1>5. read = UNION {ps[i] : i \in 1..(page + 1)}
  <2>1. items = UNION {ps[i] : i \in 1..page}
    BY <1>2 DEF IInv, ReadInv
  <2> QED
    BY <2>1, <1>2, OneMorePage
<1>6. /\ clock' \in Nat /\ clock' >= clock
      /\ deadline # NoDeadline => clock' <= deadline + MaxDelay + MaxCall
  BY <1>1, InflightClock
<1>7. CASE IsLastPage(page + 1)
  <2>1. read = Listing(current)
    BY <1>5, <1>7 DEF IsLastPage, Listing
  <2> QED
    BY <1>1, <1>2, <1>4, <1>6, <1>7, <2>1, ReturnKeeps
<1>8. CASE ~IsLastPage(page + 1)
  <2>1. /\ items' = read /\ page' = page + 1 /\ attempt' = 0 /\ pc' = "top"
        /\ results' = results /\ plan' = plan /\ deadline' = deadline /\ late' = late
        /\ current' = current
    BY <1>1, <1>8 DEF current
  <2>2. page + 1 < Len(ps)
    BY <1>2, <1>8 DEF IsLastPage
  <2>3. TypeOK'
    BY <1>1, <1>2, <1>4, <1>6, <2>1, <2>2 DEF IInv, TypeOK
  <2>4. ReadInv'
    BY <1>5, <2>1 DEF IInv, ReadInv
  <2>5. LateInv'
    BY <1>6, <2>1 DEF IInv, LateInv, deadline_exceeded, TypeOK
  <2>6. ClockInv'
    BY <1>6, <2>1 DEF ClockInv
  <2> QED
    BY <2>1, <2>3, <2>4, <2>5, <2>6 DEF IInv, RetryInv
<1> QED
  BY <1>7, <1>8

\* An address that is not there.
LEMMA NotFoundKeeps == IInv /\ NotFoundMeansNone => IInv'
<1> SUFFICES ASSUME IInv, NotFoundMeansNone
             PROVE  IInv'
  OBVIOUS
<1>1. PICK d \in 0..MaxCall :
        /\ pc = "inflight" /\ current.kind = "public_ip"
        /\ clock' = clock + d
        /\ Return("success", {})
        /\ UNCHANGED <<plan, deadline, late>>
  BY DEF NotFoundMeansNone
<1>2. /\ clock' \in Nat /\ clock' >= clock
      /\ deadline # NoDeadline => clock' <= deadline + MaxDelay + MaxCall
  BY <1>1, InflightClock
<1>3. {} \in SUBSET AnyItem /\ {} \subseteq Listing(current)
  OBVIOUS
<1> QED
  BY <1>1, <1>2, <1>3, ReturnKeeps

\* A failed request, retryable or not: the operation fails, or the thread sleeps
\* before another attempt.
LEMMA FailKeeps ==
  ASSUME IInv, NEW retryable \in BOOLEAN, NEW d \in 0..MaxCall, Fail(retryable, d)
  PROVE  IInv'
<1>1. /\ pc = "inflight" /\ clock' = clock + d
      /\ UNCHANGED <<plan, deadline, late>>
  BY DEF Fail
<1>2. /\ clock' \in Nat /\ clock' >= clock
      /\ deadline # NoDeadline => clock' <= deadline + MaxDelay + MaxCall
      /\ deadline # NoDeadline /\ current.kind = "public_ip" => clock' <= deadline + MaxCall
  BY <1>1, InflightClock
<1>3. CASE GivesUp(retryable, clock + d)
  <2>1. Return("failed", items)
    BY <1>3 DEF Fail
  <2>2. items \in SUBSET AnyItem /\ items \subseteq Listing(current)
    BY <1>1, ReadIsListed DEF IInv, TypeOK
  <2> QED
    BY <1>1, <1>2, <2>1, <2>2, ReturnKeeps
<1>4. CASE ~GivesUp(retryable, clock + d)
  <2>1. /\ pc' = "backoff"
        /\ results' = results /\ page' = page /\ items' = items /\ attempt' = attempt
        /\ plan' = plan /\ deadline' = deadline /\ late' = late /\ current' = current
    BY <1>1, <1>4 DEF Fail, current
  <2>2. /\ attempt < MaxAttempts - 1
        /\ current.kind # "public_ip" => ~deadline_exceeded(clock')
    BY <1>1, <1>2, <1>4 DEF GivesUp, IInv, TypeOK
  <2>3. TypeOK'
    BY <1>1, <1>2, <2>1 DEF IInv, TypeOK
  <2>4. ReadInv'
    BY <1>1, <2>1 DEF IInv, ReadInv
  <2>5. late = 0
    <3>1. CASE current.kind = "public_ip"
      BY <1>1, <3>1 DEF IInv, LateInv, TypeOK
    <3>2. CASE current.kind # "public_ip"
      <4>1. ~deadline_exceeded(clock)
        BY <1>2, <2>2, <3>2, <1>1 DEF deadline_exceeded, IInv, TypeOK
      <4> QED
        BY <4>1 DEF IInv, LateInv, TypeOK
    <3> QED
      BY <3>1, <3>2
  <2>6. LateInv'
    BY <2>1, <2>2, <2>5 DEF LateInv, deadline_exceeded
  <2>7. ClockInv'
    BY <1>2, <2>1, <2>2 DEF ClockInv, deadline_exceeded, IInv, TypeOK
  <2> QED
    BY <2>1, <2>2, <2>3, <2>4, <2>6, <2>7 DEF IInv, RetryInv
<1> QED
  BY <1>3, <1>4

\* The sleep ends.
LEMMA WakeKeeps == IInv /\ Wake => IInv'
<1> SUFFICES ASSUME IInv, Wake
             PROVE  IInv'
  OBVIOUS
<1>1. PICK d \in 0..MaxDelay :
        /\ pc = "backoff"
        /\ clock' = clock + d
        /\ attempt' = attempt + 1
        /\ IF current.kind = "public_ip"
           THEN pc' = "top" /\ UNCHANGED late
           ELSE Request(clock + d)
        /\ UNCHANGED <<plan, deadline, results, page, items>>
  BY DEF Wake, NextAttempt
<1>2. /\ attempt' \in 0..(MaxAttempts - 1)
      /\ clock' \in Nat /\ clock' >= clock
      /\ deadline # NoDeadline =>
           /\ deadline \in Nat
           /\ clock' <= deadline + MaxDelay + MaxCall
           /\ current.kind # "public_ip" => clock' <= deadline + MaxDelay
  BY <1>1 DEF IInv, TypeOK, RetryInv, ClockInv
<1>3. /\ late = 0 /\ late' \in Nat
      /\ \/ pc' = "top" /\ late' = 0
         \/ pc' = "inflight" /\ current.kind # "public_ip"
      /\ late' <= 1
      /\ late' > 0 => deadline # NoDeadline /\ clock' > deadline
  <2>1. late = 0
    BY <1>1 DEF IInv, LateInv, TypeOK
  <2> QED
    BY <1>1, <2>1 DEF Request
<1>4. /\ plan' = plan /\ deadline' = deadline /\ results' = results /\ page' = page
      /\ items' = items /\ current' = current
  BY <1>1 DEF current
<1>5. TypeOK'
  BY <1>1, <1>2, <1>3, <1>4 DEF IInv, TypeOK
<1>6. ReadInv'
  BY <1>1, <1>4 DEF IInv, ReadInv
<1>7. LateInv'
  BY <1>3, <1>4 DEF LateInv, deadline_exceeded
<1>8. ClockInv'
  BY <1>2, <1>3, <1>4 DEF ClockInv
<1>9. RetryInv'
  BY <1>3 DEF RetryInv
<1> QED
  BY <1>5, <1>6, <1>7, <1>8, <1>9 DEF IInv

\* No step leaves the invariant.
LEMMA StepKeeps == IInv /\ [Next]_vars => IInv'
<1> SUFFICES ASSUME IInv, [Next]_vars
             PROVE  IInv'
  OBVIOUS
<1>1. CASE CutShort
  BY <1>1, CutShortKeeps
<1>2. CASE Call
  BY <1>2, CallKeeps
<1>3. CASE Answer
  BY <1>3, AnswerKeeps
<1>4. CASE NotFoundMeansNone
  BY <1>4, NotFoundKeeps
<1>5. CASE Refuse
  <2>1. PICK d \in 0..MaxCall, e \in ServiceError : Fail(is_retryable_service_error(e), d)
    BY <1>5 DEF Refuse
  <2>2. is_retryable_service_error(e) \in BOOLEAN
    BY DEF is_retryable_service_error
  <2> QED
    BY <2>1, <2>2, FailKeeps
<1>6. CASE TransportError
  BY <1>6, FailKeeps DEF TransportError
<1>7. CASE Wake
  BY <1>7, WakeKeeps
<1>8. CASE UNCHANGED vars
  <2>1. current' = current
    BY <1>8 DEF vars, current
  <2> QED
    BY <1>8, <2>1 DEF vars, IInv, TypeOK, ReadInv, LateInv, ClockInv, RetryInv,
                      deadline_exceeded
<1> QED
  BY <1>1, <1>2, <1>3, <1>4, <1>5, <1>6, <1>7, <1>8 DEF Next, Step, Terminated

-----------------------------------------------------------------------------
(* The calls: the theorems.                                                 *)

\* The invariant holds in every reachable state of every thread.
THEOREM Invariance == Spec => []IInv
<1> QED
  BY InitKeeps, StepKeeps, PTL DEF Spec

\* Every variable keeps its type: no operation is attempted more than max_attempts
\* times per page, and none reads past its listing.
THEOREM TypeCorrect == Spec => []TypeOK
<1>1. IInv => TypeOK
  BY DEF IInv
<1> QED
  BY <1>1, Invariance, PTL

\* paginate and call_once never report success for a listing they read in part.
THEOREM ReadsWhole == Spec => []CompleteMeansWhole
<1>1. ASSUME IInv
      PROVE  CompleteMeansWhole
  <2>1. SUFFICES ASSUME pc = "done", operations_complete(results),
                        NEW n \in 1..Len(plan), plan[n].kind # "public_ip"
                 PROVE  results[n].items = Listing(plan[n])
    BY DEF CompleteMeansWhole
  <2>2. n \in 1..Len(results) /\ results[n] \in Result
    BY <1>1, <2>1, PlansAssumption DEF IInv, TypeOK
  <2>3. results[n].status = "success"
    BY <2>1, <2>2 DEF operations_complete, Result
  <2> QED
    BY <1>1, <2>1, <2>2, <2>3 DEF IInv, ReadInv
<1> QED
  BY <1>1, Invariance, PTL

\* However many operations a thread has left, and however often they are retried,
\* it sends at most one request after the --test deadline has passed.
THEOREM OneLateRequest == Spec => []AtMostOneLateRequest
<1>1. IInv => AtMostOneLateRequest
  BY DEF IInv, LateInv, AtMostOneLateRequest
<1> QED
  BY <1>1, Invariance, PTL

\* A thread does nothing that takes time later than one sleep and one request
\* after its deadline.
THEOREM WindsDown == Spec => []WindsDownInTime
<1>1. IInv => WindsDownInTime
  BY DEF IInv, ClockInv, WindsDownInTime
<1> QED
  BY <1>1, Invariance, PTL

\* Where a request is between its check and its repetition.
Rank(p) == CASE p = "top" -> 0 [] p = "inflight" -> 1 [] p = "backoff" -> 2 [] p = "done" -> 3

\* An operation more is finished, or else a page more of it is read, or else an attempt
\* more of that page is begun, or else the attempt is further.
Advances ==
  \/ Len(results') = Len(results) + 1
  \/ /\ results' = results
     /\ \/ page' = page + 1
        \/ page' = page /\ attempt' = attempt + 1
        \/ page' = page /\ attempt' = attempt /\ Rank(pc') > Rank(pc)

\* Each step of a collector thread advances it; and there are no more operations than
\* planned, pages than the service has and attempts than max_attempts: with an unlimited
\* time budget, and however often the service fails, the thread's loops run out.
THEOREM ThreadRunsOut ==
  Spec => /\ [](/\ Len(results) <= Len(plan)
                /\ pc # "done" => page < Len(current.pages)
                /\ attempt < MaxAttempts)
          /\ [][Advances]_vars
<1>1. ASSUME IInv
      PROVE  /\ Len(results) <= Len(plan)
             /\ pc # "done" => page < Len(current.pages)
             /\ attempt < MaxAttempts
  <2>1. Len(plan) \in Nat /\ Len(results) \in Nat
    BY <1>1, PlansAssumption DEF IInv, TypeOK
  <2> QED
    BY <1>1, <2>1, AttemptsAssumption DEF IInv, TypeOK
<1>2. ASSUME IInv, [Next]_vars
      PROVE  [Advances]_vars
  <2>1. results \in Seq(Result) /\ attempt \in Nat /\ page \in Nat
    BY <1>2, AttemptsAssumption DEF IInv, TypeOK
  <2>2. ASSUME NEW status, NEW collected, Return(status, collected)
        PROVE  Advances
    BY <2>1, <2>2 DEF Return, Advances
  <2>3. CASE CutShort \/ NotFoundMeansNone
    BY <2>2, <2>3 DEF CutShort, NotFoundMeansNone
  <2>4. CASE Call
    BY <2>4 DEF Call, Request, Advances, Rank
  <2>5. CASE Answer
    BY <2>2, <2>5 DEF Answer, Advances
  <2>6. ASSUME NEW retryable, NEW d \in 0..MaxCall, Fail(retryable, d)
        PROVE  Advances
    <3>1. \/ Return("failed", items)
          \/ /\ pc = "inflight" /\ pc' = "backoff"
             /\ results' = results /\ page' = page /\ attempt' = attempt
      BY <2>6 DEF Fail
    <3>2. Rank("backoff") > Rank("inflight")
      BY DEF Rank
    <3> QED
      BY <2>2, <3>1, <3>2 DEF Advances
  <2>7. CASE Refuse \/ TransportError
    BY <2>6, <2>7 DEF Refuse, TransportError
  <2>8. CASE Wake
    BY <2>8 DEF Wake, NextAttempt, Advances
  <2> QED
    BY <1>2, <2>3, <2>4, <2>5, <2>7, <2>8 DEF Next, Step, Terminated
<1> QED
  BY <1>1, <1>2, Invariance, PTL DEF Spec

\* An operation that has returned: whole, or failed with what it had read.
Returned(n) ==
  \/ results[n].status = "success" /\ results[n].items = Listing(plan[n])
  \/ results[n].status = "failed" /\ results[n].items \subseteq Listing(plan[n])

\* paginate and call_once are the single-step calls of the collectors' modules (Lists of
\* LeafCollectors): however many pages, retries and deadlines a call goes through, it
\* returns the whole listing and succeeds, or a part of it and fails.
THEOREM CallsAreListings ==
  Spec => [](\A n \in 1..Len(results) : plan[n].kind # "public_ip" => Returned(n))
<1>1. ASSUME IInv, NEW n \in 1..Len(results), plan[n].kind # "public_ip"
      PROVE  Returned(n)
  <2>1. results[n] \in Result
    BY <1>1 DEF IInv, TypeOK
  <2>2. CASE results[n].status = "success"
    BY <1>1, <2>2 DEF IInv, ReadInv, Returned
  <2>3. CASE results[n].status = "failed"
    BY <1>1, <2>3 DEF IInv, ReadInv, Returned
  <2> QED
    BY <2>1, <2>2, <2>3 DEF Result
<1>2. IInv => \A n \in 1..Len(results) : plan[n].kind # "public_ip" => Returned(n)
  BY <1>1
<1> QED
  BY <1>2, Invariance, PTL

-----------------------------------------------------------------------------
USE KindAssumption, ChildAssumption, BoundAssumption

-----------------------------------------------------------------------------
(* The leaf collectors: the inductive invariant.                            *)

AnswerStates == {"none", "up", "down", "gone", "unknown"}

LeafTypeInv ==
  /\ kind \in Kind
  /\ life \in [Item -> {"live", "terminal", "purged"}] /\ home \in [Item -> Compartment]
  /\ state \in [Child -> States(kind)] /\ place \in [Child -> Compartment]
  /\ entries \in SUBSET (Compartment \X Item \X {"live", "terminal"})
  /\ jobs \in SUBSET (Tag \X Item) /\ gets \in SUBSET (Tag \X Child)
  /\ answers \in SUBSET (Tag \X Child \X (States(kind) \cup {"unknown"}))
  /\ complete \in BOOLEAN
  /\ been \in [Child -> SUBSET States(kind)]
  /\ steady \in SUBSET (Item \cup Child)
  /\ faults \in 0..MaxFaults /\ changes \in 0..MaxChanges[kind]

\* Which phases each collector goes through, and what work may be left in each.
PhaseInv ==
  /\ at \in Compartment
  /\ phase \in {"list", "done"} \cup
               (IF kind \in {"vpn", "networking", "kms_vault", "object_storage"} THEN {"children"} ELSE {})
               \cup (IF kind \in {"load_balancer", "kms_vault", "object_storage"} THEN {"get"} ELSE {})
               \cup (IF kind = "storage" THEN {"attachments"} ELSE {})
  /\ phase \notin {"children"} /\ ~(phase = "list" /\ kind = "kms_vault") => jobs = {}
  /\ phase = "done" => gets = {}
  /\ phase = "list" /\ kind # "load_balancer" => gets = {}
  /\ kind \in {"networking", "storage"} => gets = {}
  /\ kind \in {"load_balancer", "kms_vault", "object_storage"} /\ phase \in {"list", "children"} => answers = {}
  /\ kind = "object_storage" => at = 1
  /\ kind \in {"load_balancer", "kms_vault"} /\ phase # "list" => at = Compartments
  /\ kind # "object_storage" /\ phase = "done" => at = Compartments
  /\ kind = "object_storage" /\ phase = "list" => entries = {}

\* Whether the items of compartment a have been listed.
ListedIn(a) ==
  IF kind = "object_storage" THEN phase # "list" ELSE a < at \/ (a = at /\ phase # "list")

\* Whether a child listed or asked for with tag t, of item i, stems from an entry.
FromEntry(t, i) ==
  /\ \E l \in {"live", "terminal"} : <<t[1], i, l>> \in entries
  /\ ~Placed(kind) => t[2] = t[1]

\* What is to be done, and what was answered, comes from an entry, and nothing is done
\* twice.
WorkInv ==
  /\ \A e \in entries : kind # "object_storage" => ListedIn(e[1])
  /\ \A j \in jobs : FromEntry(j[1], j[2])
  /\ kind \in {"vpn", "networking"} => \A j \in jobs : j[1] = <<at, at>>
  /\ \A g \in gets : FromEntry(g[1], ParentOf[g[2]])
  /\ kind # "storage" => \A t \in answers : FromEntry(t[1], ParentOf[t[2]])
  /\ kind = "storage" => \A t \in answers : t[1][2] = t[1][1] /\ (t[1][1] < at \/ phase = "done")
  /\ \A t, u \in answers : t[1] = u[1] /\ t[2] = u[2] => t = u
  /\ \A t \in answers : <<t[1], ParentOf[t[2]]>> \notin jobs
  /\ kind = "vpn" => \A g \in gets : <<g[1], g[2], "unknown">> \in answers
  /\ kind # "vpn" => \A t \in answers : <<t[1], t[2]>> \notin gets

\* What is recorded of the past holds of the present.
PastOK ==
  /\ \A c \in Child : state[c] \in been[c]
  /\ \A i \in Item \cap steady : life[i] = "live"
  /\ kind = "object_storage" => \A i \in Item : life[i] = "live" /\ i \in steady
  /\ kind \notin {"kms_vault", "object_storage"} => Child \subseteq steady

\* An answer was true, or is still to be completed.
AnswerInv ==
  \A t \in answers :
    \/ t[3] \in been[t[2]]
    \/ t[3] = "unknown" /\ kind = "vpn" /\ (<<t[1], t[2]>> \in gets \/ ~complete)

\* A steady item is listed in its compartment and nowhere else.
ItemInv ==
  /\ kind # "object_storage" =>
       \A i \in Item \cap steady :
         /\ \A e \in entries : e[2] = i => e = <<home[i], i, "live">>
         /\ complete /\ ListedIn(home[i]) => <<home[i], i, "live">> \in entries
  /\ kind = "object_storage" =>
       /\ \A e \in entries : e[1] = 1 /\ e[3] = "live"
       /\ complete /\ phase # "list" => \A i \in Item : <<1, i, "live">> \in entries

\* Where a child of an item listed in compartment a is to be found.
TagOf(a, c) == <<a, IF Placed(kind) THEN place[c] ELSE a>>

Pending(t, c) ==
  \/ <<t, ParentOf[c]>> \in jobs
  \/ <<t, c>> \in gets
  \/ \E s \in AnswerStates : <<t, c, s>> \in answers

\* A child that was there all the time has been found, or is still to be.
ChildInv ==
  complete =>
    \A c \in Child \cap steady : "none" \notin been[c] /\ AskedFor(c) =>
      IF kind = "storage"
      THEN place[c] < at \/ phase = "done" =>
             \E s \in AnswerStates : <<<<place[c], place[c]>>, c, s>> \in answers
      ELSE \A e \in entries : e[2] = ParentOf[c] => Pending(TagOf(e[1], c), c)

LeafInv == LeafTypeInv /\ PhaseInv /\ WorkInv /\ PastOK /\ AnswerInv /\ ItemInv /\ ChildInv

-----------------------------------------------------------------------------
(* The leaf collectors: facts about the data.                               *)

\* What a collector may call the state of a child.
LEMMA StatesAre ==
  /\ \A k \in Kinds : States(k) \subseteq {"none", "up", "down", "gone"} /\ "none" \in States(k)
  /\ \A k \in Kinds : Placed(k) <=> k \in {"kms_vault", "object_storage", "storage"}
BY DEF States, Kinds, Placed

\* What a call does to the outcome of the domain: it is never complete again.
LEMMA OutcomeKeeps ==
  ASSUME LeafInv, Succeeds \/ Fault \/ NotFound
  PROVE  complete' \in BOOLEAN /\ faults' \in 0..MaxFaults /\ (complete' => complete)
<1>1. CASE Succeeds
  BY <1>1 DEF LeafInv, LeafTypeInv, Succeeds
<1>2. CASE Fault
  <2>1. faults \in 0..MaxFaults /\ faults < MaxFaults /\ faults' = faults + 1
    BY <1>2 DEF LeafInv, LeafTypeInv, Fault
  <2>2. faults' \in 0..MaxFaults
    BY <2>1
  <2>3. complete' = FALSE
    BY <1>2 DEF Fault
  <2> QED
    BY <2>2, <2>3
<1>3. CASE NotFound
  <2>1. complete' = FALSE /\ faults' \in 0..MaxFaults
    BY <1>3 DEF LeafInv, LeafTypeInv, NotFound
  <2> QED
    BY <2>1
<1> QED
  BY <1>1, <1>2, <1>3

\* A listing that leaves the domain complete is whole.
LEMMA ListsKeep ==
  ASSUME LeafInv, NEW STATE there, NEW S, Lists(there, S)
  PROVE  /\ S \subseteq there
         /\ complete' \in BOOLEAN /\ faults' \in 0..MaxFaults /\ (complete' => complete)
         /\ complete' => S = there
<1>1. Succeeds \/ Fault
  BY DEF Lists
<1>2. S \subseteq there
  BY DEF Lists
<1>3. complete' => S = there
  BY DEF Lists, Fault
<1> QED
  BY <1>1, <1>2, <1>3, OutcomeKeeps

\* So is one of the children of an item.
LEMMA ListsOfKeep ==
  ASSUME LeafInv, NEW i \in Item, NEW tag, NEW S, ListsOf(i, tag, S)
  PROVE  /\ S \subseteq There(i, tag)
         /\ complete' \in BOOLEAN /\ faults' \in 0..MaxFaults /\ (complete' => complete)
         /\ complete' => S = There(i, tag)
<1>1. CASE Lists(There(i, tag), S)
  BY <1>1, ListsKeep
<1>2. CASE S = {} /\ NotFound
  <2>1. ~complete'
    BY <1>2 DEF NotFound
  <2> QED
    BY <1>2, <2>1, OutcomeKeeps
<1> QED
  BY <1>1, <1>2 DEF ListsOf

\* On from one compartment to the next.
LEMMA NextCompartment ==
  ASSUME LeafInv, NEW then, Next_compartment(then)
  PROVE  \/ at < Compartments /\ at' = at + 1 /\ phase' = "list" /\ at' \in Compartment
         \/ at = Compartments /\ at' = at /\ phase' = then /\ at' \in Compartment
BY DEF LeafInv, PhaseInv, Compartment, Next_compartment

\* The past stands while the collector works.
LEMMA PastStays == PastOK /\ UNCHANGED <<tenancy, kind>> => PastOK'
BY DEF PastOK, tenancy

\* Every run starts within the invariant.
LEMMA LeafInitKeeps == LeafInit => LeafInv
<1> SUFFICES ASSUME LeafInit
             PROVE  LeafInv
  OBVIOUS
<1> USE DEF LeafInit
<1>1. kind \in Kinds /\ at \in Compartment
  BY DEF Compartment
<1>2. LeafTypeInv
  <2>1. place \in [Child -> Compartment]
    BY <1>1 DEF Compartment
  <2>2. changes \in 0..MaxChanges[kind] /\ faults \in 0..MaxFaults
    BY <1>1
  <2>3. been \in [Child -> SUBSET States(kind)]
    BY <1>1
  <2>4. life \in [Item -> {"live", "terminal", "purged"}]
    OBVIOUS
  <2> QED
    BY <1>1, <2>1, <2>2, <2>3, <2>4 DEF LeafTypeInv
<1>3. PhaseInv
  BY <1>1 DEF PhaseInv
<1>4. WorkInv
  BY DEF WorkInv
<1>5. PastOK
  <2>1. kind = "object_storage" => \A i \in Item : life[i] = "live" /\ i \in steady
    OBVIOUS
  <2> QED
    BY <2>1 DEF PastOK
<1>6. AnswerInv
  BY DEF AnswerInv
<1>7. ItemInv
  BY <1>1 DEF ItemInv, ListedIn, Compartment
<1>8. ChildInv
  BY <1>1 DEF ChildInv, AskedFor, Compartment
<1> QED
  BY <1>2, <1>3, <1>4, <1>5, <1>6, <1>7, <1>8 DEF LeafInv

-----------------------------------------------------------------------------
(* The leaf collectors: listing the items.                                  *)

\* What a listing of items adds to the entries.
LEMMA EntriesKeep ==
  ASSUME LeafInv, kind # "object_storage", phase = "list", NEW S, Lists(ItemsIn(at), S), List(S),
         UNCHANGED <<tenancy, kind>>, phase' # "list" \/ at' = at + 1,
         at' \in Compartment, at' = at \/ (at' = at + 1 /\ phase' = "list")
  PROVE  /\ entries' \in SUBSET (Compartment \X Item \X {"live", "terminal"})
         /\ S \subseteq Item
         /\ entries \subseteq entries'
         /\ \A i \in S : \E l \in {"live", "terminal"} : <<at, i, l>> \in entries'
         /\ \A e \in entries' : e \in entries \/ (e[1] = at /\ e[2] \in S)
         /\ \A e \in entries' : ListedIn(e[1])'
         /\ ItemInv'
<1>1. /\ S \subseteq ItemsIn(at) /\ (complete' => complete /\ S = ItemsIn(at))
  BY ListsKeep
<1>2. /\ entries \in SUBSET (Compartment \X Item \X {"live", "terminal"})
      /\ life \in [Item -> {"live", "terminal", "purged"}] /\ home \in [Item -> Compartment]
      /\ at \in Compartment /\ Compartment \subseteq Nat
  BY DEF LeafInv, LeafTypeInv, PhaseInv, Compartment
<1>3. /\ S \subseteq Item
      /\ \A i \in S : home[i] = at /\ life[i] \in {"live", "terminal"}
  BY <1>1, <1>2 DEF ItemsIn
<1>4. entries' = entries \cup {<<at, i, life[i]>> : i \in S}
  BY DEF List
<1>5. \A a \in Compartment : ListedIn(a)' <=> a <= at
  BY <1>2 DEF ListedIn
<1>6. \A a \in Compartment : ListedIn(a) => a < at
  BY <1>2 DEF ListedIn
<1>7. entries' \in SUBSET (Compartment \X Item \X {"live", "terminal"})
  <2>1. \A i \in S : <<at, i, life[i]>> \in Compartment \X Item \X {"live", "terminal"}
    BY <1>2, <1>3
  <2> QED
    BY <1>2, <1>4, <2>1
<1>8. \A e \in entries' : e \in entries \/ (e[1] = at /\ e[2] \in S)
  BY <1>4
<1>9. \A e \in entries' : ListedIn(e[1])'
  <2> SUFFICES ASSUME NEW e \in entries'
               PROVE  ListedIn(e[1])'
    OBVIOUS
  <2>1. e[1] \in Compartment
    BY <1>7
  <2>2. e \in entries => e[1] < at
    BY <1>6, <2>1 DEF LeafInv, WorkInv
  <2>4. e[1] \in Nat /\ at \in Nat
    BY <1>2, <2>1
  <2>3. e[1] <= at
    BY <1>8, <2>4, <2>2
  <2> QED
    BY <1>5, <2>1, <2>3
<1>10. \A i \in S : \E l \in {"live", "terminal"} : <<at, i, l>> \in entries'
  BY <1>3, <1>4
<1>11. ItemInv'
  <2> SUFFICES ASSUME NEW i \in Item \cap steady
               PROVE  /\ \A e \in entries' : e[2] = i => e = <<home[i], i, "live">>
                      /\ complete' /\ ListedIn(home[i])' => <<home[i], i, "live">> \in entries'
    BY DEF ItemInv, tenancy, ListedIn
  <2>1. life[i] = "live"
    BY DEF LeafInv, PastOK
  <2>5. /\ \A e \in entries : e[2] = i => e = <<home[i], i, "live">>
        /\ complete /\ ListedIn(home[i]) => <<home[i], i, "live">> \in entries
    BY DEF LeafInv, ItemInv
  <2>2. ASSUME NEW e \in entries', e[2] = i
        PROVE  e = <<home[i], i, "live">>
    <3>1. CASE e \in entries
      BY <2>2, <3>1, <2>5
    <3>2. CASE e \in {<<at, j, life[j]>> : j \in S}
      <4>1. PICK j \in S : e = <<at, j, life[j]>>
        BY <3>2
      <4>2. j = i
        BY <4>1, <2>2
      <4> QED
        BY <2>1, <4>1, <4>2, <1>3
    <3> QED
      BY <3>1, <3>2, <1>4
  <2>3. ASSUME complete', ListedIn(home[i])'
        PROVE  <<home[i], i, "live">> \in entries'
    <3>1. home[i] \in Compartment /\ home[i] \in Nat /\ at \in Nat
      BY <1>2
    <3>4. home[i] <= at
      BY <1>5, <2>3, <3>1 DEF tenancy
    <3>2. CASE home[i] = at
      <4>1. i \in S
        BY <3>2, <2>1, <2>3, <1>1 DEF ItemsIn
      <4> QED
        BY <3>2, <4>1, <2>1, <1>4
    <3>3. CASE home[i] < at
      <4>1. ListedIn(home[i])
        BY <3>3 DEF ListedIn
      <4> QED
        BY <4>1, <2>3, <2>5, <1>1, <1>4
    <3> QED
      BY <3>1, <3>2, <3>3, <3>4
  <2> QED
    BY <2>2, <2>3
<1> QED
  BY <1>3, <1>4, <1>7, <1>8, <1>9, <1>10, <1>11

\* A child found before is found, or still looked for, whatever is added.
LEMMA PendingStays ==
  ASSUME UNCHANGED <<tenancy, kind>>, jobs \subseteq jobs', gets \subseteq gets', answers \subseteq answers'
  PROVE  \A a, c : Pending(TagOf(a, c), c) => Pending(TagOf(a, c), c)'
<1> SUFFICES ASSUME NEW a, NEW c, Pending(TagOf(a, c), c)
             PROVE  Pending(TagOf(a, c), c)'
  OBVIOUS
<1>1. TagOf(a, c)' = TagOf(a, c)
  BY DEF TagOf, tenancy, Placed
<1> QED
  BY <1>1 DEF Pending

\* Connections or groups: their children are listed next.
LEMMA ListEachKeeps ==
  ASSUME LeafInv, kind \in {"vpn", "networking"}, ListEach
  PROVE  LeafInv'
<1>1. PICK S \in SUBSET ItemsIn(at) :
        Lists(ItemsIn(at), S) /\ List(S) /\ jobs' = {<<<<at, at>>, i>> : i \in S}
  BY DEF ListEach
<1>2. /\ phase = "list" /\ phase' = "children"
      /\ UNCHANGED <<tenancy, kind, at, gets, answers>>
  BY DEF ListEach
<1>3. jobs = {} /\ gets = {} /\ at \in Compartment /\ Compartment \subseteq Nat
  BY <1>2 DEF LeafInv, PhaseInv, Compartment
<1>4. /\ entries' \in SUBSET (Compartment \X Item \X {"live", "terminal"})
      /\ S \subseteq Item /\ entries \subseteq entries'
      /\ \A i \in S : \E l \in {"live", "terminal"} : <<at, i, l>> \in entries'
      /\ \A e \in entries' : e \in entries \/ (e[1] = at /\ e[2] \in S)
      /\ \A e \in entries' : ListedIn(e[1])'
      /\ ItemInv'
  BY <1>1, <1>2, <1>3, EntriesKeep
<1>5. complete' \in BOOLEAN /\ faults' \in 0..MaxFaults /\ (complete' => complete)
  BY <1>1, ListsKeep
<1>6. jobs' \in SUBSET (Tag \X Item)
  BY <1>1, <1>3, <1>4 DEF Tag
<1>7. LeafTypeInv'
  BY <1>2, <1>4, <1>5, <1>6 DEF LeafInv, LeafTypeInv, tenancy
<1>8. PhaseInv'
  BY <1>2, <1>3 DEF LeafInv, PhaseInv
<1>9. WorkInv'
  <2>1. \A j \in jobs' : FromEntry(j[1], j[2])' /\ j[1] = <<at, at>>
    BY <1>1, <1>2, <1>4 DEF FromEntry
  <2>2. \A t \in answers : FromEntry(t[1], ParentOf[t[2]])'
    BY <1>2, <1>4 DEF LeafInv, WorkInv, FromEntry
  <2>3. ASSUME NEW t \in answers
        PROVE  <<t[1], ParentOf[t[2]]>> \notin jobs'
    <3>1. PICK l \in {"live", "terminal"} : <<t[1][1], ParentOf[t[2]], l>> \in entries
      BY DEF LeafInv, WorkInv, FromEntry
    <3>2. ListedIn(t[1][1]) /\ t[1][1] \in Compartment
      BY <3>1 DEF LeafInv, WorkInv, LeafTypeInv
    <3>3. t[1][1] # at
      BY <3>2, <1>2, <1>3 DEF ListedIn
    <3> QED
      BY <3>3, <1>1
  <2> QED
    BY <1>2, <1>3, <1>4, <2>1, <2>2, <2>3 DEF LeafInv, WorkInv
<1>10. PastOK' /\ AnswerInv'
  BY <1>2, <1>3, <1>5, PastStays DEF LeafInv, AnswerInv, tenancy
<1>11. ChildInv'
  <2> SUFFICES ASSUME complete', NEW c \in Child \cap steady, "none" \notin been[c], AskedFor(c),
                      NEW e \in entries', e[2] = ParentOf[c]
               PROVE  Pending(TagOf(e[1], c), c)'
    BY <1>2 DEF ChildInv, AskedFor, TagOf, tenancy, Placed
  <2>1. CASE e \in entries
    <3>1. Pending(TagOf(e[1], c), c)
      BY <1>5, <2>1 DEF LeafInv, ChildInv
    <3> QED
      BY <3>1, <1>2, <1>3, PendingStays
  <2>2. CASE e[1] = at /\ e[2] \in S
    <3>1. TagOf(e[1], c)' = <<at, at>>
      BY <1>2, <2>2 DEF TagOf, Placed
    <3>2. <<<<at, at>>, ParentOf[c]>> \in jobs'
      BY <1>1, <2>2
    <3> QED
      BY <3>1, <3>2 DEF Pending
  <2> QED
    BY <1>4, <2>1, <2>2
<1> QED
  BY <1>4, <1>7, <1>8, <1>9, <1>10, <1>11 DEF LeafInv

\* Load balancers: the health of their backend sets is asked for when all are listed.
LEMMA LoadBalancersKeep == LeafInv /\ list_load_balancers => LeafInv'
<1> SUFFICES ASSUME LeafInv, list_load_balancers
             PROVE  LeafInv'
  OBVIOUS
<1>1. /\ kind = "load_balancer" /\ phase = "list" /\ Next_compartment("get")
      /\ UNCHANGED <<tenancy, kind, jobs, answers>>
  BY DEF list_load_balancers
<1>2. PICK S \in SUBSET ItemsIn(at) :
        /\ Lists(ItemsIn(at), S) /\ List(S)
        /\ gets' = gets \cup {<<<<at, at>>, c>> : c \in {d \in Child : ParentOf[d] \in S /\ state[d] # "none"}}
  BY DEF list_load_balancers
<1>3. \/ at < Compartments /\ at' = at + 1 /\ phase' = "list" /\ at' \in Compartment
      \/ at = Compartments /\ at' = at /\ phase' = "get" /\ at' \in Compartment
  BY <1>1, NextCompartment
<1>4. jobs = {} /\ answers = {} /\ at \in Compartment
  BY <1>1 DEF LeafInv, PhaseInv
<1>5. /\ entries' \in SUBSET (Compartment \X Item \X {"live", "terminal"})
      /\ S \subseteq Item /\ entries \subseteq entries'
      /\ \A i \in S : \E l \in {"live", "terminal"} : <<at, i, l>> \in entries'
      /\ \A e \in entries' : e \in entries \/ (e[1] = at /\ e[2] \in S)
      /\ \A e \in entries' : ListedIn(e[1])'
      /\ ItemInv'
  BY <1>1, <1>2, <1>3, EntriesKeep
<1>6. /\ complete' \in BOOLEAN /\ faults' \in 0..MaxFaults /\ (complete' => complete)
      /\ complete' => S = ItemsIn(at)
  BY <1>2, ListsKeep
<1>7. gets' \in SUBSET (Tag \X Child)
  BY <1>2, <1>4 DEF LeafInv, LeafTypeInv, Tag
<1>8. LeafTypeInv'
  BY <1>1, <1>5, <1>6, <1>7 DEF LeafInv, LeafTypeInv, tenancy
<1>9. PhaseInv'
  BY <1>1, <1>3, <1>4 DEF LeafInv, PhaseInv
<1>10. WorkInv'
  <2>1. ASSUME NEW g \in gets'
        PROVE  FromEntry(g[1], ParentOf[g[2]])'
    <3>1. CASE g \in gets
      BY <3>1, <1>1, <1>5 DEF LeafInv, WorkInv, FromEntry
    <3>2. CASE g \notin gets
      <4>1. PICK c \in Child : ParentOf[c] \in S /\ g = <<<<at, at>>, c>>
        BY <3>2, <1>2
      <4> QED
        BY <4>1, <1>5 DEF FromEntry
    <3> QED
      BY <3>1, <3>2
  <2> QED
    BY <2>1, <1>1, <1>4, <1>5 DEF LeafInv, WorkInv
<1>11. PastOK' /\ AnswerInv'
  BY <1>1, <1>4, PastStays DEF LeafInv, AnswerInv
<1>12. ChildInv'
  <2> SUFFICES ASSUME complete', NEW c \in Child \cap steady, "none" \notin been[c], AskedFor(c),
                      NEW e \in entries', e[2] = ParentOf[c]
               PROVE  Pending(TagOf(e[1], c), c)'
    BY <1>1 DEF ChildInv, AskedFor, TagOf, tenancy, Placed
  <2>1. CASE e \in entries
    <3>1. Pending(TagOf(e[1], c), c)
      BY <1>1, <1>6, <2>1 DEF LeafInv, ChildInv
    <3> QED
      BY <3>1, <1>1, <1>2, PendingStays
  <2>2. CASE e[1] = at /\ e[2] \in S
    <3>1. TagOf(e[1], c)' = <<at, at>>
      BY <1>1, <2>2 DEF TagOf, Placed
    <3>2. state[c] # "none"
      BY DEF LeafInv, PastOK
    <3>3. <<<<at, at>>, c>> \in gets'
      BY <1>2, <2>2, <3>2
    <3> QED
      BY <3>1, <3>3 DEF Pending
  <2> QED
    BY <1>5, <2>1, <2>2
<1> QED
  BY <1>5, <1>8, <1>9, <1>10, <1>11, <1>12 DEF LeafInv

\* Vaults: their keys are listed in every compartment when all are listed.
LEMMA VaultsKeep == LeafInv /\ list_vaults => LeafInv'
<1> SUFFICES ASSUME LeafInv, list_vaults
             PROVE  LeafInv'
  OBVIOUS
<1>1. /\ kind = "kms_vault" /\ phase = "list" /\ Next_compartment("children")
      /\ UNCHANGED <<tenancy, kind, gets, answers>>
  BY DEF list_vaults
<1>2. PICK S \in SUBSET ItemsIn(at) :
        Lists(ItemsIn(at), S) /\ List(S) /\ jobs' = jobs \cup EveryCompartment(S \cap WithEndpoint)
  BY DEF list_vaults
<1>3. \/ at < Compartments /\ at' = at + 1 /\ phase' = "list" /\ at' \in Compartment
      \/ at = Compartments /\ at' = at /\ phase' = "children" /\ at' \in Compartment
  BY <1>1, NextCompartment
<1>4. gets = {} /\ answers = {} /\ at \in Compartment
  BY <1>1 DEF LeafInv, PhaseInv
<1>5. /\ entries' \in SUBSET (Compartment \X Item \X {"live", "terminal"})
      /\ S \subseteq Item /\ entries \subseteq entries'
      /\ \A i \in S : \E l \in {"live", "terminal"} : <<at, i, l>> \in entries'
      /\ \A e \in entries' : e \in entries \/ (e[1] = at /\ e[2] \in S)
      /\ \A e \in entries' : ListedIn(e[1])'
      /\ ItemInv'
  BY <1>1, <1>2, <1>3, EntriesKeep
<1>6. complete' \in BOOLEAN /\ faults' \in 0..MaxFaults /\ (complete' => complete)
  BY <1>2, ListsKeep
<1>7. jobs' \in SUBSET (Tag \X Item)
  BY <1>2, <1>4, <1>5 DEF LeafInv, LeafTypeInv, Tag, EveryCompartment
<1>8. LeafTypeInv'
  BY <1>1, <1>5, <1>6, <1>7 DEF LeafInv, LeafTypeInv, tenancy
<1>9. PhaseInv'
  BY <1>1, <1>3, <1>4 DEF LeafInv, PhaseInv
<1>10. WorkInv'
  <2>1. ASSUME NEW j \in jobs'
        PROVE  FromEntry(j[1], j[2])'
    <3>1. CASE j \in jobs
      BY <3>1, <1>1, <1>5 DEF LeafInv, WorkInv, FromEntry
    <3>2. CASE j \notin jobs
      <4>1. PICK b \in Compartment, i \in S \cap WithEndpoint : j = <<<<at, b>>, i>>
        BY <3>2, <1>2 DEF EveryCompartment
      <4> QED
        BY <4>1, <1>1, <1>5 DEF FromEntry, Placed
    <3> QED
      BY <3>1, <3>2
  <2> QED
    BY <2>1, <1>1, <1>4, <1>5 DEF LeafInv, WorkInv
<1>11. PastOK' /\ AnswerInv'
  BY <1>1, <1>4, PastStays DEF LeafInv, AnswerInv
<1>12. ChildInv'
  <2> SUFFICES ASSUME complete', NEW c \in Child \cap steady, "none" \notin been[c], AskedFor(c),
                      NEW e \in entries', e[2] = ParentOf[c]
               PROVE  Pending(TagOf(e[1], c), c)'
    BY <1>1 DEF ChildInv, AskedFor, TagOf, tenancy, Placed
  <2>1. CASE e \in entries
    <3>1. Pending(TagOf(e[1], c), c)
      BY <1>1, <1>6, <2>1 DEF LeafInv, ChildInv
    <3> QED
      BY <3>1, <1>1, <1>2, PendingStays
  <2>2. CASE e[1] = at /\ e[2] \in S
    <3>1. TagOf(e[1], c)' = <<at, place[c]>> /\ place[c] \in Compartment
      BY <1>1, <2>2 DEF TagOf, Placed, tenancy, LeafInv, LeafTypeInv
    <3>2. ParentOf[c] \in S \cap WithEndpoint
      BY <1>1, <2>2 DEF AskedFor
    <3>3. <<<<at, place[c]>>, ParentOf[c]>> \in jobs'
      BY <1>2, <3>1, <3>2 DEF EveryCompartment
    <3> QED
      BY <3>1, <3>3 DEF Pending
  <2> QED
    BY <1>5, <2>1, <2>2
<1> QED
  BY <1>5, <1>8, <1>9, <1>10, <1>11, <1>12 DEF LeafInv

\* The namespace: its buckets are listed in every compartment.
LEMMA NamespaceKeeps == LeafInv /\ get_namespace => LeafInv'
<1> SUFFICES ASSUME LeafInv, get_namespace
             PROVE  LeafInv'
  OBVIOUS
<1>1. /\ kind = "object_storage" /\ phase = "list" /\ phase' = "children"
      /\ UNCHANGED <<tenancy, kind, at, gets, answers>>
  BY DEF get_namespace
<1>2. \/ /\ Succeeds /\ entries' = {<<1, i, "live">> : i \in Item}
         /\ jobs' = {<<<<1, b>>, i>> : b \in Compartment, i \in Item}
      \/ Fault /\ entries' = {} /\ jobs' = {}
  BY <1>1 DEF get_namespace, LeafInv, PhaseInv
<1>3. jobs = {} /\ gets = {} /\ answers = {} /\ at = 1 /\ 1 \in Compartment
  BY <1>1 DEF LeafInv, PhaseInv, Compartment
<1>4. complete' \in BOOLEAN /\ faults' \in 0..MaxFaults /\ (complete' => complete)
  BY <1>2, OutcomeKeeps
<1>5. /\ entries' \in SUBSET (Compartment \X Item \X {"live", "terminal"})
      /\ jobs' \in SUBSET (Tag \X Item)
  BY <1>2, <1>3 DEF Tag
<1>6. LeafTypeInv'
  BY <1>1, <1>4, <1>5 DEF LeafInv, LeafTypeInv, tenancy
<1>7. PhaseInv'
  BY <1>1, <1>3 DEF LeafInv, PhaseInv
<1>8. WorkInv'
  <2>1. \A j \in jobs' : FromEntry(j[1], j[2])'
    BY <1>1, <1>2 DEF FromEntry, Placed
  <2> QED
    BY <2>1, <1>1, <1>3 DEF LeafInv, WorkInv
<1>9. PastOK' /\ AnswerInv'
  BY <1>1, <1>3, PastStays DEF LeafInv, AnswerInv
<1>10. ItemInv'
  <2>1. complete' => \A i \in Item : <<1, i, "live">> \in entries'
    BY <1>2 DEF Fault
  <2> QED
    BY <1>1, <1>2, <2>1 DEF ItemInv
<1>11. ChildInv'
  <2> SUFFICES ASSUME complete', NEW c \in Child \cap steady, "none" \notin been[c], AskedFor(c),
                      NEW e \in entries', e[2] = ParentOf[c]
               PROVE  Pending(TagOf(e[1], c), c)'
    BY <1>1 DEF ChildInv, AskedFor, TagOf, tenancy, Placed
  <2>1. e[1] = 1
    BY <1>2
  <2>2. TagOf(e[1], c)' = <<1, place[c]>> /\ place[c] \in Compartment
    BY <1>1, <2>1 DEF TagOf, Placed, tenancy, LeafInv, LeafTypeInv
  <2>3. <<<<1, place[c]>>, ParentOf[c]>> \in jobs'
    BY <1>2, <2>2
  <2> QED
    BY <2>2, <2>3 DEF Pending
<1> QED
  BY <1>6, <1>7, <1>8, <1>9, <1>10, <1>11 DEF LeafInv

\* Volumes: the attachments of their compartment are listed next.
LEMMA VolumesKeep == LeafInv /\ list_volumes => LeafInv'
<1> SUFFICES ASSUME LeafInv, list_volumes
             PROVE  LeafInv'
  OBVIOUS
<1>1. /\ kind = "storage" /\ phase = "list" /\ phase' = "attachments"
      /\ UNCHANGED <<tenancy, kind, at, jobs, gets, answers>>
  BY DEF list_volumes
<1>2. PICK S \in SUBSET ItemsIn(at) : Lists(ItemsIn(at), S) /\ List(S)
  BY DEF list_volumes
<1>3. jobs = {} /\ gets = {} /\ at \in Compartment
  BY <1>1 DEF LeafInv, PhaseInv
<1>4. /\ entries' \in SUBSET (Compartment \X Item \X {"live", "terminal"})
      /\ \A e \in entries' : ListedIn(e[1])'
      /\ ItemInv'
  BY <1>1, <1>2, <1>3, EntriesKeep
<1>5. complete' \in BOOLEAN /\ faults' \in 0..MaxFaults /\ (complete' => complete)
  BY <1>2, ListsKeep
<1>6. LeafTypeInv'
  BY <1>1, <1>4, <1>5 DEF LeafInv, LeafTypeInv, tenancy
<1>7. PhaseInv'
  BY <1>1, <1>3 DEF LeafInv, PhaseInv
<1>8. WorkInv'
  BY <1>1, <1>3, <1>4 DEF LeafInv, WorkInv
<1>9. PastOK' /\ AnswerInv'
  BY <1>1, PastStays DEF LeafInv, AnswerInv, tenancy
<1>10. ChildInv'
  BY <1>1, <1>5 DEF LeafInv, ChildInv, AskedFor, tenancy
<1> QED
  BY <1>4, <1>6, <1>7, <1>8, <1>9, <1>10 DEF LeafInv

-----------------------------------------------------------------------------
(* The leaf collectors: listing the children, and asking for them.          *)

\* Nothing is listed anew while children are looked for.
LEMMA ListedStays ==
  ASSUME UNCHANGED <<kind, phase, at>>
  PROVE  \A a : ListedIn(a)' <=> ListedIn(a)
BY DEF ListedIn

\* The items stay as listed while their children are looked for.
LEMMA ItemsStay ==
  ItemInv /\ UNCHANGED <<tenancy, kind, phase, at, entries>> /\ (complete' => complete) => ItemInv'
<1> SUFFICES ASSUME ItemInv, UNCHANGED <<tenancy, kind, phase, at, entries>>, complete' => complete
             PROVE  ItemInv'
  OBVIOUS
<1>1. \A a : ListedIn(a)' <=> ListedIn(a)
  BY ListedStays
<1>2. UNCHANGED <<home, steady>>
  BY DEF tenancy
<1> QED
  BY <1>1, <1>2 DEF ItemInv

\* What comes from an entry still does.
LEMMA FromEntryStays ==
  ASSUME UNCHANGED <<kind, entries>>
  PROVE  \A t, i : FromEntry(t, i)' <=> FromEntry(t, i)
BY DEF FromEntry

\* A listing that is whole leaves none of the children behind.
LEMMA ListingFinds ==
  ASSUME LeafInv, UNCHANGED <<tenancy, kind, phase, at, entries>>, kind # "storage",
         NEW j \in jobs, jobs' = jobs \ {j}, gets \subseteq gets', answers \subseteq answers',
         NEW S, complete' => complete /\ S = There(j[2], j[1]),
         \A c \in S : <<j[1], c>> \in gets' \/ \E s \in AnswerStates : <<j[1], c, s>> \in answers'
  PROVE  ChildInv'
<1> SUFFICES ASSUME complete', NEW c \in Child \cap steady, "none" \notin been[c], AskedFor(c),
                    NEW e \in entries, e[2] = ParentOf[c]
             PROVE  Pending(TagOf(e[1], c), c)'
  BY DEF ChildInv, AskedFor, TagOf, tenancy, Placed
<1> DEFINE t == TagOf(e[1], c)
<1>1. Pending(t, c) /\ t' = t
  BY DEF LeafInv, ChildInv, TagOf, tenancy, Placed
<1>2. CASE j = <<t, ParentOf[c]>>
  <2>1. state[c] # "none"
    BY DEF LeafInv, PastOK
  <2>2. Placed(kind) => t[2] = place[c]
    BY DEF TagOf
  <2>3. c \in There(j[2], j[1])
    BY <1>2, <2>1, <2>2 DEF There, ChildrenOf
  <2> QED
    BY <1>1, <1>2, <2>3 DEF Pending
<1>3. CASE j # <<t, ParentOf[c]>>
  BY <1>1, <1>3 DEF Pending
<1> QED
  BY <1>2, <1>3

\* An answer that leaves the domain complete says what became of the child.
LEMMA AskingFinds ==
  ASSUME LeafInv, UNCHANGED <<tenancy, kind, phase, at, entries, jobs>>, kind # "storage",
         NEW g \in gets, gets' = gets \ {g},
         \A t \in answers : \E s \in AnswerStates : <<t[1], t[2], s>> \in answers',
         complete' => complete /\ \E s \in AnswerStates : <<g[1], g[2], s>> \in answers'
  PROVE  ChildInv'
<1> SUFFICES ASSUME complete', NEW c \in Child \cap steady, "none" \notin been[c], AskedFor(c),
                    NEW e \in entries, e[2] = ParentOf[c]
             PROVE  Pending(TagOf(e[1], c), c)'
  BY DEF ChildInv, AskedFor, TagOf, tenancy, Placed
<1> DEFINE t == TagOf(e[1], c)
<1>1. Pending(t, c) /\ t' = t
  BY DEF LeafInv, ChildInv, TagOf, tenancy, Placed
<1>2. CASE g = <<t, c>>
  BY <1>1, <1>2 DEF Pending
<1>3. CASE g # <<t, c>>
  <2>1. (\E s \in AnswerStates : <<t, c, s>> \in answers) => \E s \in AnswerStates : <<t, c, s>> \in answers'
    OBVIOUS
  <2> QED
    BY <1>1, <1>3, <2>1 DEF Pending
<1> QED
  BY <1>2, <1>3

\* What is there of an item belongs to it.
LEMMA ThereIs ==
  ASSUME LeafInv, NEW i, NEW t, NEW c \in There(i, t)
  PROVE  c \in Child /\ ParentOf[c] = i /\ state[c] # "none" /\ state[c] \in been[c] /\ state[c] \in States(kind)
BY DEF LeafInv, LeafTypeInv, PastOK, There, ChildrenOf

\* Tunnels are listed; those without a status are to be asked for.
LEMMA TunnelsKeep == LeafInv /\ list_ip_sec_connection_tunnels => LeafInv'
<1> SUFFICES ASSUME LeafInv, list_ip_sec_connection_tunnels
             PROVE  LeafInv'
  OBVIOUS
<1>1. kind = "vpn" /\ phase = "children" /\ UNCHANGED <<tenancy, kind, phase, at, entries>>
  BY DEF list_ip_sec_connection_tunnels
<1>21. PICK j \in jobs : \E S \in SUBSET There(j[2], j[1]) : \E U \in SUBSET S :
        /\ ListsOf(j[2], j[1], S)
        /\ answers' = answers \cup {<<j[1], c, IF c \in U THEN "unknown" ELSE state[c]>> : c \in S}
        /\ gets' = gets \cup {<<j[1], c>> : c \in U}
        /\ jobs' = jobs \ {j}
  BY DEF list_ip_sec_connection_tunnels
<1>22. PICK S \in SUBSET There(j[2], j[1]) : \E U \in SUBSET S :
        /\ ListsOf(j[2], j[1], S)
        /\ answers' = answers \cup {<<j[1], c, IF c \in U THEN "unknown" ELSE state[c]>> : c \in S}
        /\ gets' = gets \cup {<<j[1], c>> : c \in U}
        /\ jobs' = jobs \ {j}
  BY <1>21
<1>2. PICK U \in SUBSET S :
        /\ ListsOf(j[2], j[1], S)
        /\ answers' = answers \cup {<<j[1], c, IF c \in U THEN "unknown" ELSE state[c]>> : c \in S}
        /\ gets' = gets \cup {<<j[1], c>> : c \in U}
        /\ jobs' = jobs \ {j}
  BY <1>22
<1>3. j[1] \in Tag /\ j[2] \in Item /\ j = <<j[1], j[2]>>
  BY DEF LeafInv, LeafTypeInv
<1>4. /\ complete' \in BOOLEAN /\ faults' \in 0..MaxFaults
      /\ complete' => complete /\ S = There(j[2], j[1])
  BY <1>2, <1>3, ListsOfKeep
<1>5. \A c \in S : /\ c \in Child /\ ParentOf[c] = j[2]
                   /\ state[c] # "none" /\ state[c] \in been[c] /\ state[c] \in States(kind)
  BY <1>2, ThereIs
<1>6. \A t \in answers' : t \in answers \/ \E c \in S : /\ t[1] = j[1] /\ t[2] = c
                                                       /\ t = <<j[1], c, t[3]>>
                                                       /\ t[3] = IF c \in U THEN "unknown" ELSE state[c]
  BY <1>2
<1>7. LeafTypeInv'
  <2>1. answers' \in SUBSET (Tag \X Child \X (States(kind) \cup {"unknown"}))
    <3>1. \A c \in S : <<j[1], c, IF c \in U THEN "unknown" ELSE state[c]>>
                        \in Tag \X Child \X (States(kind) \cup {"unknown"})
      BY <1>3, <1>5
    <3> QED
      BY <1>2, <3>1 DEF LeafInv, LeafTypeInv
  <2>2. gets' \in SUBSET (Tag \X Child)
    BY <1>2, <1>3, <1>5 DEF LeafInv, LeafTypeInv
  <2>3. jobs' \in SUBSET (Tag \X Item)
    BY <1>2 DEF LeafInv, LeafTypeInv
  <2> QED
    BY <1>1, <1>4, <2>1, <2>2, <2>3 DEF LeafInv, LeafTypeInv, tenancy
<1>8. PhaseInv'
  BY <1>1 DEF LeafInv, PhaseInv
<1>9. WorkInv'
  <2>1. FromEntry(j[1], j[2]) /\ \A t, i : FromEntry(t, i)' <=> FromEntry(t, i)
    BY <1>1, FromEntryStays DEF LeafInv, WorkInv
  <2>2. \A g \in gets' : FromEntry(g[1], ParentOf[g[2]])'
    <3>1. \A g \in gets' : g \in gets \/ (g[1] = j[1] /\ g[2] \in S)
      BY <1>2
    <3> QED
      BY <2>1, <3>1, <1>5 DEF LeafInv, WorkInv
  <2>3. \A t \in answers' : FromEntry(t[1], ParentOf[t[2]])'
    BY <1>1, <1>5, <1>6, <2>1 DEF LeafInv, WorkInv
  <2>4. \A t \in answers : ~(t[1] = j[1] /\ ParentOf[t[2]] = j[2])
    BY <1>3 DEF LeafInv, WorkInv
  <2>5. ASSUME NEW t \in answers', NEW u \in answers', t[1] = u[1], t[2] = u[2]
        PROVE  t = u
    <3>1. CASE t \in answers /\ u \in answers
      BY <2>5, <3>1 DEF LeafInv, WorkInv
    <3>2. CASE t \notin answers /\ u \notin answers
      BY <2>5, <3>2, <1>6
    <3>3. CASE t \in answers /\ u \notin answers
      BY <2>4, <2>5, <3>3, <1>5, <1>6
    <3>4. CASE t \notin answers /\ u \in answers
      BY <2>4, <2>5, <3>4, <1>5, <1>6
    <3> QED
      BY <3>1, <3>2, <3>3, <3>4
  <2>6. \A t \in answers' : <<t[1], ParentOf[t[2]]>> \notin jobs'
    <3>1. \A t \in answers : <<t[1], ParentOf[t[2]]>> \notin jobs
      BY DEF LeafInv, WorkInv
    <3> QED
      BY <3>1, <1>2, <1>3, <1>5, <1>6
  <2>7. \A g \in gets' : <<g[1], g[2], "unknown">> \in answers'
    <3>1. \A g \in gets : <<g[1], g[2], "unknown">> \in answers
      BY <1>1 DEF LeafInv, WorkInv
    <3>2. \A c \in U : <<j[1], c, "unknown">> \in answers'
      BY <1>2
    <3>3. \A g \in gets' : g \in gets \/ (g[1] = j[1] /\ g[2] \in U)
      BY <1>2
    <3>4. answers \subseteq answers'
      BY <1>2
    <3> QED
      BY <3>1, <3>2, <3>3, <3>4
  <2>8. \A l \in jobs' : FromEntry(l[1], l[2])' /\ l[1] = <<at', at'>>
    BY <1>1, <1>2, <2>1 DEF LeafInv, WorkInv
  <2>9. \A e \in entries' : ListedIn(e[1])'
    BY <1>1, ListedStays DEF LeafInv, WorkInv
  <2> QED
    BY <1>1, <2>2, <2>3, <2>5, <2>6, <2>7, <2>8, <2>9 DEF WorkInv
<1>10. PastOK' /\ ItemInv'
  BY <1>1, <1>4, PastStays, ItemsStay DEF LeafInv
<1>11. AnswerInv'
  <2>1. UNCHANGED been
    BY <1>1 DEF tenancy
  <2>2. \A t \in answers' : t \in answers => t[3] \in been[t[2]] \/ (t[3] = "unknown" /\ (<<t[1], t[2]>> \in gets' \/ ~complete'))
    BY <1>2, <1>4 DEF LeafInv, AnswerInv
  <2>3. \A t \in answers' : t \notin answers => t[3] \in been[t[2]] \/ (t[3] = "unknown" /\ <<t[1], t[2]>> \in gets')
    BY <1>2, <1>5, <1>6
  <2> QED
    BY <1>1, <2>1, <2>2, <2>3 DEF AnswerInv
<1>12. ChildInv'
  <2>1. \A c \in S : \E s \in AnswerStates : <<j[1], c, s>> \in answers'
    <3>1. \A c \in S : (IF c \in U THEN "unknown" ELSE state[c]) \in AnswerStates
      BY <1>1, <1>5, StatesAre DEF AnswerStates, Kinds
    <3> QED
      BY <1>2, <3>1
  <2> QED
    BY <1>1, <1>2, <1>4, <2>1, ListingFinds
<1> QED
  BY <1>7, <1>8, <1>9, <1>10, <1>11, <1>12 DEF LeafInv

\* The rules of a group are listed.
LEMMA RulesKeep == LeafInv /\ list_network_security_group_security_rules => LeafInv'
<1> SUFFICES ASSUME LeafInv, list_network_security_group_security_rules
             PROVE  LeafInv'
  OBVIOUS
<1>1. kind = "networking" /\ phase = "children" /\ UNCHANGED <<tenancy, kind, phase, at, entries, gets>>
  BY DEF list_network_security_group_security_rules
<1>21. PICK j \in jobs : \E S \in SUBSET There(j[2], j[1]) :
        /\ ListsOf(j[2], j[1], S)
        /\ answers' = answers \cup {<<j[1], c, state[c]>> : c \in S}
        /\ jobs' = jobs \ {j}
  BY DEF list_network_security_group_security_rules
<1>2. PICK S \in SUBSET There(j[2], j[1]) :
        /\ ListsOf(j[2], j[1], S)
        /\ answers' = answers \cup {<<j[1], c, state[c]>> : c \in S}
        /\ jobs' = jobs \ {j}
  BY <1>21
<1>3. j[1] \in Tag /\ j[2] \in Item /\ j = <<j[1], j[2]>>
  BY DEF LeafInv, LeafTypeInv
<1>4. /\ complete' \in BOOLEAN /\ faults' \in 0..MaxFaults
      /\ complete' => complete /\ S = There(j[2], j[1])
  BY <1>2, <1>3, ListsOfKeep
<1>5. \A c \in S : /\ c \in Child /\ ParentOf[c] = j[2]
                   /\ state[c] # "none" /\ state[c] \in been[c] /\ state[c] \in States(kind)
  BY <1>2, ThereIs
<1>6. \A t \in answers' : t \in answers \/ \E c \in S : /\ t[1] = j[1] /\ t[2] = c
                                                       /\ t = <<j[1], c, t[3]>> /\ t[3] = state[c]
  BY <1>2
<1>7. LeafTypeInv'
  <2>1. answers' \in SUBSET (Tag \X Child \X (States(kind) \cup {"unknown"}))
    <3>1. \A c \in S : <<j[1], c, state[c]>> \in Tag \X Child \X (States(kind) \cup {"unknown"})
      BY <1>3, <1>5
    <3> QED
      BY <1>2, <3>1 DEF LeafInv, LeafTypeInv
  <2>2. jobs' \in SUBSET (Tag \X Item)
    BY <1>2 DEF LeafInv, LeafTypeInv
  <2> QED
    BY <1>1, <1>4, <2>1, <2>2 DEF LeafInv, LeafTypeInv, tenancy
<1>8. PhaseInv'
  BY <1>1 DEF LeafInv, PhaseInv
<1>9. WorkInv'
  <2>1. FromEntry(j[1], j[2]) /\ \A t, i : FromEntry(t, i)' <=> FromEntry(t, i)
    BY <1>1, FromEntryStays DEF LeafInv, WorkInv
  <2>2. gets' = {}
    BY <1>1 DEF LeafInv, PhaseInv
  <2>3. \A t \in answers' : FromEntry(t[1], ParentOf[t[2]])'
    BY <1>1, <1>5, <1>6, <2>1 DEF LeafInv, WorkInv
  <2>4. \A t \in answers : ~(t[1] = j[1] /\ ParentOf[t[2]] = j[2])
    BY <1>3 DEF LeafInv, WorkInv
  <2>5. ASSUME NEW t \in answers', NEW u \in answers', t[1] = u[1], t[2] = u[2]
        PROVE  t = u
    <3>1. CASE t \in answers /\ u \in answers
      BY <2>5, <3>1 DEF LeafInv, WorkInv
    <3>2. CASE t \notin answers /\ u \notin answers
      BY <2>5, <3>2, <1>6
    <3>3. CASE t \in answers /\ u \notin answers
      BY <2>4, <2>5, <3>3, <1>5, <1>6
    <3>4. CASE t \notin answers /\ u \in answers
      BY <2>4, <2>5, <3>4, <1>5, <1>6
    <3> QED
      BY <3>1, <3>2, <3>3, <3>4
  <2>6. \A t \in answers' : <<t[1], ParentOf[t[2]]>> \notin jobs'
    <3>1. \A t \in answers : <<t[1], ParentOf[t[2]]>> \notin jobs
      BY DEF LeafInv, WorkInv
    <3> QED
      BY <3>1, <1>2, <1>3, <1>5, <1>6
  <2>7. \A l \in jobs' : FromEntry(l[1], l[2])' /\ l[1] = <<at', at'>>
    BY <1>1, <1>2, <2>1 DEF LeafInv, WorkInv
  <2>8. \A e \in entries' : ListedIn(e[1])'
    BY <1>1, ListedStays DEF LeafInv, WorkInv
  <2> QED
    BY <1>1, <2>2, <2>3, <2>5, <2>6, <2>7, <2>8 DEF WorkInv
<1>10. PastOK' /\ ItemInv'
  BY <1>1, <1>4, PastStays, ItemsStay DEF LeafInv
<1>11. AnswerInv'
  <2>1. UNCHANGED been /\ gets = {} /\ gets' = {}
    BY <1>1 DEF tenancy, LeafInv, PhaseInv
  <2>2. \A t \in answers : t[3] \in been[t[2]]
    BY <1>1 DEF LeafInv, AnswerInv
  <2> QED
    BY <2>1, <2>2, <1>5, <1>6 DEF AnswerInv
<1>12. ChildInv'
  <2>1. \A c \in S : \E s \in AnswerStates : <<j[1], c, s>> \in answers'
    <3>1. \A c \in S : state[c] \in AnswerStates
      BY <1>1, <1>5, StatesAre DEF AnswerStates, Kinds
    <3> QED
      BY <1>2, <3>1
  <2> QED
    BY <1>1, <1>2, <1>4, <2>1, ListingFinds
<1> QED
  BY <1>7, <1>8, <1>9, <1>10, <1>11, <1>12 DEF LeafInv

\* Keys or buckets are listed by name; each is asked for later.
LEMMA NamesKeep ==
  ASSUME LeafInv, kind \in {"kms_vault", "object_storage"}, NEW STATE due, due \subseteq jobs, ListNames(due)
  PROVE  LeafInv'
<1>1. phase = "children" /\ UNCHANGED <<tenancy, kind, phase, at, entries, answers>>
  BY DEF ListNames
<1>21. PICK j \in jobs : \E S \in SUBSET There(j[2], j[1]) :
        /\ ListsOf(j[2], j[1], S)
        /\ gets' = gets \cup {<<j[1], c>> : c \in S}
        /\ jobs' = jobs \ {j}
  BY DEF ListNames
<1>2. PICK S \in SUBSET There(j[2], j[1]) :
        /\ ListsOf(j[2], j[1], S)
        /\ gets' = gets \cup {<<j[1], c>> : c \in S}
        /\ jobs' = jobs \ {j}
  BY <1>21
<1>3. j[1] \in Tag /\ j[2] \in Item /\ answers = {}
  BY <1>1 DEF LeafInv, LeafTypeInv, PhaseInv
<1>4. /\ complete' \in BOOLEAN /\ faults' \in 0..MaxFaults
      /\ complete' => complete /\ S = There(j[2], j[1])
  BY <1>2, <1>3, ListsOfKeep
<1>5. \A c \in S : c \in Child /\ ParentOf[c] = j[2]
  BY <1>2, ThereIs
<1>6. \A g \in gets' : g \in gets \/ (g[1] = j[1] /\ g[2] \in S /\ g = <<j[1], g[2]>>)
  BY <1>2
<1>7. LeafTypeInv'
  <2>1. gets' \in SUBSET (Tag \X Child)
    BY <1>2, <1>3, <1>5 DEF LeafInv, LeafTypeInv
  <2>2. jobs' \in SUBSET (Tag \X Item)
    BY <1>2 DEF LeafInv, LeafTypeInv
  <2> QED
    BY <1>1, <1>4, <2>1, <2>2 DEF LeafInv, LeafTypeInv, tenancy
<1>8. PhaseInv'
  BY <1>1 DEF LeafInv, PhaseInv
<1>9. WorkInv'
  <2>1. FromEntry(j[1], j[2]) /\ \A t, i : FromEntry(t, i)' <=> FromEntry(t, i)
    BY <1>1, FromEntryStays DEF LeafInv, WorkInv
  <2>2. \A g \in gets' : FromEntry(g[1], ParentOf[g[2]])'
    BY <1>5, <1>6, <2>1 DEF LeafInv, WorkInv
  <2>3. \A l \in jobs' : FromEntry(l[1], l[2])'
    BY <1>2, <2>1 DEF LeafInv, WorkInv
  <2>4. \A e \in entries' : kind' # "object_storage" => ListedIn(e[1])'
    BY <1>1, ListedStays DEF LeafInv, WorkInv
  <2> QED
    BY <1>1, <1>3, <2>2, <2>3, <2>4 DEF WorkInv
<1>10. PastOK' /\ ItemInv'
  BY <1>1, <1>4, PastStays, ItemsStay DEF LeafInv
<1>11. AnswerInv'
  BY <1>1, <1>3 DEF AnswerInv
<1>12. ChildInv'
  <2>1. \A c \in S : <<j[1], c>> \in gets'
    BY <1>2
  <2> QED
    BY <1>1, <1>2, <1>4, <2>1, ListingFinds
<1> QED
  BY <1>7, <1>8, <1>9, <1>10, <1>11, <1>12 DEF LeafInv

\* A tunnel without its status is asked for, and takes the place of the one listed.
LEMMA TunnelKeeps == LeafInv /\ get_ip_sec_connection_tunnel => LeafInv'
<1> SUFFICES ASSUME LeafInv, get_ip_sec_connection_tunnel
             PROVE  LeafInv'
  OBVIOUS
<1>1. kind = "vpn" /\ UNCHANGED <<tenancy, kind, phase, at, entries, jobs>>
  BY DEF get_ip_sec_connection_tunnel
<1>2. PICK g \in gets :
        /\ \/ /\ Succeeds /\ state[g[2]] # "none"
              /\ answers' = Replaced(g[1], g[2])
           \/ (Fault \/ (state[g[2]] = "none" /\ NotFound)) /\ UNCHANGED answers
        /\ gets' = gets \ {g}
  BY DEF get_ip_sec_connection_tunnel
<1>3. /\ g[1] \in Tag /\ g[2] \in Child /\ g = <<g[1], g[2]>> /\ <<g[1], g[2], "unknown">> \in answers
      /\ state[g[2]] \in States(kind) /\ state[g[2]] \in been[g[2]]
  BY <1>1 DEF LeafInv, LeafTypeInv, WorkInv, PastOK
<1>4. complete' \in BOOLEAN /\ faults' \in 0..MaxFaults /\ (complete' => complete)
  BY <1>2, OutcomeKeeps
<1>5. \/ answers' = (answers \ {<<g[1], g[2], "unknown">>}) \cup {<<g[1], g[2], state[g[2]]>>}
      \/ answers' = answers /\ ~complete'
  BY <1>2 DEF Replaced, Fault, NotFound
<1>6. \A t, u \in answers : t[1] = u[1] /\ t[2] = u[2] => t = u
  BY DEF LeafInv, WorkInv
<1>7. LeafTypeInv'
  <2>1. <<g[1], g[2], state[g[2]]>> \in Tag \X Child \X (States(kind) \cup {"unknown"})
    BY <1>3
  <2>2. answers' \in SUBSET (Tag \X Child \X (States(kind) \cup {"unknown"}))
    BY <1>5, <2>1 DEF LeafInv, LeafTypeInv
  <2>3. gets' \in SUBSET (Tag \X Child)
    BY <1>2 DEF LeafInv, LeafTypeInv
  <2> QED
    BY <1>1, <1>4, <2>2, <2>3 DEF LeafInv, LeafTypeInv, tenancy
<1>8. PhaseInv'
  BY <1>1, <1>2 DEF LeafInv, PhaseInv
<1>9. \A t \in answers' : \/ t \in answers
                          \/ t = <<g[1], g[2], state[g[2]]>> /\ t[1] = g[1] /\ t[2] = g[2] /\ t[3] = state[g[2]]
  BY <1>5
<1>10. \A t \in answers' : \E u \in answers : t[1] = u[1] /\ t[2] = u[2]
  BY <1>3, <1>9
<1>11. WorkInv'
  <2>1. \A t, i : FromEntry(t, i)' <=> FromEntry(t, i)
    BY <1>1, FromEntryStays
  <2>2. \A l \in gets' : FromEntry(l[1], ParentOf[l[2]])'
    BY <1>2, <2>1 DEF LeafInv, WorkInv
  <2>3. \A t \in answers' : FromEntry(t[1], ParentOf[t[2]])' /\ <<t[1], ParentOf[t[2]]>> \notin jobs
    BY <1>1, <1>10, <2>1 DEF LeafInv, WorkInv
  <2>4. ASSUME NEW t \in answers', NEW u \in answers', t[1] = u[1], t[2] = u[2]
        PROVE  t = u
    <3>1. CASE answers' = answers
      BY <2>4, <3>1, <1>6
    <3>2. CASE answers' = (answers \ {<<g[1], g[2], "unknown">>}) \cup {<<g[1], g[2], state[g[2]]>>}
      <4>1. ASSUME NEW v \in answers', v[1] = g[1], v[2] = g[2]
            PROVE  v = <<g[1], g[2], state[g[2]]>>
        BY <4>1, <3>2, <1>3, <1>6
      <4>2. CASE t[1] = g[1] /\ t[2] = g[2]
        BY <4>1, <4>2, <2>4
      <4>3. CASE ~(t[1] = g[1] /\ t[2] = g[2])
        BY <4>3, <2>4, <1>6, <1>9
      <4> QED
        BY <4>2, <4>3
    <3> QED
      BY <3>1, <3>2, <1>5
  <2>5. ASSUME NEW l \in gets'
        PROVE  <<l[1], l[2], "unknown">> \in answers'
    <3>1. l \in gets /\ l # g /\ l = <<l[1], l[2]>> /\ <<l[1], l[2], "unknown">> \in answers
      BY <1>1, <1>2 DEF LeafInv, LeafTypeInv, WorkInv
    <3>2. <<l[1], l[2], "unknown">> # <<g[1], g[2], "unknown">>
      BY <3>1, <1>3
    <3> QED
      BY <3>1, <3>2, <1>5
  <2>6. \A l \in jobs' : FromEntry(l[1], l[2])' /\ l[1] = <<at', at'>>
    BY <1>1, <2>1 DEF LeafInv, WorkInv
  <2>7. \A e \in entries' : ListedIn(e[1])'
    BY <1>1, ListedStays DEF LeafInv, WorkInv
  <2> QED
    BY <1>1, <2>2, <2>3, <2>4, <2>5, <2>6, <2>7 DEF WorkInv
<1>12. PastOK' /\ ItemInv'
  BY <1>1, <1>4, PastStays, ItemsStay DEF LeafInv
<1>13. AnswerInv'
  <2> SUFFICES ASSUME NEW t \in answers'
               PROVE  \/ t[3] \in been[t[2]]
                      \/ t[3] = "unknown" /\ kind = "vpn" /\ (<<t[1], t[2]>> \in gets' \/ ~complete')
    BY <1>1 DEF AnswerInv, tenancy
  <2>1. CASE t \notin answers
    BY <2>1, <1>3, <1>9
  <2>2. CASE t \in answers /\ ~complete'
    BY <2>2 DEF LeafInv, AnswerInv
  <2>3. CASE t \in answers /\ complete' /\ ~(t[1] = g[1] /\ t[2] = g[2])
    BY <2>3, <1>2, <1>3, <1>4 DEF LeafInv, AnswerInv
  <2>4. CASE t \in answers /\ complete' /\ t[1] = g[1] /\ t[2] = g[2]
    <3>1. t = <<g[1], g[2], "unknown">>
      BY <2>4, <1>3, <1>6
    <3>2. t = <<g[1], g[2], state[g[2]]>>
      BY <2>4, <3>1, <1>5
    <3> QED
      BY <3>2, <1>3
  <2> QED
    BY <2>1, <2>2, <2>3, <2>4
<1>14. ChildInv'
  <2>1. \A t \in answers : t = <<t[1], t[2], t[3]>> /\ t[3] \in AnswerStates
    BY <1>1, StatesAre DEF LeafInv, LeafTypeInv, AnswerStates, Kinds
  <2>2. state[g[2]] \in AnswerStates
    BY <1>1, <1>3, StatesAre DEF AnswerStates, Kinds
  <2>3. \E s \in AnswerStates : <<g[1], g[2], s>> \in answers'
    BY <2>2, <1>3, <1>5 DEF AnswerStates
  <2>4. ASSUME NEW t \in answers
        PROVE  \E s \in AnswerStates : <<t[1], t[2], s>> \in answers'
    <3>1. CASE t[1] = g[1] /\ t[2] = g[2]
      BY <2>3, <3>1
    <3>2. CASE ~(t[1] = g[1] /\ t[2] = g[2])
      <4>1. t # <<g[1], g[2], "unknown">>
        BY <3>2
      <4>2. t \in answers'
        BY <4>1, <1>5
      <4> QED
        BY <4>2, <2>1
    <3> QED
      BY <3>1, <3>2
  <2> QED
    BY <1>1, <1>2, <1>4, <2>3, <2>4, AskingFinds
<1> QED
  BY <1>7, <1>8, <1>11, <1>12, <1>13, <1>14 DEF LeafInv

\* A key, a bucket or the health of a backend set is asked for.
LEMMA AskForEachKeeps ==
  ASSUME LeafInv, kind \in {"load_balancer", "kms_vault", "object_storage"}, AskForEach
  PROVE  LeafInv'
<1>1. phase = "get" /\ UNCHANGED <<tenancy, kind, phase, at, entries, jobs>>
  BY DEF AskForEach
<1>2. PICK g \in gets :
        /\ \/ /\ Succeeds /\ state[g[2]] # "none"
              /\ answers' = answers \cup {<<g[1], g[2], state[g[2]]>>}
           \/ (Fault \/ (state[g[2]] = "none" /\ NotFound)) /\ UNCHANGED answers
        /\ gets' = gets \ {g}
  BY DEF AskForEach
<1>3. /\ g[1] \in Tag /\ g[2] \in Child /\ g = <<g[1], g[2]>>
      /\ state[g[2]] \in States(kind) /\ state[g[2]] \in been[g[2]]
      /\ FromEntry(g[1], ParentOf[g[2]])
      /\ \A t \in answers : ~(t[1] = g[1] /\ t[2] = g[2])
  BY DEF LeafInv, LeafTypeInv, WorkInv, PastOK
<1>4. complete' \in BOOLEAN /\ faults' \in 0..MaxFaults /\ (complete' => complete)
  BY <1>2, OutcomeKeeps
<1>5. \/ answers' = answers \cup {<<g[1], g[2], state[g[2]]>>}
      \/ answers' = answers /\ ~complete'
  BY <1>2 DEF Fault, NotFound
<1>6. jobs = {} /\ jobs' = {}
  BY <1>1 DEF LeafInv, PhaseInv
<1>7. LeafTypeInv'
  <2>1. <<g[1], g[2], state[g[2]]>> \in Tag \X Child \X (States(kind) \cup {"unknown"})
    BY <1>3
  <2>2. answers' \in SUBSET (Tag \X Child \X (States(kind) \cup {"unknown"}))
    BY <1>5, <2>1 DEF LeafInv, LeafTypeInv
  <2>3. gets' \in SUBSET (Tag \X Child)
    BY <1>2 DEF LeafInv, LeafTypeInv
  <2> QED
    BY <1>1, <1>4, <2>2, <2>3 DEF LeafInv, LeafTypeInv, tenancy
<1>8. PhaseInv'
  BY <1>1, <1>2 DEF LeafInv, PhaseInv
<1>9. \A t \in answers' : \/ t \in answers
                          \/ t = <<g[1], g[2], state[g[2]]>> /\ t[1] = g[1] /\ t[2] = g[2] /\ t[3] = state[g[2]]
  BY <1>5
<1>10. WorkInv'
  <2>1. \A t, i : FromEntry(t, i)' <=> FromEntry(t, i)
    BY <1>1, FromEntryStays
  <2>2. \A l \in gets' : FromEntry(l[1], ParentOf[l[2]])'
    BY <1>2, <2>1 DEF LeafInv, WorkInv
  <2>3. \A t \in answers' : FromEntry(t[1], ParentOf[t[2]])'
    BY <1>1, <1>3, <1>9, <2>1 DEF LeafInv, WorkInv
  <2>4. \A t, u \in answers' : t[1] = u[1] /\ t[2] = u[2] => t = u
    BY <1>3, <1>9 DEF LeafInv, WorkInv
  <2>5. ASSUME NEW t \in answers'
        PROVE  <<t[1], t[2]>> \notin gets'
    BY <1>1, <1>2, <1>3, <1>9 DEF LeafInv, WorkInv
  <2>6. \A e \in entries' : kind' # "object_storage" => ListedIn(e[1])'
    BY <1>1, ListedStays DEF LeafInv, WorkInv
  <2> QED
    BY <1>1, <1>6, <2>2, <2>3, <2>4, <2>5, <2>6 DEF WorkInv
<1>11. PastOK' /\ ItemInv'
  BY <1>1, <1>4, PastStays, ItemsStay DEF LeafInv
<1>12. AnswerInv'
  <2>1. \A t \in answers : t[3] \in been[t[2]]
    BY DEF LeafInv, AnswerInv
  <2>2. UNCHANGED been
    BY <1>1 DEF tenancy
  <2> QED
    BY <2>1, <2>2, <1>3, <1>9 DEF AnswerInv
<1>13. ChildInv'
  <2>1. \A t \in answers : t = <<t[1], t[2], t[3]>> /\ t[3] \in AnswerStates
    BY <1>1, StatesAre DEF LeafInv, LeafTypeInv, AnswerStates, Kinds
  <2>2. state[g[2]] \in AnswerStates
    BY <1>1, <1>3, StatesAre DEF AnswerStates, Kinds
  <2>3. complete' => \E s \in AnswerStates : <<g[1], g[2], s>> \in answers'
    BY <2>2, <1>5
  <2>4. \A t \in answers : \E s \in AnswerStates : <<t[1], t[2], s>> \in answers'
    BY <2>1, <1>5
  <2> QED
    BY <1>1, <1>2, <1>4, <2>3, <2>4, AskingFinds
<1> QED
  BY <1>7, <1>8, <1>10, <1>11, <1>12, <1>13 DEF LeafInv

\* The attachments of the volumes of a compartment are listed; on to the next one.
LEMMA AttachmentsKeep == LeafInv /\ list_volume_attachments => LeafInv'
<1> SUFFICES ASSUME LeafInv, list_volume_attachments
             PROVE  LeafInv'
  OBVIOUS
<1> DEFINE there == {c \in Child : place[c] = at /\ state[c] # "none"}
<1>1. phase = "attachments" /\ Next_compartment("done") /\ UNCHANGED <<tenancy, kind, entries, jobs, gets>>
  BY DEF list_volume_attachments
<1>2. PICK S \in SUBSET there :
        Lists(there, S) /\ answers' = answers \cup {<<<<at, at>>, c, state[c]>> : c \in S}
  BY DEF list_volume_attachments
<1>3. /\ kind = "storage" /\ jobs = {} /\ gets = {} /\ at \in Compartment
      /\ Compartment \subseteq Nat /\ \A a \in Compartment : a <= Compartments
  BY <1>1 DEF LeafInv, LeafTypeInv, PhaseInv, Compartment, Kinds
<1>4. \/ at < Compartments /\ at' = at + 1 /\ phase' = "list" /\ at' \in Compartment
      \/ at = Compartments /\ at' = at /\ phase' = "done" /\ at' \in Compartment
  BY <1>1, NextCompartment
<1>5. /\ complete' \in BOOLEAN /\ faults' \in 0..MaxFaults
      /\ complete' => complete /\ S = there
  BY <1>2, ListsKeep
<1>6. \A c \in S : /\ c \in Child /\ place[c] = at /\ state[c] \in States(kind)
                   /\ state[c] \in been[c]
  BY <1>2 DEF LeafInv, LeafTypeInv, PastOK
<1>7. \A t \in answers' : t \in answers \/ \E c \in S : /\ t[1] = <<at, at>> /\ t[2] = c
                                                       /\ t = <<<<at, at>>, c, t[3]>> /\ t[3] = state[c]
  BY <1>2
<1>8. \A t \in answers : t[1] \in Tag /\ t[1][2] = t[1][1] /\ t[1][1] \in Nat /\ t[1][1] < at
  BY <1>1, <1>3 DEF LeafInv, LeafTypeInv, WorkInv, Tag
<1>9. LeafTypeInv'
  <2>1. answers' \in SUBSET (Tag \X Child \X (States(kind) \cup {"unknown"}))
    <3>1. \A c \in S : <<<<at, at>>, c, state[c]>> \in Tag \X Child \X (States(kind) \cup {"unknown"})
      BY <1>3, <1>6 DEF Tag
    <3> QED
      BY <1>2, <3>1 DEF LeafInv, LeafTypeInv
  <2> QED
    BY <1>1, <1>5, <2>1 DEF LeafInv, LeafTypeInv, tenancy
<1>10. PhaseInv'
  BY <1>1, <1>3, <1>4 DEF LeafInv, PhaseInv
<1>11. WorkInv'
  <2>1. \A t \in answers' : t[1][2] = t[1][1] /\ (t[1][1] < at' \/ phase' = "done")
    <3>1. at \in Nat
      BY <1>3
    <3> QED
      BY <3>1, <1>4, <1>7, <1>8
  <2>2. ASSUME NEW t \in answers', NEW u \in answers', t[1] = u[1], t[2] = u[2]
        PROVE  t = u
    <3>1. \A v \in answers : v[1] # <<at, at>>
      BY <1>3, <1>8
    <3>2. CASE t \in answers /\ u \in answers
      BY <2>2, <3>2 DEF LeafInv, WorkInv
    <3>3. CASE t \notin answers /\ u \notin answers
      BY <2>2, <3>3, <1>7
    <3>4. CASE t \in answers /\ u \notin answers
      BY <2>2, <3>1, <3>4, <1>7
    <3>5. CASE t \notin answers /\ u \in answers
      BY <2>2, <3>1, <3>5, <1>7
    <3> QED
      BY <3>2, <3>3, <3>4, <3>5
  <2>3. \A e \in entries' : ListedIn(e[1])'
    <3>1. \A e \in entries : e[1] \in Nat /\ (e[1] < at \/ e[1] = at)
      BY <1>1, <1>3 DEF LeafInv, LeafTypeInv, WorkInv, ListedIn
    <3>2. at \in Nat
      BY <1>3
    <3> QED
      BY <3>1, <3>2, <1>1, <1>3, <1>4 DEF ListedIn
  <2> QED
    BY <2>1, <2>2, <2>3, <1>1, <1>3 DEF WorkInv
<1>12. PastOK'
  BY <1>1, PastStays DEF LeafInv
<1>13. AnswerInv'
  <2>1. UNCHANGED been
    BY <1>1 DEF tenancy
  <2>2. \A t \in answers : t[3] \in been[t[2]]
    BY <1>3 DEF LeafInv, AnswerInv
  <2> QED
    BY <2>1, <2>2, <1>6, <1>7 DEF AnswerInv
<1>14. ItemInv'
  <2>1. \A a \in Compartment : ListedIn(a)' => ListedIn(a)
    <3>1. at \in Nat
      BY <1>3
    <3> QED
      BY <3>1, <1>1, <1>3, <1>4 DEF ListedIn
  <2>2. UNCHANGED <<home, steady>> /\ \A i \in Item : home[i] \in Compartment
    BY <1>1 DEF tenancy, LeafInv, LeafTypeInv
  <2> QED
    BY <2>1, <2>2, <1>1, <1>3, <1>5 DEF LeafInv, ItemInv
<1>15. ChildInv'
  <2> SUFFICES ASSUME complete', NEW c \in Child \cap steady, "none" \notin been[c], AskedFor(c),
                      place[c] < at' \/ phase' = "done"
               PROVE  \E s \in AnswerStates : <<<<place[c], place[c]>>, c, s>> \in answers'
    BY <1>1, <1>3 DEF ChildInv, AskedFor, tenancy
  <2>1. place[c] \in Nat /\ at \in Nat /\ place[c] <= at
    <3>1. place[c] \in Nat /\ at \in Nat /\ place[c] <= Compartments
      BY <1>3 DEF LeafInv, LeafTypeInv
    <3> QED
      BY <3>1, <1>4
  <2>2. CASE place[c] = at
    <3>1. state[c] # "none" /\ state[c] \in AnswerStates
      BY <1>3, StatesAre DEF LeafInv, LeafTypeInv, PastOK, AnswerStates
    <3>2. c \in S
      BY <2>2, <3>1, <1>5
    <3> QED
      BY <2>2, <3>1, <3>2, <1>2
  <2>3. CASE place[c] < at
    <3>1. \E s \in AnswerStates : <<<<place[c], place[c]>>, c, s>> \in answers
      BY <2>3, <1>3, <1>5 DEF LeafInv, ChildInv
    <3> QED
      BY <3>1, <1>2
  <2> QED
    BY <2>1, <2>2, <2>3 DEF AskedFor
<1> QED
  BY <1>9, <1>10, <1>11, <1>12, <1>13, <1>14, <1>15 DEF LeafInv

\* All calls have returned: on to the next compartment, to the answers, or done.
LEMMA JoinedKeeps == LeafInv /\ Joined => LeafInv'
<1> SUFFICES ASSUME LeafInv, Joined
             PROVE  LeafInv'
  OBVIOUS
<1>1. /\ phase \in {"children", "get"} /\ AllReturned
      /\ UNCHANGED <<tenancy, kind, entries, jobs, gets, answers, complete, faults>>
  BY DEF Joined
<1>2. /\ at \in Compartment /\ Compartment \subseteq Nat /\ jobs = {} /\ kind # "storage"
      /\ kind \in {"vpn", "networking"} => phase = "children"
      /\ kind = "load_balancer" => phase = "get"
  BY <1>1 DEF LeafInv, PhaseInv, AllReturned, Compartment, LeafTypeInv, Kinds
<1>3. \/ /\ kind \in {"vpn", "networking"} /\ gets = {}
         /\ \/ at < Compartments /\ at' = at + 1 /\ phase' = "list" /\ at' \in Compartment
            \/ at = Compartments /\ at' = at /\ phase' = "done" /\ at' \in Compartment
      \/ kind \in {"kms_vault", "object_storage"} /\ phase = "children" /\ phase' = "get" /\ at' = at
      \/ kind \in {"load_balancer", "kms_vault", "object_storage"} /\ gets = {} /\ phase = "get" /\ phase' = "done" /\ at' = at
  <2>1. CASE phase = "children" /\ kind \in {"vpn", "networking"}
    <3>1. Next_compartment("done") /\ gets = {}
      BY <2>1, <1>1 DEF Joined, AllReturned
    <3> QED
      BY <2>1, <3>1, NextCompartment
  <2>2. CASE phase = "children" /\ kind \in {"kms_vault", "object_storage"}
    BY <2>2 DEF Joined
  <2>3. CASE phase = "get"
    BY <2>3, <1>1 DEF Joined, AllReturned, LeafInv, PhaseInv
  <2> QED
    BY <2>1, <2>2, <2>3, <1>1 DEF Joined
<1>4. LeafTypeInv'
  BY <1>1 DEF LeafInv, LeafTypeInv, tenancy
<1>5. \A a \in Compartment : kind = "object_storage" \/ (ListedIn(a)' <=> ListedIn(a))
  <2>1. at \in Nat /\ \A a \in Compartment : a \in Nat
    BY <1>2
  <2> QED
    BY <2>1, <1>1, <1>2, <1>3 DEF ListedIn
<1>6. PhaseInv'
  <2>1. at' \in Compartment
    BY <1>2, <1>3
  <2> QED
    BY <2>1, <1>1, <1>2, <1>3 DEF LeafInv, PhaseInv
<1>7. WorkInv'
  <2>1. \A t, i : FromEntry(t, i)' <=> FromEntry(t, i)
    BY <1>1, FromEntryStays
  <2>2. \A e \in entries' : kind' # "object_storage" => ListedIn(e[1])'
    BY <1>1, <1>5 DEF LeafInv, LeafTypeInv, WorkInv
  <2>3. \A g \in gets' : FromEntry(g[1], ParentOf[g[2]])'
    BY <1>1, <2>1 DEF LeafInv, WorkInv
  <2>4. \A t \in answers' : FromEntry(t[1], ParentOf[t[2]])'
    BY <1>1, <1>2, <2>1 DEF LeafInv, WorkInv
  <2>5. jobs' = {} /\ kind' # "storage"
    BY <1>1, <1>2
  <2>6. /\ \A t, u \in answers' : t[1] = u[1] /\ t[2] = u[2] => t = u
        /\ kind' = "vpn" => \A g \in gets' : <<g[1], g[2], "unknown">> \in answers'
        /\ kind' # "vpn" => \A t \in answers' : <<t[1], t[2]>> \notin gets'
    BY <1>1 DEF LeafInv, WorkInv
  <2> QED
    BY <2>2, <2>3, <2>4, <2>5, <2>6 DEF WorkInv
<1>8. PastOK' /\ AnswerInv'
  BY <1>1, PastStays DEF LeafInv, AnswerInv, tenancy
<1>9. ItemInv'
  <2>1. UNCHANGED <<home, steady>> /\ \A i \in Item : home[i] \in Compartment
    BY <1>1 DEF tenancy, LeafInv, LeafTypeInv
  <2>2. kind = "object_storage" => phase # "list"
    BY <1>1
  <2> QED
    BY <2>1, <2>2, <1>1, <1>5 DEF LeafInv, ItemInv
<1>10. ChildInv'
  <2> SUFFICES ASSUME complete', NEW c \in Child \cap steady, "none" \notin been[c], AskedFor(c),
                      NEW e \in entries, e[2] = ParentOf[c]
               PROVE  Pending(TagOf(e[1], c), c)'
    BY <1>1, <1>2 DEF ChildInv, AskedFor, TagOf, tenancy, Placed
  <2>1. Pending(TagOf(e[1], c), c)
    BY <1>1, <1>2 DEF LeafInv, ChildInv
  <2> QED
    BY <2>1, <1>1, PendingStays
<1> QED
  BY <1>4, <1>6, <1>7, <1>8, <1>9, <1>10 DEF LeafInv

-----------------------------------------------------------------------------
(* The leaf collectors: the tenancy.                                        *)

\* A change of the tenancy spares what stays steady, and what the collector has read.
LEMMA BecomeKeeps ==
  ASSUME LeafInv,
         NEW l \in [Item -> {"live", "terminal", "purged"}], NEW h \in [Item -> Compartment],
         NEW s \in [Child -> States(kind)], NEW p \in [Child -> Compartment],
         NEW unsteady \in SUBSET (Item \cup Child),
         Become(l, h, s, p, unsteady),
         \A i \in Item \cap (steady \ unsteady) : l[i] = "live" /\ h[i] = home[i],
         \A c \in Child \cap (steady \ unsteady) : p[c] = place[c],
         kind = "object_storage" => l = life /\ \A i \in Item : i \notin unsteady,
         kind \notin {"kms_vault", "object_storage"} => \A c \in Child : c \notin unsteady
  PROVE  LeafInv'
<1>1. /\ changes < MaxChanges[kind] /\ changes' = changes + 1
      /\ life' = l /\ home' = h /\ state' = s /\ place' = p
      /\ been' = [c \in Child |-> been[c] \cup {s[c]}]
      /\ steady' = steady \ unsteady
      /\ UNCHANGED <<kind, phase, at, entries, jobs, gets, answers, complete, faults>>
  BY DEF Become, collector
<1>2. \A c \in Child : been[c] \subseteq been'[c] /\ s[c] \in been'[c]
  BY <1>1
<1>3. \A a : ListedIn(a)' <=> ListedIn(a)
  BY <1>1, ListedStays
<1>4. LeafTypeInv'
  <2>1. MaxChanges[kind] \in Nat
    BY DEF LeafInv, LeafTypeInv
  <2>2. changes' \in 0..MaxChanges[kind]
    BY <2>1, <1>1 DEF LeafInv, LeafTypeInv
  <2>3. been' \in [Child -> SUBSET States(kind)]
    BY <1>1 DEF LeafInv, LeafTypeInv
  <2> QED
    BY <2>2, <2>3, <1>1 DEF LeafInv, LeafTypeInv
<1>5. PhaseInv'
  BY <1>1 DEF LeafInv, PhaseInv
<1>6. WorkInv'
  <2>1. \A t, i : FromEntry(t, i)' <=> FromEntry(t, i)
    BY <1>1, FromEntryStays
  <2> QED
    BY <2>1, <1>1, <1>3 DEF LeafInv, WorkInv
<1>7. PastOK'
  <2>1. \A c \in Child : state'[c] \in been'[c]
    BY <1>1, <1>2
  <2>2. \A i \in Item \cap steady' : life'[i] = "live"
    BY <1>1
  <2>3. kind' = "object_storage" => \A i \in Item : life'[i] = "live" /\ i \in steady'
    BY <1>1 DEF LeafInv, PastOK
  <2>4. kind' \notin {"kms_vault", "object_storage"} => Child \subseteq steady'
    BY <1>1 DEF LeafInv, PastOK
  <2> QED
    BY <2>1, <2>2, <2>3, <2>4 DEF PastOK
<1>8. AnswerInv'
  <2>1. \A t \in answers : t[2] \in Child
    BY DEF LeafInv, LeafTypeInv
  <2> QED
    BY <2>1, <1>1, <1>2 DEF LeafInv, AnswerInv
<1>9. ItemInv'
  BY <1>1, <1>3 DEF LeafInv, ItemInv
<1>10. ChildInv'
  <2> SUFFICES ASSUME complete, NEW c \in Child \cap steady, c \notin unsteady, "none" \notin been[c], AskedFor(c)
               PROVE  IF kind = "storage"
                      THEN place'[c] < at \/ phase = "done" =>
                             \E r \in AnswerStates : <<<<place'[c], place'[c]>>, c, r>> \in answers
                      ELSE \A e \in entries : e[2] = ParentOf[c] => Pending(TagOf(e[1], c), c)'
    BY <1>1, <1>2 DEF ChildInv, AskedFor
  <2>1. place'[c] = place[c]
    BY <1>1
  <2>2. \A t : Pending(t, c) => Pending(t, c)'
    BY <1>1 DEF Pending
  <2>3. \A a : TagOf(a, c)' = TagOf(a, c)
    BY <1>1, <2>1 DEF TagOf, Placed
  <2>4. IF kind = "storage"
        THEN place[c] < at \/ phase = "done" =>
               \E r \in AnswerStates : <<<<place[c], place[c]>>, c, r>> \in answers
        ELSE \A e \in entries : e[2] = ParentOf[c] => Pending(TagOf(e[1], c), c)
    BY DEF LeafInv, ChildInv
  <2>5. CASE kind = "storage"
    BY <2>1, <2>4, <2>5
  <2>6. CASE kind # "storage"
    BY <2>2, <2>3, <2>4, <2>6
  <2> QED
    BY <2>5, <2>6
<1> QED
  BY <1>4, <1>5, <1>6, <1>7, <1>8, <1>9, <1>10 DEF LeafInv

\* Whatever changes: an item that moves or ends, and a child that moves, is no longer steady.
LEMMA TenancyKeeps == LeafInv /\ Tenancy => LeafInv'
<1> SUFFICES ASSUME LeafInv, Tenancy
             PROVE  LeafInv'
  OBVIOUS
<1>1. /\ life \in [Item -> {"live", "terminal", "purged"}] /\ home \in [Item -> Compartment]
      /\ state \in [Child -> States(kind)] /\ place \in [Child -> Compartment]
      /\ kind \in Kinds /\ "none" \in States(kind)
      /\ \A i \in Item \cap steady : life[i] = "live"
      /\ kind = "object_storage" => \A i \in Item : life[i] = "live"
  BY StatesAre DEF LeafInv, LeafTypeInv, PastOK
<1>2. ASSUME NEW i \in Item, Terminate(i)
      PROVE  LeafInv'
  <2>1. PICK s0 \in {"none", "gone"} \cap States(kind) :
          Become([life EXCEPT ![i] = "terminal"], home,
                 [c \in Child |-> IF ParentOf[c] = i /\ state[c] # "none" THEN s0 ELSE state[c]], place, {i})
    BY <1>2 DEF Terminate
  <2>2. [life EXCEPT ![i] = "terminal"] \in [Item -> {"live", "terminal", "purged"}]
    BY <1>1
  <2>3. [c \in Child |-> IF ParentOf[c] = i /\ state[c] # "none" THEN s0 ELSE state[c]] \in [Child -> States(kind)]
    BY <1>1
  <2>4. kind # "object_storage" /\ \A c \in Child : c \notin {i}
    BY <1>2 DEF Terminate
  <2>5. \A j \in Item \cap (steady \ {i}) : [life EXCEPT ![i] = "terminal"][j] = "live" /\ home[j] = home[j]
    BY <1>1
  <2>6. {i} \in SUBSET (Item \cup Child) /\ \A c \in Child \cap (steady \ {i}) : place[c] = place[c]
    OBVIOUS
  <2> QED
    BY <2>1, <2>2, <2>3, <2>4, <2>5, <2>6, <1>1, BecomeKeeps
<1>3. ASSUME NEW i \in Item, Purge(i)
      PROVE  LeafInv'
  <2>1. life[i] = "terminal" /\ Become([life EXCEPT ![i] = "purged"], home, state, place, {})
    BY <1>3 DEF Purge
  <2>2. [life EXCEPT ![i] = "purged"] \in [Item -> {"live", "terminal", "purged"}]
    BY <1>1
  <2>3. kind # "object_storage"
    BY <1>1, <2>1
  <2>4. \A j \in Item \cap steady : [life EXCEPT ![i] = "purged"][j] = "live"
    BY <1>1, <2>1
  <2> QED
    BY <2>1, <2>2, <2>3, <2>4, <1>1, BecomeKeeps
<1>4. ASSUME NEW i \in Item, NEW c \in Compartment, Move(i, c)
      PROVE  LeafInv'
  <2>1. kind # "object_storage" /\ Become(life, [home EXCEPT ![i] = c], state, place, {i})
    BY <1>4 DEF Move
  <2>2. [home EXCEPT ![i] = c] \in [Item -> Compartment]
    BY <1>1
  <2>3. \A d \in Child : d \notin {i}
    OBVIOUS
  <2>4. \A j \in Item \cap (steady \ {i}) : life[j] = "live" /\ [home EXCEPT ![i] = c][j] = home[j]
    BY <1>1
  <2>5. {i} \in SUBSET (Item \cup Child) /\ \A d \in Child \cap (steady \ {i}) : place[d] = place[d]
    OBVIOUS
  <2> QED
    BY <2>1, <2>2, <2>3, <2>4, <2>5, <1>1, BecomeKeeps
<1>5. ASSUME NEW c \in Child, NEW s \in States(kind), ChangeChild(c, s)
      PROVE  LeafInv'
  <2>1. Become(life, home, [state EXCEPT ![c] = s], place, {})
    BY <1>5 DEF ChangeChild
  <2>2. [state EXCEPT ![c] = s] \in [Child -> States(kind)]
    BY <1>1, <1>5
  <2> QED
    BY <2>1, <2>2, <1>1, BecomeKeeps
<1>6. ASSUME NEW c \in Child, NEW p \in Compartment, MoveChild(c, p)
      PROVE  LeafInv'
  <2>1. kind \in {"kms_vault", "object_storage"} /\ Become(life, home, state, [place EXCEPT ![c] = p], {c})
    BY <1>6 DEF MoveChild
  <2>2. [place EXCEPT ![c] = p] \in [Child -> Compartment]
    BY <1>1
  <2>3. \A i \in Item : i \notin {c}
    OBVIOUS
  <2>4. \A d \in Child \cap (steady \ {c}) : [place EXCEPT ![c] = p][d] = place[d]
    BY <1>1
  <2>5. {c} \in SUBSET (Item \cup Child) /\ \A i \in Item \cap (steady \ {c}) : life[i] = "live" /\ home[i] = home[i]
    BY <1>1
  <2> QED
    BY <2>1, <2>2, <2>3, <2>4, <2>5, <1>1, BecomeKeeps
<1> QED
  BY <1>2, <1>3, <1>4, <1>5, <1>6 DEF Tenancy

\* LeafInv holds in every reachable state.
THEOREM LeafInvariance == LeafSpec => []LeafInv
<1>1. ASSUME LeafInv, [LeafNext]_leafVars
      PROVE  LeafInv'
  <2>1. CASE list_ip_sec_connections
    BY <1>1, <2>1, ListEachKeeps DEF list_ip_sec_connections
  <2>2. CASE list_ip_sec_connection_tunnels
    BY <1>1, <2>2, TunnelsKeep
  <2>3. CASE get_ip_sec_connection_tunnel
    BY <1>1, <2>3, TunnelKeeps
  <2>4. CASE list_network_security_groups
    BY <1>1, <2>4, ListEachKeeps DEF list_network_security_groups
  <2>5. CASE list_network_security_group_security_rules
    BY <1>1, <2>5, RulesKeep
  <2>6. CASE list_load_balancers
    BY <1>1, <2>6, LoadBalancersKeep
  <2>7. CASE get_backend_set_health \/ get_key \/ get_bucket
    BY <1>1, <2>7, AskForEachKeeps DEF get_backend_set_health, get_key, get_bucket
  <2>8. CASE list_vaults
    BY <1>1, <2>8, VaultsKeep
  <2>9. CASE list_keys
    BY <1>1, <2>9, NamesKeep DEF list_keys
  <2>10. CASE get_namespace
    BY <1>1, <2>10, NamespaceKeeps
  <2>11. CASE list_buckets
    <3>1. kind = "object_storage" /\ ListNames({j \in jobs : \A k \in jobs : j[1][2] <= k[1][2]})
      BY <2>11 DEF list_buckets
    <3>2. {j \in jobs : \A k \in jobs : j[1][2] <= k[1][2]} \subseteq jobs
      OBVIOUS
    <3> QED
      BY <1>1, <3>1, <3>2, NamesKeep
  <2>12. CASE list_volumes
    BY <1>1, <2>12, VolumesKeep
  <2>13. CASE list_volume_attachments
    BY <1>1, <2>13, AttachmentsKeep
  <2>14. CASE Joined
    BY <1>1, <2>14, JoinedKeeps
  <2>15. CASE Tenancy
    BY <1>1, <2>15, TenancyKeeps
  <2>16. CASE UNCHANGED leafVars
    <3>1. UNCHANGED <<tenancy, kind, phase, at, entries, jobs, gets, answers, complete, faults>>
      BY <2>16 DEF leafVars, collector
    <3>2. LeafTypeInv' /\ PhaseInv' /\ AnswerInv'
      BY <1>1, <3>1 DEF LeafInv, LeafTypeInv, PhaseInv, AnswerInv, tenancy
    <3>3. WorkInv'
      BY <1>1, <3>1, ListedStays, FromEntryStays DEF LeafInv, WorkInv
    <3>4. PastOK' /\ ItemInv'
      BY <1>1, <3>1, PastStays, ItemsStay DEF LeafInv
    <3>5. ChildInv'
      <4>1. \A a, c : Pending(TagOf(a, c), c) => Pending(TagOf(a, c), c)'
        BY <3>1, PendingStays
      <4> QED
        BY <1>1, <3>1, <4>1 DEF LeafInv, ChildInv, AskedFor, tenancy
    <3> QED
      BY <3>2, <3>3, <3>4, <3>5 DEF LeafInv
  <2> QED
    BY <1>1, <2>1, <2>2, <2>3, <2>4, <2>5, <2>6, <2>7, <2>8, <2>9, <2>10, <2>11, <2>12, <2>13,
       <2>14, <2>15, <2>16 DEF LeafNext, Collect
<1> QED
  BY <1>1, LeafInitKeeps, PTL DEF LeafSpec

-----------------------------------------------------------------------------
(* The leaf collectors: what the invariant says of the records.             *)

\* Types: every variable of the leaf collectors keeps its type, no child is answered for
\* twice under one tag, and nothing is left to do when the collector is done.
THEOREM LeafTypeCorrect == LeafSpec => []LeafTypeOK
<1>1. ASSUME LeafInv
      PROVE  LeafTypeOK
  <2>1. phase \in {"list", "children", "attachments", "get", "done"} /\ at \in Compartment
    BY <1>1 DEF LeafInv, PhaseInv
  <2>2. phase = "done" => jobs = {} /\ gets = {}
    BY <1>1 DEF LeafInv, PhaseInv
  <2>3. \A t, u \in answers : t[1] = u[1] /\ t[2] = u[2] => t = u
    BY <1>1 DEF LeafInv, WorkInv
  <2> QED
    BY <1>1, <2>1, <2>2, <2>3 DEF LeafInv, LeafTypeInv, LeafTypeOK
<1> QED
  BY <1>1, LeafInvariance, PTL

\* When all is delivered, every answer was true at some moment.
LEMMA AnswersWereTrue ==
  ASSUME LeafInv, deliverable
  PROVE  /\ phase = "done" /\ complete /\ jobs = {} /\ gets = {}
         /\ \A t \in answers : /\ t = <<t[1], t[2], t[3]>> /\ t[1] \in Tag /\ t[2] \in Child
                               /\ t[3] \in been[t[2]] /\ t[3] \in {"none", "up", "down", "gone"}
<1>1. phase = "done" /\ complete /\ jobs = {} /\ gets = {}
  BY DEF deliverable, LeafInv, PhaseInv
<1>2. \A t \in answers : t = <<t[1], t[2], t[3]>> /\ t[1] \in Tag /\ t[2] \in Child
  BY DEF LeafInv, LeafTypeInv
<1>3. \A t \in answers : t[3] \in been[t[2]]
  BY <1>1 DEF LeafInv, AnswerInv
<1>4. \A c \in Child : been[c] \subseteq {"none", "up", "down", "gone"}
  <2>1. been \in [Child -> SUBSET States(kind)] /\ States(kind) \subseteq {"none", "up", "down", "gone"}
    BY StatesAre DEF LeafInv, LeafTypeInv
  <2> QED
    BY <2>1
<1> QED
  BY <1>1, <1>2, <1>3, <1>4

\* What is uploaded of a child was true of it at some moment of the run: whatever the
\* joins of build_flat_records do, they join answers, and no answer that a tunnel without
\* its status still stands for is left when every call has succeeded.
THEOREM Reporting == LeafSpec => []ReportedIsSeen
<1>1. ASSUME LeafInv, deliverable
      PROVE  \A f \in Reported : f[2] \in been[f[1]]
  <2>1. \A t \in answers : t[3] \in been[t[2]]
    BY <1>1, AnswersWereTrue
  <2>2. \A i : \A t \in rules(i) : t \in answers
    BY DEF rules
  <2>3. \A c : \A t \in health(c) : t \in answers /\ t[2] = c
    BY DEF health, Last
  <2>4. kind \in Kinds
    BY <1>1 DEF LeafInv, LeafTypeInv
  <2>5. CASE kind = "vpn"
    BY <2>1, <2>5 DEF Reported
  <2>6. CASE kind = "networking"
    BY <2>1, <2>2, <2>6 DEF Reported
  <2>7. CASE kind = "load_balancer"
    BY <2>1, <2>3, <2>7 DEF Reported
  <2>8. CASE kind \in {"kms_vault", "object_storage"}
    BY <2>1, <2>8 DEF Reported
  <2>9. CASE kind = "storage"
    BY <2>1, <2>9 DEF Reported
  <2> QED
    BY <2>4, <2>5, <2>6, <2>7, <2>8, <2>9 DEF Kinds
<1> QED
  BY <1>1, LeafInvariance, PTL DEF ReportedIsSeen

\* Where a steady item was listed, and that it was.
LEMMA SteadyIsListed ==
  ASSUME LeafInv, deliverable, NEW i \in Item \cap steady
  PROVE  /\ i \in kept
         /\ \E a \in Compartment : /\ <<a, i, "live">> \in entries
                                   /\ \A e \in entries : e[2] = i => e = <<a, i, "live">>
<1>1. phase = "done" /\ complete
  BY DEF deliverable
<1>2. home[i] \in Compartment /\ 1 \in Compartment
  BY DEF LeafInv, LeafTypeInv, Compartment
<1>3. CASE kind # "object_storage"
  <2>1. at = Compartments /\ home[i] \in Nat /\ home[i] <= at
    BY <1>1, <1>2, <1>3 DEF LeafInv, PhaseInv, Compartment
  <2>2. ListedIn(home[i])
    BY <1>1, <1>3, <2>1 DEF ListedIn
  <2>3. /\ <<home[i], i, "live">> \in entries
        /\ \A e \in entries : e[2] = i => e = <<home[i], i, "live">>
    BY <1>1, <1>3, <2>2 DEF LeafInv, ItemInv
  <2> QED
    BY <1>2, <2>3 DEF kept
<1>4. CASE kind = "object_storage"
  <2>1. <<1, i, "live">> \in entries
    BY <1>1, <1>4 DEF LeafInv, ItemInv
  <2>2. \A e \in entries : e = <<e[1], e[2], e[3]>> /\ e[1] = 1 /\ e[3] = "live"
    BY <1>4 DEF LeafInv, LeafTypeInv, ItemInv
  <2> QED
    BY <1>2, <2>1, <2>2 DEF kept
<1> QED
  BY <1>3, <1>4

\* A child there all the time is answered for by every listing of its item.
LEMMA SteadyIsAnswered ==
  ASSUME LeafInv, deliverable, kind # "storage",
         NEW c \in Child \cap steady, "none" \notin been[c], AskedFor(c),
         NEW a, NEW l, <<a, ParentOf[c], l>> \in entries
  PROVE  \E t \in answers : t = <<TagOf(a, c), c, t[3]>> /\ t[1][1] = a /\ t[2] = c /\ t[3] \in been[c]
<1>1. complete /\ jobs = {} /\ gets = {}
  BY AnswersWereTrue
<1>2. \A e \in entries : e[2] = ParentOf[c] => Pending(TagOf(e[1], c), c)
  BY <1>1 DEF LeafInv, ChildInv
<1>3. Pending(TagOf(a, c), c)
  BY <1>2
<1>4. PICK s \in AnswerStates : <<TagOf(a, c), c, s>> \in answers
  BY <1>1, <1>3 DEF Pending
<1>5. s \in been[c]
  BY <1>4, AnswersWereTrue
<1> DEFINE t == <<TagOf(a, c), c, s>>
<1>6. t[1] = TagOf(a, c) /\ t[2] = c /\ t[3] = s
  OBVIOUS
<1>7. t[1][1] = a
  BY <1>6 DEF TagOf
<1> QED
  BY <1>4, <1>5, <1>6, <1>7

\* What is uploaded leaves nothing out: a steady item has its record, and every child that
\* was there all the time is in it or has its own, whatever collector it is and however
\* its joins pick among the answers; but for the keys of vaults without an endpoint.
THEOREM Steadiness == LeafSpec => []SteadyIsReported
<1>1. ASSUME LeafInv, deliverable
      PROVE  Item \cap steady \subseteq kept
  BY <1>1, SteadyIsListed
<1>2. ASSUME LeafInv, deliverable, NEW c \in Child \cap steady,
             ParentOf[c] \in steady, been[c] \subseteq {"up", "down"}, AskedFor(c)
      PROVE  \E s \in {"up", "down"} : <<c, s>> \in Reported
  <2> DEFINE i == ParentOf[c]
  <2>1. i \in Item \cap steady /\ "none" \notin been[c]
    BY <1>2
  <2>2. i \in kept
    BY <1>2, <2>1, SteadyIsListed
  <2>3. PICK a \in Compartment : /\ <<a, i, "live">> \in entries
                                 /\ \A e \in entries : e[2] = i => e = <<a, i, "live">>
    BY <1>2, <2>1, SteadyIsListed
  <2>4. kind \in Kinds
    BY <1>2 DEF LeafInv, LeafTypeInv
  <2>5. \A t \in answers : t[2] = c => t[3] \in {"up", "down"}
    BY <1>2, AnswersWereTrue
  <2>6. CASE kind = "storage"
    <3>1. PICK s \in AnswerStates : <<<<place[c], place[c]>>, c, s>> \in answers
      BY <1>2, <2>1, <2>6, AnswersWereTrue DEF LeafInv, ChildInv
    <3>2. s \in {"up", "down"}
      BY <3>1, <2>5
    <3>3. <<c, s>> \in Reported
      BY <3>1, <2>2, <2>6 DEF Reported
    <3> QED
      BY <3>2, <3>3
  <2>7. CASE kind # "storage"
    <3>1. PICK t \in answers : t[1][1] = a /\ t[2] = c
      BY <1>2, <2>1, <2>3, <2>7, SteadyIsAnswered
    <3>2. t[3] \in {"up", "down"}
      BY <3>1, <2>5
    <3>3. \A u \in answers : u[2] = c => u[1][1] = a
      <4>1. \A u \in answers : \E l \in {"live", "terminal"} : <<u[1][1], ParentOf[u[2]], l>> \in entries
        BY <1>2, <2>7 DEF LeafInv, WorkInv, FromEntry
      <4> QED
        BY <4>1, <2>3
    <3>4. CASE kind = "vpn"
      BY <3>1, <3>2, <3>4, <2>2 DEF Reported
    <3>5. CASE kind = "networking"
      <4>1. Listings(i) = {a}
        BY <2>3 DEF Listings
      <4>2. (CHOOSE b \in Listings(i) : \A d \in Listings(i) : d <= b) = a
        <5>1. a <= a
          BY DEF Compartment
        <5> QED
          BY <4>1, <5>1
      <4>3. t \in rules(i)
        BY <3>1, <4>2 DEF rules
      <4> QED
        BY <3>1, <3>2, <3>5, <4>3, <2>2 DEF Reported
    <3>6. CASE kind = "load_balancer"
      <4>1. c \in backend_sets
        BY <3>1, <2>3 DEF backend_sets
      <4>2. t \in health(c)
        <5>1. a <= a
          BY DEF Compartment
        <5> QED
          BY <3>1, <3>3, <5>1 DEF health, Last
      <4> QED
        BY <3>2, <3>6, <4>1, <4>2 DEF Reported
    <3>7. CASE kind \in {"kms_vault", "object_storage"}
      BY <3>1, <3>2, <3>7 DEF Reported
    <3> QED
      BY <2>4, <2>7, <3>4, <3>5, <3>6, <3>7 DEF Kinds
  <2> QED
    BY <2>6, <2>7
<1>3. LeafInv => SteadyIsReported
  BY <1>1, <1>2 DEF SteadyIsReported
<1> QED
  BY <1>3, LeafInvariance, PTL

\* The tunnels of a kept connection in one of the states U: at least those that were
\* always in S, at most those that ever were, once for each listing of the connection.
LEMMA TunnelsCounted ==
  ASSUME LeafInv, deliverable, kind = "vpn", NEW i \in kept,
         NEW S \in SUBSET {"up", "down"}, NEW U, U = S \/ U = S \cup {"unknown"}
  PROVE  /\ Cardinality(Always(i, S)) <= Cardinality(TunnelsIn(i, U))
         /\ Cardinality(TunnelsIn(i, U)) <= Cardinality(Listings(i)) * Cardinality(Ever(i, S))
<1> DEFINE T == TunnelsIn(i, U)
           L == Listings(i)
           E == Ever(i, S)
           A == Always(i, S)
<1>1. /\ \A t \in answers : /\ t[1] \in Tag /\ t[2] \in Child /\ t[3] \in been[t[2]]
                            /\ t[3] \in {"none", "up", "down", "gone"}
      /\ \A t \in T : t \in answers /\ ParentOf[t[2]] = i /\ t[3] \in S
  BY AnswersWereTrue DEF TunnelsIn
<1>2. IsFiniteSet(L) /\ IsFiniteSet(E) /\ IsFiniteSet(A)
  <2>1. IsFiniteSet(Compartment)
    BY FS_Interval DEF Compartment
  <2>2. L \in SUBSET Compartment /\ E \in SUBSET Child /\ A \in SUBSET Child
    BY DEF Listings, Ever, Always, ChildrenOf
  <2> QED
    BY <2>1, <2>2, FS_Subset
<1>3. IsFiniteSet(L \X E) /\ Cardinality(L \X E) = Cardinality(L) * Cardinality(E)
  BY <1>2, FS_Product
<1>4. IsFiniteSet(T) /\ Cardinality(T) <= Cardinality(L \X E)
  <2> DEFINE f == [t \in T |-> <<t[1][1], t[2]>>]
  <2>1. ASSUME NEW t \in T
        PROVE  t[1][1] \in L /\ t[1] = <<t[1][1], t[1][1]>> /\ t[2] \in E
    <3>1. FromEntry(t[1], i) /\ t[1] \in Tag
      BY <1>1 DEF LeafInv, WorkInv
    <3>2. t[1][2] = t[1][1] /\ t[1] = <<t[1][1], t[1][2]>> /\ t[1][1] \in Compartment
      BY <3>1 DEF FromEntry, Placed, Tag
    <3>3. t[1][1] \in L
      BY <3>1, <3>2 DEF FromEntry, Listings
    <3>4. t[2] \in E
      BY <1>1 DEF Ever, ChildrenOf
    <3> QED
      BY <3>2, <3>3, <3>4
  <2>2. f \in [T -> L \X E]
    BY <2>1
  <2>3. ASSUME NEW t \in T, NEW u \in T, f[t] = f[u]
        PROVE  t = u
    <3>1. t[1][1] = u[1][1] /\ t[2] = u[2]
      BY <2>3
    <3>2. t[1] = u[1]
      BY <2>1, <3>1
    <3> QED
      BY <3>1, <3>2, <1>1 DEF LeafInv, WorkInv
  <2>4. f \in Injection(T, L \X E)
    BY <2>2, <2>3 DEF Injection, IsInjective
  <2> HIDE DEF f, T, L, E
  <2> QED
    BY <2>4, <1>3, FS_Injection
<1>5. Cardinality(A) <= Cardinality(T)
  <2> DEFINE f == [c \in A |-> CHOOSE t \in T : t[2] = c]
  <2>1. ASSUME NEW c \in A
        PROVE  \E t \in T : t[2] = c
    <3>1. /\ c \in Child \cap steady /\ ParentOf[c] = i /\ been[c] \subseteq S /\ "none" \notin been[c]
          /\ AskedFor(c)
      BY DEF Always, AskedFor, ChildrenOf, LeafInv, PastOK
    <3>2. PICK a \in Compartment : <<a, i, "live">> \in entries
      BY DEF kept
    <3>3. PICK t \in answers : t[2] = c /\ t[3] \in been[c]
      BY <3>1, <3>2, SteadyIsAnswered
    <3>4. t \in T
      BY <3>1, <3>3 DEF TunnelsIn
    <3> QED
      BY <3>3, <3>4
  <2>2. \A c \in A : f[c] \in T /\ f[c][2] = c
    BY <2>1
  <2>3. f \in [A -> T] /\ \A c, d \in A : f[c] = f[d] => c = d
    BY <2>2
  <2>4. f \in Injection(A, T)
    BY <2>3 DEF Injection, IsInjective
  <2> HIDE DEF f, T, A
  <2> QED
    BY <2>4, <1>4, FS_Injection
<1> QED
  BY <1>3, <1>4, <1>5

\* The tunnel counts uploaded of a connection lie between the tunnels that were there, or
\* up, all the time and those that ever were, each counted once per listing.
THEOREM Counts == LeafSpec => []CountsAreSeen
<1>1. ASSUME LeafInv, kind = "vpn", deliverable, NEW i \in kept
      PROVE  /\ Cardinality(Always(i, {"up", "down"})) <= tunnel_count(i)
             /\ tunnel_count(i) <= Cardinality(Listings(i)) * Cardinality(Ever(i, {"up", "down"}))
             /\ Cardinality(Always(i, {"up"})) <= up_tunnel_count(i)
             /\ up_tunnel_count(i) <= Cardinality(Listings(i)) * Cardinality(Ever(i, {"up"}))
  <2>1. {"up", "down", "unknown"} = {"up", "down"} \cup {"unknown"}
    OBVIOUS
  <2>2. {"up"} \in SUBSET {"up", "down"} /\ {"up", "down"} \in SUBSET {"up", "down"}
    OBVIOUS
  <2>3. tunnel_count(i) = Cardinality(TunnelsIn(i, {"up", "down", "unknown"}))
    BY DEF tunnel_count
  <2>4. up_tunnel_count(i) = Cardinality(TunnelsIn(i, {"up"}))
    BY DEF up_tunnel_count
  <2>5. /\ Cardinality(Always(i, {"up", "down"})) <= tunnel_count(i)
        /\ tunnel_count(i) <= Cardinality(Listings(i)) * Cardinality(Ever(i, {"up", "down"}))
    BY <1>1, <2>1, <2>2, <2>3, TunnelsCounted
  <2>6. /\ Cardinality(Always(i, {"up"})) <= up_tunnel_count(i)
        /\ up_tunnel_count(i) <= Cardinality(Listings(i)) * Cardinality(Ever(i, {"up"}))
    BY <1>1, <2>2, <2>4, TunnelsCounted
  <2> QED
    BY <2>5, <2>6
<1>2. LeafInv => CountsAreSeen
  BY <1>1 DEF CountsAreSeen
<1> QED
  BY <1>2, LeafInvariance, PTL
=============================================================================
