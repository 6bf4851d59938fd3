------------------------------ MODULE OciCall ------------------------------
(***************************************************************************)
(* One collector thread executing its OCI operations one after another     *)
(* under a shared RetryPolicy: paginate and call_once (pagination.py), and *)
(* compute's _lookup_public_ip, which has a retry loop of its own.         *)
(*                                                                         *)
(* An operation is a record [kind, pages]: the calling convention and what *)
(* the service would return for it, one set of items per page.  Time is a  *)
(* natural number; a request and a backoff sleep take a bounded time, and  *)
(* every deadline test reads the clock exactly where the code does.        *)
(***************************************************************************)
EXTENDS Naturals, Sequences, FiniteSets

CONSTANTS
  Operation,     \* the operations a thread may be asked to execute
  Plans,         \* the sequences of operations to consider
  MaxAttempts,   \* RetryPolicy.max_attempts
  MaxDelay,      \* RetryPolicy.max_delay_seconds
  MaxCall,       \* the longest one HTTP request can take
  Deadlines,     \* the values of RetryPolicy.deadline when --test sets one
  NoDeadline     \* RetryPolicy.deadline = None: no time budget

\* The calling conventions: two loops of pagination.py and the one of compute.py.
CallKinds == {"paginate", "call_once", "public_ip"}

\* Every item some operation can return.
AnyItem == UNION {UNION {op.pages[i] : i \in 1..Len(op.pages)} : op \in Operation}

ASSUME OperationAssumption ==
  \A op \in Operation :
    /\ op.kind \in CallKinds
    /\ op.pages \in Seq(SUBSET AnyItem)
    /\ Len(op.pages) >= 1
    /\ op.kind # "paginate" => Len(op.pages) = 1
ASSUME PlansAssumption == Plans \subseteq Seq(Operation)
ASSUME AttemptsAssumption == MaxAttempts \in Nat \ {0}
ASSUME TimeAssumption == MaxDelay \in Nat /\ MaxCall \in Nat /\ Deadlines \subseteq Nat
ASSUME NoDeadlineAssumption == NoDeadline \notin Nat

-----------------------------------------------------------------------------
(* The service's answers and how they are classified.                       *)

RETRYABLE_409_CODES == {"IncorrectState", "LockConflict"}

\* A ServiceError the code can tell from another one: its status, and the code of a 409.
ServiceError == [status : {404, 409, 429, 500, 501, 503}, code : RETRYABLE_409_CODES \cup {"other"}]

is_retryable_service_error(e) ==
  \/ e.status = 409 /\ e.code \in RETRYABLE_409_CODES
  \/ e.status = 429
  \/ e.status >= 500 /\ e.status # 501

-----------------------------------------------------------------------------
VARIABLES
  plan,      \* the operations to execute, in order
  deadline,  \* policy.deadline
  clock,     \* time.monotonic()
  pc,        \* "top" of the loop, request "inflight", "backoff" sleep, or "done"
  results,   \* the OperationResults of the finished operations
  page,      \* page_count of the current operation
  items,     \* result.items of the current operation
  attempt,   \* attempt of the current request, from 0
  late       \* history: requests sent after the deadline had passed

vars == <<plan, deadline, clock, pc, results, page, items, attempt, late>>

current == plan[Len(results) + 1]

\* The time budget is ignored.
NeverExceeded(now) == FALSE

deadline_exceeded(now) == deadline # NoDeadline /\ now > deadline

\* Everything the service holds for an operation.
Listing(op) == UNION {op.pages[i] : i \in 1..Len(op.pages)}

operations_complete(rs) == \A i \in 1..Len(rs) : rs[i].status \notin {"failed", "unsupported"}

Init ==
  /\ plan \in Plans
  /\ deadline \in Deadlines \cup {NoDeadline}
  /\ clock = 0
  /\ pc = IF plan = <<>> THEN "done" ELSE "top"
  /\ results = <<>>
  /\ page = 0 /\ items = {} /\ attempt = 0 /\ late = 0

\* The current operation returns; the thread goes on with the next one of its plan.
Return(status, collected) ==
  /\ results' = Append(results, [status |-> status, items |-> collected])
  /\ page' = 0 /\ items' = {} /\ attempt' = 0
  /\ pc' = IF Len(results) + 1 = Len(plan) THEN "done" ELSE "top"

\* A request leaves at time `now`.
Request(now) ==
  /\ pc' = "inflight"
  /\ late' = IF deadline # NoDeadline /\ now > deadline THEN late + 1 ELSE late

\* The check at the top of every loop: out of time, so the pages read so far
\* stay in result.items but the operation is failed.
CutShort ==
  /\ pc = "top"
  /\ deadline_exceeded(clock)
  /\ Return("failed", items)
  /\ UNCHANGED <<plan, deadline, clock, late>>

Call ==
  /\ pc = "top"
  /\ ~deadline_exceeded(clock)
  /\ Request(clock)
  /\ UNCHANGED <<plan, deadline, clock, results, page, items, attempt>>

\* A listing that takes a page without items for the end.
EndsAtEmptyPage(n) == n = Len(current.pages) \/ current.pages[n] = {}

\* Page n came without an opc-next-page token.
IsLastPage(n) == n = Len(current.pages)

\* The service returns the next page, which may be empty and still carry a
\* token; without a token the operation has succeeded.
Answer ==
  \E d \in 0..MaxCall :
    /\ pc = "inflight"
    /\ clock' = clock + d
    /\ IF IsLastPage(page + 1)
       THEN Return("success", items \cup current.pages[page + 1])
       ELSE /\ items' = items \cup current.pages[page + 1]
            /\ page' = page + 1 /\ attempt' = 0 /\ pc' = "top"
            /\ UNCHANGED results
    /\ UNCHANGED <<plan, deadline, late>>

\* _lookup_public_ip reads a 404 as "no public IP assigned": a success without items.
\* OCI gives the same status to a caller that may not read the address.
NotFoundMeansNone ==
  \E d \in 0..MaxCall :
    /\ pc = "inflight" /\ current.kind = "public_ip"
    /\ clock' = clock + d
    /\ Return("success", {})
    /\ UNCHANGED <<plan, deadline, late>>

\* An attempt count compared with max_attempts, not max_attempts - 1.
OneAttemptTooMany(retryable, now) ==
  ~retryable \/ attempt >= MaxAttempts \/ deadline_exceeded(now)

\* A retry loop that leaves the deadline to its caller's next check.
SleepsPastTheDeadline(retryable, now) == ~retryable \/ attempt >= MaxAttempts - 1

\* Whether a request that failed at time `now` is the operation's last: only
\* pagination.py's loop looks at the deadline before it sleeps.
GivesUp(retryable, now) ==
  \/ ~retryable
  \/ attempt >= MaxAttempts - 1
  \/ current.kind # "public_ip" /\ deadline_exceeded(now)

\* The request in flight fails after d: give up, or sleep before the next attempt.
Fail(retryable, d) ==
  /\ pc = "inflight"
  /\ clock' = clock + d
  /\ IF GivesUp(retryable, clock + d)
     THEN Return("failed", items)
     ELSE pc' = "backoff" /\ UNCHANGED <<results, page, items, attempt>>
  /\ UNCHANGED <<plan, deadline, late>>

Refuse ==
  \E d \in 0..MaxCall, e \in ServiceError :
    /\ Fail(is_retryable_service_error(e), d)
    /\ current.kind = "public_ip" => e.status # 404

\* ConnectTimeout and RequestException: no answer, and always retryable.
TransportError == \E d \in 0..MaxCall : Fail(TRUE, d)

\* A retry that is not counted.
NotCounted == attempt

NextAttempt == attempt + 1

\* The sleep ends.  _lookup_public_ip goes back to the top of its loop and its
\* deadline check; _invoke_with_retry repeats the request at once.
Wake ==
  \E d \in 0..MaxDelay :
    /\ pc = "backoff"
    /\ clock' = clock + d
    /\ attempt' = NextAttempt
    /\ IF current.kind = "public_ip"
       THEN pc' = "top" /\ UNCHANGED late
       ELSE Request(clock + d)
    /\ UNCHANGED <<plan, deadline, results, page, items>>

Terminated == pc = "done" /\ UNCHANGED vars

Step == CutShort \/ Call \/ Answer \/ NotFoundMeansNone \/ Refuse \/ TransportError \/ Wake

Next == Step \/ Terminated

Spec == Init /\ [][Next]_vars /\ WF_vars(Step)

-----------------------------------------------------------------------------
(* Properties.                                                              *)

Result == [status : {"success", "failed"}, items : SUBSET AnyItem]

\* Every variable keeps its type; in particular no request is attempted more
\* than max_attempts times and no more pages are read than the service has.
TypeOK ==
  /\ plan \in Plans
  /\ deadline \in Deadlines \cup {NoDeadline}
  /\ clock \in Nat
  /\ pc \in {"top", "inflight", "backoff", "done"}
  /\ results \in Seq(Result)
  /\ IF pc = "done" THEN Len(results) = Len(plan) ELSE Len(results) < Len(plan)
  /\ pc # "done" => page < Len(current.pages)
  /\ page \in Nat
  /\ items \in SUBSET AnyItem
  /\ attempt \in 0..(MaxAttempts - 1)
  /\ late \in Nat

\* A thread whose operations count as complete has read all of what the service
\* holds: no page lost to an empty page before it, to a retry, or to a time
\* budget that ran out between two pages.  (_lookup_public_ip is left out: its
\* 404 is a success whatever the caller was not allowed to see.)
CompleteMeansWhole ==
  pc = "done" /\ operations_complete(results) =>
    \A i \in 1..Len(plan) :
      plan[i].kind # "public_ip" => results[i].items = Listing(plan[i])

\* --test winds down: whatever the plan, a thread sends at most one request
\* after the time budget has passed (the one whose backoff sleep crossed it).
AtMostOneLateRequest == late <= 1

\* ... and ends within one sleep and one request of the budget.
WindsDownInTime ==
  deadline # NoDeadline => clock <= deadline + MaxDelay + MaxCall

\* Under a service that always answers or times out, the thread ends.
Terminates == <>(pc = "done")

=============================================================================
