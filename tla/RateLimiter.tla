----------------------------- MODULE RateLimiter -----------------------------
(***************************************************************************)
(* The rate limit a sponsorship request passes before it queues for the    *)
(* allocation lock: assertSponsorScope and assertSponsorRateLimit of       *)
(* packages/backend/src/services/contract-service.ts.  A request charges   *)
(* the counter of its DUST address and then that of its IP address, each   *)
(* with a findOne and an updateOne that other requests may come between.   *)
(***************************************************************************)
EXTENDS Integers, Sequences, FiniteSets

CONSTANTS Requests,               \* numbers of the requests that may arrive
          DustAddresses, Ips,
          MaxPerDustAddress, MaxPerIp, WindowMs,  \* settings; a maximum of 0 or less is no limit
          NoLimit,                \* no counter document for a key
          MaxDelay,               \* bound on how long the database takes over a request
          MaxClock                \* bound on the time

ASSUME RateAssumption ==
    /\ Requests \subseteq Nat
    /\ MaxPerDustAddress \in Int /\ MaxPerIp \in Int
    /\ WindowMs \in Nat \ {0} /\ {MaxDelay, MaxClock} \subseteq Nat
    /\ 3 * MaxDelay <= WindowMs
    /\ NoLimit \notin [count : Nat, resetAt : Nat]

VARIABLES limits,      \* the counter documents by key
          requests,    \* where each request is
          clock,
          windows,     \* history: how often the counter of a key began at 1
          charges,     \* history: charges of a key since its counter last began at 1
          passes,      \* history: the charges of each key, by window, number and the request's time
          raced        \* history: keys whose document was read while a request had yet to write it

history == <<windows, charges, passes>>
rateVars == <<limits, requests, clock, history, raced>>

Keys == DustAddresses \cup Ips
LimitOf(key) == IF key \in DustAddresses THEN MaxPerDustAddress ELSE MaxPerIp
Entries == [count : Nat, resetAt : Nat]

\* The keys a request is to charge, those without a limit skipped; ip may be missing.
Checks(address, ip) ==
    LET limited(key) == IF LimitOf(key) > 0 THEN <<key>> ELSE <<>>
    IN limited(address) \o (IF ip = NoLimit THEN <<>> ELSE limited(ip))

RateInit ==
    /\ limits = [key \in Keys |-> NoLimit]
    /\ requests = [r \in Requests |-> [step |-> "new"]]
    /\ clock = 0
    /\ windows = [key \in Keys |-> 0]
    /\ charges = [key \in Keys |-> 0]
    /\ passes = [key \in Keys |-> {}]
    /\ raced = {}

\* The request's next await: its next check, or the allocation lock.
NextCheck(checks, now) ==
    IF checks = <<>> THEN [step |-> "allowed"]
                     ELSE [step |-> "reading", checks |-> checks, now |-> now]

\* Requests are numbered as they arrive.
Arrives(r) ==
    /\ requests[r].step = "new"
    /\ \A earlier \in Requests : earlier < r => requests[earlier].step # "new"

\* A scope that is not sponsored is refused before anything is read.
Ask(r) ==
    /\ Arrives(r)
    /\ \/ requests' = [requests EXCEPT ![r] = [step |-> "refused"]]
       \/ \E address \in DustAddresses, ip \in Ips \cup {NoLimit} :
            requests' = [requests EXCEPT ![r] = NextCheck(Checks(address, ip), clock)]
    /\ UNCHANGED <<limits, clock, history, raced>>

\* Mutant of Charged: the window is not added to the time it ends.
ChargedNoWindow(existing, now) ==
    IF existing # NoLimit /\ existing.resetAt > now
    THEN [existing EXCEPT !.count = @ + 1]
    ELSE [count |-> 1, resetAt |-> now]

\* The document a request that began at now is going to write over existing.
Charged(existing, now) ==
    IF existing # NoLimit /\ existing.resetAt > now
    THEN [existing EXCEPT !.count = @ + 1]
    ELSE [count |-> 1, resetAt |-> now + WindowMs]

Writing(key) == {r \in Requests : /\ requests[r].step = "writing"
                                  /\ Head(requests[r].checks) = key}

\* findOne answers: the request is refused, or writes what it has computed from the answer.
Read(r) ==
    /\ requests[r].step = "reading"
    /\ LET request == requests[r]
           key == Head(request.checks)
           entry == Charged(limits[key], request.now)
       IN /\ requests' = [requests EXCEPT ![r] =
                             IF entry.count > LimitOf(key)
                             THEN [step |-> "refused"]
                             ELSE [step |-> "writing", checks |-> request.checks,
                                   now |-> request.now, entry |-> entry]]
          /\ raced' = IF Writing(key) = {} THEN raced ELSE raced \cup {key}
    /\ UNCHANGED <<limits, clock, history>>

Charge(key, entry, now) ==
    /\ limits' = [limits EXCEPT ![key] = entry]
    /\ windows' = [windows EXCEPT ![key] = IF entry.count = 1 THEN @ + 1 ELSE @]
    /\ charges' = [charges EXCEPT ![key] = IF entry.count = 1 THEN 1 ELSE @ + 1]
    /\ passes' = [passes EXCEPT ![key] =
                     @ \cup {[window |-> windows'[key], nth |-> charges'[key], time |-> now]}]

Write(r) ==
    /\ requests[r].step = "writing"
    /\ LET request == requests[r]
       IN /\ Charge(Head(request.checks), request.entry, request.now)
          /\ requests' = [requests EXCEPT ![r] = NextCheck(Tail(request.checks), request.now)]
    /\ UNCHANGED <<clock, raced>>

\* A database error, of an update that was applied or was not.
RequestFails(r) ==
    /\ requests[r].step \in {"reading", "writing"}
    /\ requests' = [requests EXCEPT ![r] = [step |-> "failed"]]
    /\ LET request == requests[r]
       IN \/ /\ request.step = "writing"
             /\ Charge(Head(request.checks), request.entry, request.now)
          \/ UNCHANGED <<limits, history>>
    /\ UNCHANGED <<clock, raced>>

\* The TTL index removes a document some time after resetAt.
Expire(key) ==
    /\ limits[key] # NoLimit
    /\ limits[key].resetAt <= clock
    /\ limits' = [limits EXCEPT ![key] = NoLimit]
    /\ UNCHANGED <<requests, clock, history, raced>>

\* Time passes; the database is done with a request within a third of the window.
Tick ==
    /\ clock < MaxClock
    /\ \A r \in Requests : requests[r].step \in {"reading", "writing"}
                            => clock < requests[r].now + MaxDelay
    /\ clock' = clock + 1
    /\ UNCHANGED <<limits, requests, history, raced>>

\* The requests a process drops when it exits.
DropRequests ==
    /\ requests' = [r \in Requests |-> IF requests[r].step \in {"reading", "writing"}
                                       THEN [step |-> "failed"] ELSE requests[r]]
    /\ UNCHANGED <<limits, clock, history, raced>>

RateNext ==
    \/ \E r \in Requests : Ask(r) \/ Read(r) \/ Write(r) \/ RequestFails(r)
    \/ \E key \in Keys : Expire(key)

RateSpec == RateInit /\ [][RateNext \/ Tick \/ DropRequests]_rateVars
-----------------------------------------------------------------------------
(* Properties *)

\* No counter exceeds its maximum; it counts what was charged to its key since it began at 1,
\* unless two requests read it before either wrote (contract-service.ts:443-462).
CounterHonest ==
    \A key \in Keys : limits[key] # NoLimit =>
        /\ limits[key].count \in 1 .. LimitOf(key)
        /\ key \in raced \/ limits[key].count = charges[key]

\* Without such an overlap a key passes less than three times its maximum in any stretch as long as
\* the window: the end of one window, a second one, and the beginning of a third, since a request
\* that is delayed past the end of a window counts for the next one with its own, earlier time
\* (contract-service.ts:443-460).
Passed(key, start) == {p \in passes[key] : p.time \in start .. start + WindowMs - 1}

WindowKept ==
    \A key \in Keys \ raced : \A start \in 0 .. MaxClock :
        LimitOf(key) > 0 => Cardinality(Passed(key, start)) < 3 * LimitOf(key)

=============================================================================
