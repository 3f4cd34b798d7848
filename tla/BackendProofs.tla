---------------------------- MODULE BackendProofs ----------------------------
(***************************************************************************)
(* Proofs about two parts of the backend that share no state: RateLimiter, *)
(* for any addresses, limits, window and number of concurrent requests,    *)
(* and DeployService, for any addresses and any number of exits, at        *)
(* whichever await.                                                        *)
(***************************************************************************)
EXTENDS RateLimiter, DeployService, FiniteSetTheorems, SequenceTheorems, TLAPS

USE RateAssumption, DeployAssumption DEF RateAssumption, DeployAssumption

-----------------------------------------------------------------------------
(* RateLimiter *)

CheckLists == {checks \in Seq(Keys) : checks # <<>>}
ReadingRequests == [step : {"reading"}, checks : CheckLists, now : Nat]
WritingRequests == [step : {"writing"}, checks : CheckLists, now : Nat, entry : Entries]
SettledRequests == [step : {"new", "refused", "allowed", "failed"}]

RateTypeOK ==
    /\ limits \in [Keys -> {NoLimit} \cup Entries]
    /\ requests \in [Requests -> ReadingRequests \cup WritingRequests \cup SettledRequests]
    /\ clock \in Nat
    /\ charges \in [Keys -> Nat]
    /\ raced \subseteq Keys

Writes(r, key) == requests[r].step = "writing" /\ Head(requests[r].checks) = key

\* What a request is about to write is below the maximum and, unless another one has read the
\* same counter, begins the count again or is one more than what was charged.
WritesHonest ==
    \A r \in Requests, key \in Keys : Writes(r, key) =>
        /\ requests[r].entry.count \in 1 .. LimitOf(key)
        /\ key \in raced \/ requests[r].entry.count \in {1, charges[key] + 1}

\* A counter that was not raced is being written by one request at most.
OneWriter ==
    \A r1, r2 \in Requests, key \in Keys :
        Writes(r1, key) /\ Writes(r2, key) => r1 = r2 \/ key \in raced

RateInv == RateTypeOK /\ CounterHonest /\ WritesHonest /\ OneWriter

-----------------------------------------------------------------------------
(* Lemmas *)

LEMMA LimitIsInt == \A key : LimitOf(key) \in Int
BY DEF LimitOf

LEMMA RequestShape ==
    ASSUME RateTypeOK, NEW r \in Requests
    PROVE  /\ requests[r].step = "reading" => requests[r] \in ReadingRequests
           /\ requests[r].step = "writing" => requests[r] \in WritingRequests
BY DEF RateTypeOK, ReadingRequests, WritingRequests, SettledRequests

\* A request goes on to its next check or is allowed; it writes nothing yet.
LEMMA NextCheckShape ==
    ASSUME NEW checks \in Seq(Keys), NEW now \in Nat
    PROVE  /\ NextCheck(checks, now) \in ReadingRequests \cup SettledRequests
           /\ NextCheck(checks, now).step # "writing"
BY DEF NextCheck, ReadingRequests, SettledRequests, CheckLists

LEMMA ChecksAreKeys ==
    ASSUME NEW address \in DustAddresses, NEW ip \in Ips \cup {NoLimit}
    PROVE  Checks(address, ip) \in Seq(Keys)
<1> DEFINE first == IF LimitOf(address) > 0 THEN <<address>> ELSE <<>>
           second == IF ip = NoLimit THEN <<>> ELSE IF LimitOf(ip) > 0 THEN <<ip>> ELSE <<>>
<1>1. <<>> \in Seq(Keys)
  BY EmptySeq
<1>2. first \in Seq(Keys)
  <2>1. <<address>> \in Seq(Keys)
    BY DEF Keys
  <2> QED BY <1>1, <2>1
<1>3. second \in Seq(Keys)
  <2>1. CASE ip = NoLimit
    BY <1>1, <2>1
  <2>2. CASE ip # NoLimit
    <3>1. <<ip>> \in Seq(Keys)
      BY <2>2 DEF Keys
    <3> QED BY <1>1, <2>2, <3>1
  <2> QED BY <2>1, <2>2
<1>4. Checks(address, ip) = first \o second
  BY DEF Checks
<1> HIDE DEF first, second
<1> QED BY <1>2, <1>3, <1>4, ConcatProperties

LEMMA RateInitInv == RateInit => RateInv
<1> SUFFICES ASSUME RateInit PROVE RateInv
  OBVIOUS
<1>1. \A r \in Requests : requests[r] \in SettledRequests /\ requests[r].step = "new"
  BY DEF RateInit, SettledRequests
<1>2. RateTypeOK
  BY <1>1 DEF RateInit, RateTypeOK
<1> QED BY <1>1, <1>2 DEF RateInit, RateInv, CounterHonest, WritesHonest, OneWriter, Writes

\* Requests that only settle, or go to a step in which they write nothing, disturb nothing.
LEMMA SettleInv ==
    ASSUME RateInv, UNCHANGED <<limits, charges, raced>>, clock' \in Nat,
           requests' \in [Requests -> ReadingRequests \cup WritingRequests \cup SettledRequests],
           \A r \in Requests : requests'[r] = requests[r] \/ requests'[r].step # "writing"
    PROVE  RateInv'
<1>1. RateTypeOK' /\ CounterHonest'
  BY DEF RateInv, RateTypeOK, CounterHonest
<1>2. \A r \in Requests, key \in Keys : Writes(r, key)' => Writes(r, key) /\ requests'[r] = requests[r]
  BY DEF Writes
<1>3. WritesHonest' /\ OneWriter'
  BY <1>2 DEF RateInv, WritesHonest, OneWriter
<1> QED BY <1>1, <1>3 DEF RateInv

\* The counter of a key is charged by the request that writes it.
LEMMA ChargeInv ==
    ASSUME RateInv, NEW r \in Requests, requests[r].step = "writing",
           Charge(Head(requests[r].checks), requests[r].entry, requests[r].now),
           NEW next \in ReadingRequests \cup SettledRequests, next.step # "writing",
           requests' = [requests EXCEPT ![r] = next],
           UNCHANGED <<clock, raced>>
    PROVE  RateInv'
<1> DEFINE key == Head(requests[r].checks)
           entry == requests[r].entry
<1>1. requests[r] \in WritingRequests
  BY RequestShape DEF RateInv
<1>2. entry \in Entries /\ key \in Keys
  <2>1. requests[r].checks \in Seq(Keys) /\ requests[r].checks # <<>>
    BY <1>1 DEF WritingRequests, CheckLists
  <2> QED BY <1>1, <2>1, HeadTailProperties DEF WritingRequests
<1>3. /\ limits' = [limits EXCEPT ![key] = entry]
      /\ charges' = [charges EXCEPT ![key] = IF entry.count = 1 THEN 1 ELSE @ + 1]
  BY DEF Charge
<1>4. Writes(r, key) /\ LimitOf(key) \in Int
  BY LimitIsInt DEF Writes
<1>5. /\ entry.count \in 1 .. LimitOf(key)
      /\ key \in raced \/ entry.count \in {1, charges[key] + 1}
  BY <1>2, <1>4 DEF RateInv, WritesHonest
<1> HIDE DEF key, entry
<1>6. /\ limits'[key] = entry
      /\ charges'[key] = (IF entry.count = 1 THEN 1 ELSE charges[key] + 1)
      /\ \A k \in Keys : k # key => limits'[k] = limits[k] /\ charges'[k] = charges[k]
      /\ limits' \in [Keys -> {NoLimit} \cup Entries]
      /\ charges' \in [Keys -> Nat]
  BY <1>2, <1>3 DEF RateInv, RateTypeOK
<1>7. /\ \A s \in Requests : s # r => requests'[s] = requests[s]
      /\ requests'[r].step # "writing"
      /\ requests' \in [Requests -> ReadingRequests \cup WritingRequests \cup SettledRequests]
  BY DEF RateInv, RateTypeOK
<1>8. RateTypeOK'
  BY <1>6, <1>7 DEF RateInv, RateTypeOK
<1>9. CounterHonest'
  <2> SUFFICES ASSUME NEW k \in Keys, limits'[k] # NoLimit
               PROVE  /\ limits'[k].count \in 1 .. LimitOf(k)
                      /\ k \in raced' \/ limits'[k].count = charges'[k]
    BY DEF CounterHonest
  <2>1. CASE k = key
    BY <1>5, <1>6, <2>1
  <2>2. CASE k # key
    BY <1>6, <2>2 DEF RateInv, CounterHonest
  <2> QED BY <2>1, <2>2
<1>10. \A s \in Requests, k \in Keys : Writes(s, k)' =>
           s # r /\ Writes(s, k) /\ requests'[s] = requests[s]
  BY <1>7 DEF Writes
<1>11. WritesHonest'
  <2> SUFFICES ASSUME NEW s \in Requests, NEW k \in Keys, Writes(s, k)'
               PROVE  /\ requests'[s].entry.count \in 1 .. LimitOf(k)
                      /\ k \in raced' \/ requests'[s].entry.count \in {1, charges'[k] + 1}
    BY DEF WritesHonest
  <2>1. s # r /\ Writes(s, k) /\ requests'[s] = requests[s]
    BY <1>10
  <2>2. k = key => k \in raced
    BY <1>4, <2>1 DEF RateInv, OneWriter
  <2> QED BY <1>6, <2>1, <2>2 DEF RateInv, WritesHonest
<1>12. OneWriter'
  BY <1>10 DEF RateInv, OneWriter
<1> QED BY <1>8, <1>9, <1>11, <1>12 DEF RateInv

-----------------------------------------------------------------------------
(* Steps *)

LEMMA AskInv ==
    ASSUME RateInv, NEW r \in Requests, Ask(r)
    PROVE  RateInv'
<1>1. UNCHANGED <<limits, clock, charges, raced>>
  BY DEF Ask, history
<1>2. PICK next \in ReadingRequests \cup SettledRequests :
          requests' = [requests EXCEPT ![r] = next] /\ next.step # "writing"
  <2>1. CASE requests' = [requests EXCEPT ![r] = [step |-> "refused"]]
    <3> DEFINE next == [step |-> "refused"]
    <3>1. next \in SettledRequests /\ next.step # "writing"
      BY DEF SettledRequests
    <3>2. requests' = [requests EXCEPT ![r] = next]
      BY <2>1
    <3> HIDE DEF next
    <3> QED BY <3>1, <3>2
  <2>2. CASE \E address \in DustAddresses, ip \in Ips \cup {NoLimit} :
                 requests' = [requests EXCEPT ![r] = NextCheck(Checks(address, ip), clock)]
    <3>1. PICK address \in DustAddresses, ip \in Ips \cup {NoLimit} :
              requests' = [requests EXCEPT ![r] = NextCheck(Checks(address, ip), clock)]
      BY <2>2
    <3>2. Checks(address, ip) \in Seq(Keys) /\ clock \in Nat
      BY ChecksAreKeys DEF RateInv, RateTypeOK
    <3> DEFINE next == NextCheck(Checks(address, ip), clock)
    <3>3. next \in ReadingRequests \cup SettledRequests /\ next.step # "writing"
      BY <3>2, NextCheckShape
    <3>4. requests' = [requests EXCEPT ![r] = next]
      BY <3>1
    <3> HIDE DEF next
    <3> QED BY <3>3, <3>4
  <2> QED BY <2>1, <2>2 DEF Ask
<1>3. /\ requests' \in [Requests -> ReadingRequests \cup WritingRequests \cup SettledRequests]
      /\ \A s \in Requests : requests'[s] = requests[s] \/ requests'[s].step # "writing"
  BY <1>2 DEF RateInv, RateTypeOK
<1> QED BY <1>1, <1>3, SettleInv DEF RateInv, RateTypeOK

LEMMA WriteInv ==
    ASSUME RateInv, NEW r \in Requests, Write(r)
    PROVE  RateInv'
<1> DEFINE next == NextCheck(Tail(requests[r].checks), requests[r].now)
<1>1. /\ requests[r].step = "writing" /\ UNCHANGED <<clock, raced>>
      /\ Charge(Head(requests[r].checks), requests[r].entry, requests[r].now)
      /\ requests' = [requests EXCEPT ![r] = next]
  BY DEF Write
<1>2. requests[r].checks \in Seq(Keys) /\ requests[r].checks # <<>> /\ requests[r].now \in Nat
  BY <1>1, RequestShape DEF RateInv, WritingRequests, CheckLists
<1>3. Tail(requests[r].checks) \in Seq(Keys)
  BY <1>2, HeadTailProperties
<1>4. next \in ReadingRequests \cup SettledRequests /\ next.step # "writing"
  BY <1>2, <1>3, NextCheckShape
<1> HIDE DEF next
<1> QED BY <1>1, <1>4, ChargeInv

LEMMA RequestFailsInv ==
    ASSUME RateInv, NEW r \in Requests, RequestFails(r)
    PROVE  RateInv'
<1> DEFINE next == [step |-> "failed"]
<1>1. UNCHANGED <<clock, raced>> /\ requests' = [requests EXCEPT ![r] = next]
  BY DEF RequestFails
<1>2. next \in ReadingRequests \cup SettledRequests /\ next.step # "writing"
  BY DEF SettledRequests
<1> HIDE DEF next
<1>3. CASE /\ requests[r].step = "writing"
           /\ Charge(Head(requests[r].checks), requests[r].entry, requests[r].now)
  BY <1>1, <1>2, <1>3, ChargeInv
<1>4. CASE UNCHANGED <<limits, history>>
  <2>1. /\ requests' \in [Requests -> ReadingRequests \cup WritingRequests \cup SettledRequests]
        /\ \A s \in Requests : requests'[s] = requests[s] \/ requests'[s].step # "writing"
    BY <1>1, <1>2 DEF RateInv, RateTypeOK
  <2> QED BY <1>1, <1>4, <2>1, SettleInv DEF RateInv, RateTypeOK, history
<1> QED BY <1>3, <1>4 DEF RequestFails

\* A request that reads a counter while another one is writing it races it.
LEMMA ReadInv ==
    ASSUME RateInv, NEW r \in Requests, Read(r)
    PROVE  RateInv'
<1> DEFINE key == Head(requests[r].checks)
           entry == Charged(limits[key], requests[r].now)
           writing == [step |-> "writing", checks |-> requests[r].checks,
                       now |-> requests[r].now, entry |-> entry]
<1>1. /\ requests[r].step = "reading" /\ UNCHANGED <<limits, clock, charges>>
      /\ requests' = [requests EXCEPT ![r] = IF entry.count > LimitOf(key) THEN [step |-> "refused"]
                                             ELSE writing]
      /\ raced' = IF Writing(key) = {} THEN raced ELSE raced \cup {key}
  BY DEF Read, history
<1>2. requests[r].checks \in CheckLists /\ requests[r].now \in Nat
  BY <1>1, RequestShape DEF RateInv, ReadingRequests
<1>3. key \in Keys
  BY <1>2, HeadTailProperties DEF CheckLists
<1>4. LimitOf(key) \in Int
  BY LimitIsInt
<1> HIDE DEF key
<1>5. entry \in Entries /\ entry.count >= 1 /\ (key \in raced \/ entry.count \in {1, charges[key] + 1})
  <2>1. CASE limits[key] # NoLimit /\ limits[key].resetAt > requests[r].now
    <3>1. limits[key] \in Entries /\ (key \in raced \/ limits[key].count = charges[key])
      BY <1>3, <2>1 DEF RateInv, RateTypeOK, CounterHonest
    <3>2. entry = [limits[key] EXCEPT !.count = @ + 1]
      BY <2>1 DEF Charged
    <3>3. entry \in Entries /\ entry.count = limits[key].count + 1 /\ limits[key].count \in Nat
      BY <3>1, <3>2 DEF Entries
    <3> HIDE DEF entry
    <3> QED BY <3>1, <3>3
  <2>2. CASE ~(limits[key] # NoLimit /\ limits[key].resetAt > requests[r].now)
    <3>1. entry = [count |-> 1, resetAt |-> requests[r].now + WindowMs]
      BY <2>2 DEF Charged
    <3>2. requests[r].now + WindowMs \in Nat
      BY <1>2
    <3>3. entry \in Entries /\ entry.count = 1
      BY <3>1, <3>2 DEF Entries
    <3> HIDE DEF entry
    <3> QED BY <3>3
  <2> QED BY <2>1, <2>2
<1> HIDE DEF entry
<1>6. CASE entry.count > LimitOf(key)
  <2>1. requests' = [requests EXCEPT ![r] = [step |-> "refused"]]
    BY <1>1, <1>6
  <2>2. [step |-> "refused"] \in SettledRequests
    BY DEF SettledRequests
  <2>3. RateTypeOK' /\ CounterHonest'
    BY <1>1, <1>3, <2>1, <2>2 DEF RateInv, RateTypeOK, CounterHonest
  <2>4. \A s \in Requests, k \in Keys : Writes(s, k)' => Writes(s, k) /\ requests'[s] = requests[s]
    BY <2>1 DEF RateInv, RateTypeOK, Writes
  <2>5. raced \subseteq raced'
    BY <1>1
  <2>6. WritesHonest' /\ OneWriter'
    BY <1>1, <2>4, <2>5 DEF RateInv, WritesHonest, OneWriter
  <2> QED BY <2>3, <2>6 DEF RateInv
<1>7. CASE ~(entry.count > LimitOf(key))
  <2>1. requests' = [requests EXCEPT ![r] = writing]
    BY <1>1, <1>7
  <2>2. writing \in WritingRequests
    BY <1>2, <1>5 DEF WritingRequests
  <2>3. writing.step = "writing" /\ writing.checks = requests[r].checks /\ writing.entry = entry
    OBVIOUS
  <2> HIDE DEF writing
  <2>4. /\ requests'[r] = writing
        /\ \A s \in Requests : s # r => requests'[s] = requests[s]
        /\ requests' \in [Requests -> ReadingRequests \cup WritingRequests \cup SettledRequests]
    BY <2>1, <2>2 DEF RateInv, RateTypeOK
  <2>5. RateTypeOK' /\ CounterHonest'
    BY <1>1, <1>3, <2>4 DEF RateInv, RateTypeOK, CounterHonest
  <2>6. \A s \in Requests, k \in Keys : Writes(s, k)' =>
            \/ s = r /\ k = key /\ requests'[s].entry = entry
            \/ s # r /\ Writes(s, k) /\ requests'[s] = requests[s]
    BY <2>3, <2>4 DEF Writes, key
  <2>7. raced \subseteq raced'
    BY <1>1
  <2>8. entry.count \in 1 .. LimitOf(key)
    BY <1>4, <1>5, <1>7 DEF Entries
  <2>9. WritesHonest'
    BY <1>1, <1>5, <2>6, <2>7, <2>8 DEF RateInv, WritesHonest
  <2>10. \A s \in Requests : Writes(s, key) => key \in raced'
    BY <1>1 DEF Writing, Writes
  <2>11. OneWriter'
    <3> SUFFICES ASSUME NEW s1 \in Requests, NEW s2 \in Requests, NEW k \in Keys,
                        Writes(s1, k)', Writes(s2, k)', s1 # s2
                 PROVE  k \in raced'
      BY DEF OneWriter
    <3>1. CASE s1 = r \/ s2 = r
      BY <2>6, <2>10, <3>1
    <3>2. CASE s1 # r /\ s2 # r
      BY <2>6, <2>7, <3>2 DEF RateInv, OneWriter
    <3> QED BY <3>1, <3>2
  <2> QED BY <2>5, <2>9, <2>11 DEF RateInv
<1> QED BY <1>6, <1>7

LEMMA ExpireInv ==
    ASSUME RateInv, NEW key \in Keys, Expire(key)
    PROVE  RateInv'
<1>1. /\ UNCHANGED <<requests, clock, charges, raced>>
      /\ limits' = [limits EXCEPT ![key] = NoLimit]
  BY DEF Expire, history
<1>2. RateTypeOK' /\ CounterHonest'
  BY <1>1 DEF RateInv, RateTypeOK, CounterHonest
<1>3. WritesHonest' /\ OneWriter'
  BY <1>1 DEF RateInv, WritesHonest, OneWriter, Writes
<1> QED BY <1>2, <1>3 DEF RateInv

LEMMA TickInv ==
    ASSUME RateInv, Tick
    PROVE  RateInv'
<1>1. UNCHANGED <<limits, requests, charges, raced>> /\ clock' = clock + 1
  BY DEF Tick, history
<1> QED BY <1>1, SettleInv DEF RateInv, RateTypeOK

LEMMA DropRequestsInv ==
    ASSUME RateInv, DropRequests
    PROVE  RateInv'
<1>1. /\ UNCHANGED <<limits, clock, charges, raced>>
      /\ requests' = [r \in Requests |-> IF requests[r].step \in {"reading", "writing"}
                                         THEN [step |-> "failed"] ELSE requests[r]]
  BY DEF DropRequests, history
<1>2. [step |-> "failed"] \in SettledRequests
  BY DEF SettledRequests
<1>3. /\ requests' \in [Requests -> ReadingRequests \cup WritingRequests \cup SettledRequests]
      /\ \A r \in Requests : requests'[r] = requests[r] \/ requests'[r].step # "writing"
  BY <1>1, <1>2 DEF RateInv, RateTypeOK
<1> QED BY <1>1, <1>3, SettleInv DEF RateInv, RateTypeOK

LEMMA RateStepInv ==
    ASSUME RateInv, [RateNext \/ Tick \/ DropRequests]_rateVars
    PROVE  RateInv'
<1>1. CASE UNCHANGED rateVars
  BY <1>1 DEF rateVars, RateInv, RateTypeOK, CounterHonest, WritesHonest, OneWriter, Writes, history
<1> QED BY <1>1, AskInv, ReadInv, WriteInv, RequestFailsInv, ExpireInv, TickInv, DropRequestsInv
        DEF RateNext

-----------------------------------------------------------------------------
(* Theorems *)

\* Whatever the limits and however many requests there are, a counter that was not raced counts
\* the charges since it began at 1, and none exceeds its maximum (contract-service.ts:443-462).
THEOREM RateCounterHonest == RateSpec => []CounterHonest
<1>1. RateInv => CounterHonest
  BY DEF RateInv
<1> QED BY <1>1, RateInitInv, RateStepInv, PTL DEF RateSpec

-----------------------------------------------------------------------------
(* The windows of a rate limit *)

ChargeRecords == [window : Nat, nth : Nat, time : Nat]

WindowTypeOK ==
    /\ windows \in [Keys -> Nat]
    /\ passes \in [Keys -> SUBSET ChargeRecords]

\* A request is done with within the delay.
RequestsPrompt ==
    \A r \in Requests : requests[r].step \in {"reading", "writing"} =>
        requests[r].now <= clock /\ clock <= requests[r].now + MaxDelay

\* The first charge of each window.
Begins(key) == {p \in passes[key] : p.nth = 1}
Ends(b) == b.time + WindowMs

\* Charges are told apart by their window and number, of which there are as many as the limit allows.
Numbered(key) ==
    /\ \A p \in passes[key] :
          /\ p.window \in 1 .. windows[key] /\ p.nth \in 1 .. LimitOf(key)
          /\ p.window = windows[key] => p.nth <= charges[key]
    /\ \A p, q \in passes[key] : p.window = q.window /\ p.nth = q.nth => p = q
    /\ \A v \in 1 .. windows[key] : \E b \in Begins(key) : b.window = v

\* A charge is earlier than the end of its window, and later than that of an earlier one but for the delay.
InWindow(key) ==
    \A b \in Begins(key), p \in passes[key] :
        /\ p.window = b.window => p.time < Ends(b)
        /\ p.window > b.window => p.time + MaxDelay >= Ends(b)

\* Earlier windows are over, as is the last one if its document is gone; else that tells its end.
WindowsOver(key) ==
    /\ \A b \in Begins(key) : b.window < windows[key] \/ limits[key] = NoLimit => Ends(b) <= clock
    /\ limits[key] # NoLimit =>
          /\ windows[key] >= 1
          /\ \A b \in Begins(key) : b.window = windows[key] => limits[key].resetAt = Ends(b)

\* What a request is about to write begins a window after the others are over, or goes on with the last.
WriteInWindow(key) ==
    \A r \in Requests : Writes(r, key) =>
        \/ /\ requests[r].entry.count = 1
           /\ requests[r].entry.resetAt = requests[r].now + WindowMs
           /\ \A b \in Begins(key) : Ends(b) <= clock
        \/ /\ requests[r].entry.count > 1
           /\ windows[key] >= 1
           /\ requests[r].now < requests[r].entry.resetAt
           /\ \A b \in Begins(key) : b.window = windows[key] => requests[r].entry.resetAt = Ends(b)

KeyWindows(key) == Numbered(key) /\ InWindow(key) /\ WindowsOver(key) /\ WriteInWindow(key)

WindowInv == WindowTypeOK /\ RequestsPrompt /\ \A key \in Keys \ raced : KeyWindows(key)

LEMMA RateInitWindows == RateInit => WindowInv
<1> SUFFICES ASSUME RateInit PROVE WindowInv
  OBVIOUS
<1>1. \A r \in Requests : requests[r].step = "new"
  BY DEF RateInit
<1>2. \A key \in Keys : passes[key] = {} /\ windows[key] = 0 /\ limits[key] = NoLimit /\ Begins(key) = {}
  BY DEF RateInit, Begins
<1>3. WindowTypeOK
  BY DEF RateInit, WindowTypeOK
<1>4. \A key \in Keys : KeyWindows(key)
  BY <1>1, <1>2 DEF KeyWindows, Numbered, InWindow, WindowsOver, WriteInWindow, Writes
<1> QED BY <1>1, <1>3, <1>4 DEF WindowInv, RequestsPrompt

\* The windows of a key that is not charged, whose document is not touched, and whose writers are those there were.
LEMMA KeyWindowsKept ==
    ASSUME WindowInv, RateTypeOK, NEW key \in Keys, KeyWindows(key),
           passes'[key] = passes[key], windows'[key] = windows[key], charges'[key] = charges[key],
           limits'[key] = limits[key], clock' \in Nat, clock' >= clock,
           \A r \in Requests : Writes(r, key)' => Writes(r, key) /\ requests'[r] = requests[r]
    PROVE  KeyWindows(key)'
<1>1. Begins(key)' = Begins(key) /\ \A b \in Begins(key) : Ends(b) \in Nat
  BY DEF Begins, Ends, WindowInv, WindowTypeOK, ChargeRecords
<1>2. Numbered(key)' /\ InWindow(key)'
  BY <1>1 DEF KeyWindows, Numbered, InWindow, Ends
<1>3. \A b \in Begins(key) : Ends(b) <= clock => Ends(b) <= clock'
  BY <1>1 DEF RateTypeOK
<1>4. WindowsOver(key)'
  BY <1>1, <1>3 DEF KeyWindows, WindowsOver, Ends
<1>5. WriteInWindow(key)'
  BY <1>1, <1>3 DEF KeyWindows, WriteInWindow, Ends
<1> QED BY <1>2, <1>4, <1>5 DEF KeyWindows

\* Requests that only settle, or go to a step in which they write nothing.
LEMMA SettleWindows ==
    ASSUME RateInv, WindowInv, UNCHANGED <<limits, history, raced>>, clock' \in Nat, clock' >= clock,
           RequestsPrompt',
           \A r \in Requests : requests'[r] = requests[r] \/ requests'[r].step # "writing"
    PROVE  WindowInv'
<1>1. \A r \in Requests, key \in Keys : Writes(r, key)' => Writes(r, key) /\ requests'[r] = requests[r]
  BY DEF Writes
<1>2. ASSUME NEW key \in Keys, KeyWindows(key)
      PROVE  KeyWindows(key)'
  BY <1>1, <1>2, KeyWindowsKept DEF history, RateInv
<1>3. WindowTypeOK'
  BY DEF WindowInv, WindowTypeOK, history
<1> QED BY <1>2, <1>3 DEF WindowInv

LEMMA ChargeNumbers ==
    ASSUME RateInv, WindowInv, NEW r \in Requests, NEW key \in Keys, Writes(r, key),
           requests[r].now \in Nat, requests[r].entry \in Entries,
           Charge(key, requests[r].entry, requests[r].now)
    PROVE  /\ limits'[key] = requests[r].entry
           /\ windows'[key] = (IF requests[r].entry.count = 1 THEN windows[key] + 1 ELSE windows[key])
           /\ charges'[key] = (IF requests[r].entry.count = 1 THEN 1 ELSE charges[key] + 1)
           /\ passes'[key] = passes[key] \cup {[window |-> windows'[key], nth |-> charges'[key],
                                                time |-> requests[r].now]}
           /\ \A k \in Keys : k # key =>
                 /\ limits'[k] = limits[k] /\ windows'[k] = windows[k]
                 /\ charges'[k] = charges[k] /\ passes'[k] = passes[k]
           /\ WindowTypeOK'
<1>1. /\ limits'[key] = requests[r].entry
      /\ windows'[key] = (IF requests[r].entry.count = 1 THEN windows[key] + 1 ELSE windows[key])
      /\ charges'[key] = (IF requests[r].entry.count = 1 THEN 1 ELSE charges[key] + 1)
      /\ \A k \in Keys : k # key =>
            limits'[k] = limits[k] /\ windows'[k] = windows[k] /\ charges'[k] = charges[k]
      /\ windows' \in [Keys -> Nat] /\ charges'[key] \in Nat
  BY DEF Charge, RateInv, RateTypeOK, WindowInv, WindowTypeOK
<1> DEFINE new == [window |-> windows'[key], nth |-> charges'[key], time |-> requests[r].now]
<1>2. new \in ChargeRecords
  BY <1>1 DEF ChargeRecords
<1>3. passes' = [passes EXCEPT ![key] = @ \cup {new}]
  BY DEF Charge
<1>4. passes'[key] = passes[key] \cup {new} /\ \A k \in Keys : k # key => passes'[k] = passes[k]
  BY <1>3 DEF WindowInv, WindowTypeOK
<1>5. passes' \in [Keys -> SUBSET ChargeRecords]
  <2> HIDE DEF new
  <2> QED BY <1>2, <1>3 DEF WindowInv, WindowTypeOK
<1> QED BY <1>1, <1>4, <1>5 DEF WindowTypeOK

\* A charge that begins a window.
LEMMA WindowBegins ==
    ASSUME RateInv, WindowInv, NEW key \in Keys, KeyWindows(key), NEW now \in Nat, NEW new,
           new = [window |-> windows[key] + 1, nth |-> 1, time |-> now],
           now <= clock, clock <= now + MaxDelay, LimitOf(key) >= 1,
           \A b \in Begins(key) : Ends(b) <= clock,
           passes'[key] = passes[key] \cup {new}, windows'[key] = windows[key] + 1, charges'[key] = 1,
           limits'[key] \in Entries, limits'[key].resetAt = now + WindowMs, clock' = clock
    PROVE  Numbered(key)' /\ InWindow(key)' /\ WindowsOver(key)'
<1>1. /\ new.window = windows[key] + 1 /\ new.nth = 1 /\ new.time = now
      /\ windows[key] \in Nat /\ charges[key] \in Nat /\ clock \in Nat /\ LimitOf(key) \in Int
      /\ \A p \in passes[key] : p.window \in Nat /\ p.nth \in Nat /\ p.time \in Nat
  BY LimitIsInt DEF RateInv, RateTypeOK, WindowInv, WindowTypeOK, ChargeRecords
<1>2. Begins(key)' = Begins(key) \cup {new}
  BY <1>1 DEF Begins
<1>3. \A b \in Begins(key) : b \in passes[key]
  BY DEF Begins
<1>4. \A p \in passes[key] : p.window \in 1 .. windows[key] /\ p.nth \in 1 .. LimitOf(key)
  BY DEF KeyWindows, Numbered
<1>5. Numbered(key)'
  <2>1. \A p \in passes'[key] :
          /\ p.window \in 1 .. windows'[key] /\ p.nth \in 1 .. LimitOf(key)
          /\ p.window = windows'[key] => p.nth <= charges'[key]
    BY <1>1, <1>4
  <2>2. \A p, q \in passes'[key] : p.window = q.window /\ p.nth = q.nth => p = q
    BY <1>1, <1>4 DEF KeyWindows, Numbered
  <2>3. \A v \in 1 .. windows'[key] : \E b \in Begins(key)' : b.window = v
    BY <1>1, <1>2 DEF KeyWindows, Numbered
  <2> QED BY <2>1, <2>2, <2>3 DEF Numbered, LimitOf
<1>6. Ends(new) = now + WindowMs
  BY <1>1 DEF Ends
<1>7. InWindow(key)'
  <2> SUFFICES ASSUME NEW b \in Begins(key)', NEW p \in passes'[key]
               PROVE  /\ p.window = b.window => p.time < Ends(b)
                      /\ p.window > b.window => p.time + MaxDelay >= Ends(b)
    BY DEF InWindow, Ends
  <2>1. CASE b = new
    BY <1>1, <1>4, <1>6, <2>1
  <2>2. CASE b \in Begins(key) /\ p = new
    BY <1>1, <1>3, <1>4, <2>2 DEF Ends
  <2>3. CASE b \in Begins(key) /\ p \in passes[key]
    BY <2>3 DEF KeyWindows, InWindow
  <2> QED BY <1>2, <2>1, <2>2, <2>3
<1>8. WindowsOver(key)'
  <2>1. limits'[key] # NoLimit
    BY DEF Entries
  <2>2. \A b \in Begins(key)' : b.window < windows'[key] => Ends(b) <= clock
    BY <1>1, <1>2
  <2>3. \A b \in Begins(key)' : b.window = windows'[key] => limits'[key].resetAt = Ends(b)
    BY <1>1, <1>2, <1>3, <1>4, <1>6
  <2> QED BY <1>1, <2>1, <2>2, <2>3 DEF WindowsOver, Ends
<1> QED BY <1>5, <1>7, <1>8

\* A charge that goes on with the last window.
LEMMA WindowGoesOn ==
    ASSUME RateInv, WindowInv, NEW key \in Keys, KeyWindows(key), NEW now \in Nat, NEW new,
           new = [window |-> windows[key], nth |-> charges[key] + 1, time |-> now],
           now <= clock, clock <= now + MaxDelay, windows[key] >= 1,
           charges[key] + 1 \in 2 .. LimitOf(key),
           limits'[key] \in Entries, now < limits'[key].resetAt,
           \A b \in Begins(key) : b.window = windows[key] => limits'[key].resetAt = Ends(b),
           passes'[key] = passes[key] \cup {new}, windows'[key] = windows[key],
           charges'[key] = charges[key] + 1, clock' = clock
    PROVE  Numbered(key)' /\ InWindow(key)' /\ WindowsOver(key)'
<1>1. /\ new.window = windows[key] /\ new.nth = charges[key] + 1 /\ new.time = now
      /\ windows[key] \in Nat /\ charges[key] \in Nat /\ clock \in Nat /\ LimitOf(key) \in Int
      /\ \A p \in passes[key] : p.window \in Nat /\ p.nth \in Nat /\ p.time \in Nat
  BY LimitIsInt DEF RateInv, RateTypeOK, WindowInv, WindowTypeOK, ChargeRecords
<1>2. Begins(key)' = Begins(key)
  BY <1>1 DEF Begins
<1>3. \A b \in Begins(key) : b \in passes[key] /\ Ends(b) \in Nat
  BY <1>1 DEF Begins, Ends
<1>4. \A p \in passes[key] : /\ p.window \in 1 .. windows[key] /\ p.nth \in 1 .. LimitOf(key)
                             /\ p.window = windows[key] => p.nth <= charges[key]
  BY DEF KeyWindows, Numbered
<1>5. Numbered(key)'
  <2>1. \A p \in passes'[key] :
          /\ p.window \in 1 .. windows'[key] /\ p.nth \in 1 .. LimitOf(key)
          /\ p.window = windows'[key] => p.nth <= charges'[key]
    BY <1>1, <1>4
  <2>2. \A p, q \in passes'[key] : p.window = q.window /\ p.nth = q.nth => p = q
    BY <1>1, <1>4 DEF KeyWindows, Numbered
  <2>3. \A v \in 1 .. windows'[key] : \E b \in Begins(key)' : b.window = v
    BY <1>2 DEF KeyWindows, Numbered
  <2> QED BY <2>1, <2>2, <2>3 DEF Numbered, LimitOf
<1>6. InWindow(key)'
  <2> SUFFICES ASSUME NEW b \in Begins(key)', NEW p \in passes'[key]
               PROVE  /\ p.window = b.window => p.time < Ends(b)
                      /\ p.window > b.window => p.time + MaxDelay >= Ends(b)
    BY DEF InWindow, Ends
  <2>1. CASE p = new
    <3>1. b.window < windows[key] => Ends(b) <= clock
      BY <1>2 DEF KeyWindows, WindowsOver
    <3>2. b.window = windows[key] => now < Ends(b)
      BY <1>2
    <3> QED BY <1>1, <1>2, <1>3, <2>1, <3>1, <3>2
  <2>2. CASE p \in passes[key]
    BY <1>2, <2>2 DEF KeyWindows, InWindow
  <2> QED BY <2>1, <2>2
<1>7. WindowsOver(key)'
  <2>1. limits'[key] # NoLimit
    BY DEF Entries
  <2>2. \A b \in Begins(key)' : b.window < windows'[key] => Ends(b) <= clock
    BY <1>2 DEF KeyWindows, WindowsOver
  <2> QED BY <1>2, <2>1, <2>2 DEF WindowsOver, Ends
<1> QED BY <1>5, <1>6, <1>7

LEMMA ChargeWindows ==
    ASSUME RateInv, WindowInv, NEW r \in Requests, requests[r].step = "writing",
           Charge(Head(requests[r].checks), requests[r].entry, requests[r].now),
           NEW next, next.step # "writing", requests' = [requests EXCEPT ![r] = next],
           RequestsPrompt', UNCHANGED <<clock, raced>>
    PROVE  WindowInv'
<1>0. PICK key, entry, now :
          key = Head(requests[r].checks) /\ entry = requests[r].entry /\ now = requests[r].now
  OBVIOUS
<1>1. requests[r] \in WritingRequests
  BY RequestShape DEF RateInv
<1>2. entry \in Entries /\ key \in Keys /\ now \in Nat
  <2>1. requests[r].checks \in Seq(Keys) /\ requests[r].checks # <<>>
    BY <1>1 DEF WritingRequests, CheckLists
  <2> QED BY <1>0, <1>1, <2>1, HeadTailProperties DEF WritingRequests
<1>3. Writes(r, key) /\ Charge(key, entry, now) /\ now <= clock /\ clock <= now + MaxDelay
  BY <1>0 DEF Writes, WindowInv, RequestsPrompt
<1>4. /\ limits'[key] = entry
      /\ windows'[key] = (IF entry.count = 1 THEN windows[key] + 1 ELSE windows[key])
      /\ charges'[key] = (IF entry.count = 1 THEN 1 ELSE charges[key] + 1)
      /\ passes'[key] = passes[key] \cup {[window |-> windows'[key], nth |-> charges'[key], time |-> now]}
      /\ \A k \in Keys : k # key =>
            /\ limits'[k] = limits[k] /\ windows'[k] = windows[k]
            /\ charges'[k] = charges[k] /\ passes'[k] = passes[k]
      /\ WindowTypeOK'
  BY <1>0, <1>2, <1>3, ChargeNumbers
<1>5. /\ entry.count \in 1 .. LimitOf(key) /\ LimitOf(key) \in Int
      /\ key \in raced \/ entry.count \in {1, charges[key] + 1}
  BY <1>0, <1>2, <1>3, LimitIsInt DEF RateInv, WritesHonest
<1>6. key \notin raced => \/ /\ entry.count = 1 /\ entry.resetAt = now + WindowMs
                             /\ \A b \in Begins(key) : Ends(b) <= clock
                          \/ /\ entry.count > 1 /\ windows[key] >= 1 /\ now < entry.resetAt
                             /\ \A b \in Begins(key) : b.window = windows[key] => entry.resetAt = Ends(b)
  BY <1>0, <1>2, <1>3 DEF WindowInv, KeyWindows, WriteInWindow
<1>7. \A s \in Requests, k \in Keys : Writes(s, k)' => s # r /\ Writes(s, k) /\ requests'[s] = requests[s]
  BY DEF Writes, RateInv, RateTypeOK
<1>8. \A s \in Requests : Writes(s, key)' => key \in raced
  BY <1>2, <1>3, <1>7 DEF RateInv, OneWriter
<1>9. ASSUME key \notin raced PROVE KeyWindows(key)'
  <2>1. KeyWindows(key) /\ charges[key] \in Nat
    BY <1>2, <1>9 DEF WindowInv, RateInv, RateTypeOK
  <2>2. WriteInWindow(key)'
    BY <1>8, <1>9 DEF WriteInWindow
  <2>3. CASE /\ entry.count = 1 /\ entry.resetAt = now + WindowMs
             /\ \A b \in Begins(key) : Ends(b) <= clock
    <3> DEFINE new == [window |-> windows[key] + 1, nth |-> 1, time |-> now]
    <3>1. passes'[key] = passes[key] \cup {new} /\ windows'[key] = windows[key] + 1 /\ charges'[key] = 1
      BY <1>4, <2>3
    <3>2. LimitOf(key) >= 1
      BY <1>5
        <3>3. Numbered(key)' /\ InWindow(key)' /\ WindowsOver(key)'
      BY <1>2, <1>3, <1>4, <2>1, <2>3, <3>1, <3>2, WindowBegins
    <3> QED BY <2>2, <3>3 DEF KeyWindows
  <2>4. CASE /\ entry.count > 1 /\ windows[key] >= 1 /\ now < entry.resetAt
             /\ \A b \in Begins(key) : b.window = windows[key] => entry.resetAt = Ends(b)
    <3> DEFINE new == [window |-> windows[key], nth |-> charges[key] + 1, time |-> now]
    <3>1. /\ passes'[key] = passes[key] \cup {new} /\ windows'[key] = windows[key]
          /\ charges'[key] = charges[key] + 1
      BY <1>2, <1>4, <2>4 DEF Entries
    <3>2. charges[key] + 1 \in 2 .. LimitOf(key)
      BY <1>5, <1>9, <2>1, <2>4
    <3>3. Numbered(key)' /\ InWindow(key)' /\ WindowsOver(key)'
      BY <1>2, <1>3, <1>4, <2>1, <2>4, <3>1, <3>2, WindowGoesOn
    <3> QED BY <2>2, <3>3 DEF KeyWindows
  <2> QED BY <1>6, <1>9, <2>3, <2>4
<1>10. ASSUME NEW k \in Keys, k # key, KeyWindows(k) PROVE KeyWindows(k)'
  BY <1>4, <1>7, <1>10, KeyWindowsKept DEF RateInv, RateTypeOK
<1> QED BY <1>4, <1>9, <1>10 DEF WindowInv

\* The request goes on with the time it began at, or settles.
LEMMA PromptGoesOn ==
    ASSUME RateTypeOK, RequestsPrompt, NEW r \in Requests, NEW next,
           requests' = [requests EXCEPT ![r] = next], clock' = clock,
           next.step \in {"reading", "writing"} => next.now <= clock /\ clock <= next.now + MaxDelay
    PROVE  RequestsPrompt'
<1>1. \A s \in Requests : requests'[s] = IF s = r THEN next ELSE requests[s]
  BY DEF RateTypeOK
<1> QED BY <1>1 DEF RequestsPrompt

LEMMA AskWindows ==
    ASSUME RateInv, WindowInv, NEW r \in Requests, Ask(r)
    PROVE  WindowInv'
<1>1. UNCHANGED <<limits, clock, history, raced>> /\ clock \in Nat
  BY DEF Ask, RateInv, RateTypeOK
<1>2. PICK next : /\ requests' = [requests EXCEPT ![r] = next] /\ next.step # "writing"
                  /\ next.step = "reading" => next.now = clock
  <2>1. ASSUME NEW address \in DustAddresses, NEW ip \in Ips \cup {NoLimit},
               requests' = [requests EXCEPT ![r] = NextCheck(Checks(address, ip), clock)]
        PROVE  \E next : /\ requests' = [requests EXCEPT ![r] = next] /\ next.step # "writing"
                         /\ next.step = "reading" => next.now = clock
    <3>1. PICK next : next = NextCheck(Checks(address, ip), clock)
      OBVIOUS
    <3>2. next.step # "writing" /\ (next.step = "reading" => next.now = clock)
      BY <3>1 DEF NextCheck
    <3> QED BY <2>1, <3>1, <3>2
  <2>2. CASE requests' = [requests EXCEPT ![r] = [step |-> "refused"]]
    <3>1. PICK next : next = [step |-> "refused"]
      OBVIOUS
    <3>2. next.step = "refused"
      BY <3>1
    <3> QED BY <2>2, <3>1, <3>2
  <2> QED BY <2>1, <2>2 DEF Ask
<1>3. RequestsPrompt'
  <2>1. MaxDelay \in Nat
    BY RateAssumption
  <2>2. clock' = clock /\ (next.step \in {"reading", "writing"} => next.now <= clock /\ clock <= next.now + MaxDelay)
    BY <1>1, <1>2, <2>1
  <2> QED BY <1>2, <2>2, PromptGoesOn DEF RateInv, WindowInv
<1>4. \A s \in Requests : requests'[s] = requests[s] \/ requests'[s].step # "writing"
  BY <1>2 DEF RateInv, RateTypeOK
<1>5. clock' \in Nat /\ clock' >= clock
  BY <1>1
<1> QED BY <1>1, <1>3, <1>4, <1>5, SettleWindows

LEMMA WriteWindows ==
    ASSUME RateInv, WindowInv, NEW r \in Requests, Write(r)
    PROVE  WindowInv'
<1>1. PICK next : next = NextCheck(Tail(requests[r].checks), requests[r].now)
  OBVIOUS
<1>2. /\ requests[r].step = "writing" /\ UNCHANGED <<clock, raced>>
      /\ Charge(Head(requests[r].checks), requests[r].entry, requests[r].now)
      /\ requests' = [requests EXCEPT ![r] = next]
  BY <1>1 DEF Write
<1>3. next.step # "writing" /\ (next.step = "reading" => next.now = requests[r].now)
  BY <1>1 DEF NextCheck
<1>4. RequestsPrompt'
  BY <1>2, <1>3, PromptGoesOn DEF RateInv, WindowInv, RequestsPrompt
<1> QED BY <1>2, <1>3, <1>4, ChargeWindows

LEMMA RequestFailsWindows ==
    ASSUME RateInv, WindowInv, NEW r \in Requests, RequestFails(r)
    PROVE  WindowInv'
<1>1. PICK next : next = [step |-> "failed"]
  OBVIOUS
<1>2. /\ UNCHANGED <<clock, raced>> /\ requests' = [requests EXCEPT ![r] = next]
      /\ next.step = "failed" /\ clock \in Nat
  BY <1>1 DEF RequestFails, RateInv, RateTypeOK
<1>3. RequestsPrompt'
  BY <1>2, PromptGoesOn DEF RateInv, WindowInv
<1>4. CASE /\ requests[r].step = "writing"
           /\ Charge(Head(requests[r].checks), requests[r].entry, requests[r].now)
  BY <1>2, <1>3, <1>4, ChargeWindows
<1>5. CASE UNCHANGED <<limits, history>>
  <2>1. \A s \in Requests : requests'[s] = requests[s] \/ requests'[s].step # "writing"
    BY <1>2 DEF RateInv, RateTypeOK
  <2> QED BY <1>2, <1>3, <1>5, <2>1, SettleWindows
<1> QED BY <1>4, <1>5 DEF RequestFails

\* A document that is over, or gone, tells that every window is.
LEMMA ReadWindows ==
    ASSUME RateInv, WindowInv, NEW r \in Requests, Read(r)
    PROVE  WindowInv'
<1>0. PICK key, now, entry, next :
          /\ key = Head(requests[r].checks) /\ now = requests[r].now
          /\ entry = Charged(limits[key], now)
          /\ next = IF entry.count > LimitOf(key) THEN [step |-> "refused"]
                    ELSE [step |-> "writing", checks |-> requests[r].checks, now |-> now, entry |-> entry]
  OBVIOUS
<1>1. /\ requests[r].step = "reading" /\ UNCHANGED <<limits, clock, history>> /\ clock \in Nat
      /\ requests' = [requests EXCEPT ![r] = next]
      /\ raced' = IF Writing(key) = {} THEN raced ELSE raced \cup {key}
  BY <1>0 DEF Read, RateInv, RateTypeOK
<1>2. key \in Keys /\ now \in Nat
  <2>1. requests[r].checks \in Seq(Keys) /\ requests[r].checks # <<>> /\ requests[r].now \in Nat
    BY <1>1, RequestShape DEF RateInv, ReadingRequests, CheckLists
  <2> QED BY <1>0, <2>1, HeadTailProperties
<1>3. next.step = "writing" => next.now = now /\ next.entry = entry /\ Head(next.checks) = key
  BY <1>0
<1>4. next.step # "reading"
  BY <1>0
<1>5. RequestsPrompt'
  BY <1>0, <1>1, <1>3, <1>4, PromptGoesOn DEF RateInv, WindowInv, RequestsPrompt
<1>6. \A s \in Requests : requests'[s] = IF s = r THEN next ELSE requests[s]
  BY <1>1 DEF RateInv, RateTypeOK
<1>7. ASSUME NEW k \in Keys \ raced', \A s \in Requests : Writes(s, k)' => Writes(s, k) /\ requests'[s] = requests[s]
      PROVE  KeyWindows(k)'
  <2>1. KeyWindows(k)
    BY <1>1, <1>7 DEF WindowInv
  <2> QED BY <1>1, <1>7, <2>1, KeyWindowsKept DEF history, RateInv
<1>8. ASSUME key \notin raced', next.step = "writing" PROVE KeyWindows(key)'
  <2>1. KeyWindows(key) /\ clock' = clock /\ limits' = limits
    BY <1>1, <1>2, <1>8 DEF WindowInv
  <2>2. Begins(key)' = Begins(key) /\ windows' = windows
    BY <1>1 DEF history, Begins
  <2>3. Numbered(key)' /\ InWindow(key)' /\ WindowsOver(key)'
    BY <1>1, <2>1, <2>2 DEF KeyWindows, Numbered, InWindow, WindowsOver, Ends, history
  <2>4. \A s \in Requests : Writes(s, key)' => s = r
    BY <1>1, <1>6, <1>8 DEF Writes, Writing
  <2>5. \A b \in Begins(key) : Ends(b) \in Nat /\ b.window \in 1 .. windows[key]
    BY <1>2, <2>1 DEF Begins, Ends, WindowInv, WindowTypeOK, ChargeRecords, KeyWindows, Numbered
  <2>6. now <= clock
    BY <1>0, <1>1 DEF WindowInv, RequestsPrompt
  <2>7. CASE limits[key] # NoLimit /\ limits[key].resetAt > now
    <3>1. limits[key] \in Entries /\ limits[key].count >= 1
      BY <1>2, <2>7 DEF RateInv, RateTypeOK, CounterHonest
    <3>2. entry = [limits[key] EXCEPT !.count = @ + 1]
      BY <1>0, <2>7 DEF Charged
    <3>3. entry.count > 1 /\ entry.resetAt = limits[key].resetAt
      BY <3>1, <3>2 DEF Entries
    <3>4. /\ windows[key] >= 1
          /\ \A b \in Begins(key) : b.window = windows[key] => entry.resetAt = Ends(b)
      BY <2>1, <2>7, <3>3 DEF KeyWindows, WindowsOver
    <3>5. now < entry.resetAt
      BY <1>2, <2>7, <3>1, <3>3 DEF Entries
    <3>6. WriteInWindow(key)'
      BY <1>3, <1>6, <1>8, <2>2, <2>4, <3>3, <3>4, <3>5 DEF WriteInWindow, Ends
    <3> QED BY <2>3, <3>6 DEF KeyWindows
  <2>8. CASE ~(limits[key] # NoLimit /\ limits[key].resetAt > now)
    <3>1. entry = [count |-> 1, resetAt |-> now + WindowMs]
      BY <1>0, <2>8 DEF Charged
    <3>2. limits[key] # NoLimit => limits[key].resetAt \in Nat /\ limits[key].resetAt <= clock
      BY <1>1, <1>2, <2>6, <2>8 DEF RateInv, RateTypeOK, Entries
    <3>3. \A b \in Begins(key) : Ends(b) <= clock
      <4>1. CASE limits[key] = NoLimit
        BY <2>1, <4>1 DEF KeyWindows, WindowsOver
      <4>2. CASE limits[key] # NoLimit
        BY <1>1, <1>2, <2>1, <2>5, <3>2, <4>2 DEF KeyWindows, WindowsOver, WindowInv, WindowTypeOK
      <4> QED BY <4>1, <4>2
    <3>4. WriteInWindow(key)'
      BY <1>3, <1>6, <1>8, <2>1, <2>2, <2>4, <3>1, <3>3 DEF WriteInWindow, Ends
    <3> QED BY <2>3, <3>4 DEF KeyWindows
  <2> QED BY <2>7, <2>8
<1>9. ASSUME NEW k \in Keys \ raced' PROVE KeyWindows(k)'
  <2>1. CASE k = key /\ next.step = "writing"
    BY <1>8, <1>9, <2>1
  <2>2. CASE k # key \/ next.step # "writing"
    <3>1. \A s \in Requests : Writes(s, k)' => Writes(s, k) /\ requests'[s] = requests[s]
      BY <1>3, <1>6, <2>2 DEF Writes
    <3> QED BY <1>7, <1>9, <3>1
  <2> QED BY <2>1, <2>2
<1>10. WindowTypeOK'
  BY <1>1 DEF WindowInv, WindowTypeOK, history
<1> QED BY <1>5, <1>9, <1>10 DEF WindowInv

LEMMA ExpireWindows ==
    ASSUME RateInv, WindowInv, NEW key \in Keys, Expire(key)
    PROVE  WindowInv'
<1>1. /\ UNCHANGED <<requests, clock, history, raced>> /\ limits[key] # NoLimit /\ limits[key].resetAt <= clock
      /\ limits' = [limits EXCEPT ![key] = NoLimit] /\ clock \in Nat
  BY DEF Expire, RateInv, RateTypeOK
<1>2. \A r \in Requests, k \in Keys : Writes(r, k)' => Writes(r, k) /\ requests'[r] = requests[r]
  BY <1>1 DEF Writes
<1>3. ASSUME NEW k \in Keys, k # key, KeyWindows(k) PROVE KeyWindows(k)'
  <2>1. limits'[k] = limits[k]
    BY <1>1, <1>3 DEF RateInv, RateTypeOK
  <2> QED BY <1>1, <1>2, <1>3, <2>1, KeyWindowsKept DEF history, RateInv
<1>4. ASSUME KeyWindows(key) PROVE KeyWindows(key)'
  <2>1. Begins(key)' = Begins(key) /\ limits'[key] = NoLimit
    BY <1>1 DEF Begins, history, RateInv, RateTypeOK
  <2>2. \A b \in Begins(key) : b.window \in 1 .. windows[key]
    BY <1>4 DEF KeyWindows, Numbered, Begins
  <2>3. windows[key] \in Nat
    BY DEF WindowInv, WindowTypeOK
  <2>4. \A b \in Begins(key) : Ends(b) <= clock
    BY <1>1, <1>4, <2>2, <2>3 DEF KeyWindows, WindowsOver
  <2>5. Numbered(key)' /\ InWindow(key)' /\ WriteInWindow(key)'
    BY <1>1, <1>4, <2>1 DEF KeyWindows, Numbered, InWindow, WriteInWindow, Ends, Writes, history
  <2>6. WindowsOver(key)'
    BY <1>1, <2>1, <2>4 DEF WindowsOver, Ends
  <2> QED BY <2>5, <2>6 DEF KeyWindows
<1>5. WindowTypeOK' /\ RequestsPrompt'
  BY <1>1 DEF WindowInv, WindowTypeOK, RequestsPrompt, history
<1> QED BY <1>1, <1>3, <1>4, <1>5 DEF WindowInv

LEMMA RateStepWindows ==
    ASSUME RateInv, WindowInv, [RateNext \/ Tick \/ DropRequests]_rateVars
    PROVE  WindowInv'
<1>0. clock \in Nat /\ MaxDelay \in Nat
  BY RateAssumption DEF RateInv, RateTypeOK
<1>1. CASE UNCHANGED rateVars
  <2>1. UNCHANGED <<limits, requests, clock, history, raced>>
    BY <1>1 DEF rateVars
  <2>2. clock' \in Nat /\ clock' >= clock
    BY <1>0, <2>1
  <2>3. requests' = requests /\ clock' = clock /\ RequestsPrompt
    BY <2>1 DEF WindowInv
  <2>4. RequestsPrompt'
    BY <2>3, Zenon DEF RequestsPrompt
  <2> QED BY <2>1, <2>2, <2>4, SettleWindows
<1>2. CASE Tick
  <2>1. UNCHANGED <<limits, requests, history, raced>> /\ clock' = clock + 1
    BY <1>2 DEF Tick
  <2>2. \A r \in Requests : requests[r].step \in {"reading", "writing"} => requests[r].now \in Nat
    BY RequestShape DEF RateInv, ReadingRequests, WritingRequests
  <2>3. RequestsPrompt'
    <3>1. requests' = requests /\ clock' = clock + 1
      BY <2>1
    <3> SUFFICES ASSUME NEW r \in Requests, requests[r].step \in {"reading", "writing"}
                 PROVE  requests[r].now <= clock + 1 /\ clock + 1 <= requests[r].now + MaxDelay
      BY <3>1 DEF RequestsPrompt
    <3>2. requests[r].now <= clock /\ clock < requests[r].now + MaxDelay /\ requests[r].now \in Nat
      BY <1>2, <2>2 DEF Tick, WindowInv, RequestsPrompt
    <3> QED BY <1>0, <3>2
  <2>4. clock' \in Nat /\ clock' >= clock
    BY <1>0, <2>1
  <2> QED BY <2>1, <2>3, <2>4, SettleWindows
<1>3. CASE DropRequests
  <2>1. /\ UNCHANGED <<limits, clock, history, raced>>
        /\ \A r \in Requests : requests'[r] = requests[r] \/ requests'[r].step = "failed"
    BY <1>3 DEF DropRequests
  <2>2. RequestsPrompt'
    BY <2>1 DEF WindowInv, RequestsPrompt
  <2>3. clock' \in Nat /\ clock' >= clock
    BY <1>0, <2>1
  <2> QED BY <2>1, <2>2, <2>3, SettleWindows
<1> QED BY <1>1, <1>2, <1>3, AskWindows, ReadWindows, WriteWindows, RequestFailsWindows, ExpireWindows
        DEF RateNext

\* The charges of one stretch are of three windows at most, and not of the whole first one if they
\* reach into the third: in each window, charges are earlier than its end, and later than that of
\* the one before but for the delay.
LEMMA PassedWindows ==
    ASSUME RateInv, WindowInv, NEW key \in Keys \ raced, NEW start \in Nat,
           NEW p \in Passed(key, start), NEW q \in Passed(key, start)
    PROVE  /\ q.window <= p.window + 2
           /\ q.window = p.window + 2 => p.nth # 1
<1>1. KeyWindows(key) /\ p \in passes[key] /\ q \in passes[key]
  BY DEF WindowInv, Passed
<1>2. /\ p.time \in start .. start + WindowMs - 1 /\ q.time \in start .. start + WindowMs - 1
      /\ p.window \in 1 .. windows[key] /\ q.window \in 1 .. windows[key] /\ windows[key] \in Nat
  BY <1>1 DEF Passed, KeyWindows, Numbered, WindowInv, WindowTypeOK
<1>3. \A v \in 1 .. windows[key] : \E b \in passes[key] : b.nth = 1 /\ b.window = v /\ b.time \in Nat
  BY <1>1 DEF KeyWindows, Numbered, Begins, WindowInv, WindowTypeOK, ChargeRecords
<1>4. \A b, x \in passes[key] : b.nth = 1 =>
          /\ x.window = b.window => x.time < b.time + WindowMs
          /\ x.window > b.window => x.time + MaxDelay >= b.time + WindowMs
  BY <1>1 DEF KeyWindows, InWindow, Begins, Ends
<1>5. SUFFICES ASSUME q.window >= p.window + 2
               PROVE  q.window = p.window + 2 /\ p.nth # 1
  BY <1>2
<1>6. PICK b2 \in passes[key] : b2.nth = 1 /\ b2.window = p.window + 1 /\ b2.time \in Nat
  BY <1>2, <1>3, <1>5
<1>7. q.time + MaxDelay >= b2.time + WindowMs
  BY <1>1, <1>2, <1>4, <1>5, <1>6
<1>8. p.nth # 1
  <2>1. p.nth = 1 => b2.time + MaxDelay >= p.time + WindowMs
    BY <1>1, <1>2, <1>4, <1>6
  <2> QED BY <1>2, <1>6, <1>7, <2>1
<1>9. q.window = p.window + 2
  <2> SUFFICES ASSUME q.window >= p.window + 3 PROVE FALSE
    BY <1>2, <1>5
  <2>1. PICK b1 \in passes[key] : b1.nth = 1 /\ b1.window = p.window /\ b1.time \in Nat
    BY <1>2, <1>3
  <2>2. PICK b3 \in passes[key] : b3.nth = 1 /\ b3.window = p.window + 2 /\ b3.time \in Nat
    BY <1>2, <1>3
  <2>3. p.time < b1.time + WindowMs
    BY <1>1, <1>4, <2>1
  <2>4. b2.time + MaxDelay >= b1.time + WindowMs
    BY <1>2, <1>4, <1>6, <2>1
  <2>5. b3.time + MaxDelay >= b2.time + WindowMs
    BY <1>2, <1>4, <1>6, <2>2
  <2>6. q.time + MaxDelay >= b3.time + WindowMs
    BY <1>1, <1>2, <1>4, <2>2
  <2> QED BY <1>2, <1>6, <2>1, <2>2, <2>3, <2>4, <2>5, <2>6
<1> QED BY <1>8, <1>9

LEMMA PassedBounded ==
    ASSUME RateInv, WindowInv, NEW key \in Keys \ raced, NEW start \in Nat, LimitOf(key) > 0
    PROVE  Cardinality(Passed(key, start)) < 3 * LimitOf(key)
<1> DEFINE S == Passed(key, start)
           limit == LimitOf(key)
<1>1. limit \in Nat /\ limit >= 1
  BY LimitIsInt
<1>2. CASE S = {}
  BY <1>1, <1>2, FS_EmptySet
<1>3. CASE S # {}
  <2>1. \A p \in S : p.window \in Nat /\ p.nth \in 1 .. limit
    BY DEF Passed, WindowInv, WindowTypeOK, ChargeRecords, KeyWindows, Numbered
  <2>2. \A p, q \in S : p.window = q.window /\ p.nth = q.nth => p = q
    BY DEF Passed, WindowInv, KeyWindows, Numbered
  <2>3. \A p, q \in S : q.window <= p.window + 2 /\ (q.window = p.window + 2 => p.nth # 1)
    BY PassedWindows
  <2> HIDE DEF S, limit
  <2>4. PICK m \in Nat : \A q \in S : q.window \in m .. m + 2
    <3>1. PICK p \in S : TRUE
      BY <1>3
    <3>2. CASE \E x \in S : x.window + 2 = p.window
      <4>1. PICK x \in S : x.window + 2 = p.window
        BY <3>2
      <4>2. \A q \in S : q.window \in x.window .. x.window + 2
        BY <2>1, <2>3, <3>1, <4>1
      <4> QED BY <2>1, <4>2
    <3>3. CASE (\E x \in S : x.window + 1 = p.window) /\ ~\E x \in S : x.window + 2 = p.window
      <4>1. PICK x \in S : x.window + 1 = p.window
        BY <3>3
      <4>2. \A q \in S : q.window \in x.window .. x.window + 2
        BY <2>1, <2>3, <3>1, <3>3, <4>1
      <4> QED BY <2>1, <4>2
    <3>4. CASE ~(\E x \in S : x.window + 1 = p.window) /\ ~\E x \in S : x.window + 2 = p.window
      <4>1. \A q \in S : q.window \in p.window .. p.window + 2
        BY <2>1, <2>3, <3>1, <3>4
      <4> QED BY <2>1, <3>1, <4>1
    <3> QED BY <3>2, <3>3, <3>4
  <2>5. PICK three, upto : three = m .. m + 2 /\ upto = 1 .. limit
    OBVIOUS
  <2> DEFINE T == three \X upto
             place == [p \in S |-> <<p.window, p.nth>>]
  <2>6. IsFiniteSet(T) /\ Cardinality(T) = 3 * limit
    <3>1. IsFiniteSet(three) /\ Cardinality(three) = 3
      <4>1. m \in Int /\ m + 2 \in Int /\ ~(m > m + 2) /\ (m + 2) - m + 1 = 3
        BY <2>4
      <4> QED BY <2>5, <4>1, FS_Interval
    <3>2. IsFiniteSet(upto) /\ Cardinality(upto) = limit
      <4>1. limit \in Int /\ 1 \in Int /\ ~(1 > limit) /\ limit - 1 + 1 = limit
        BY <1>1
      <4> QED BY <2>5, <4>1, FS_Interval
    <3>3. IsFiniteSet(T) /\ Cardinality(T) = Cardinality(three) * Cardinality(upto)
      BY <3>1, <3>2, FS_Product
    <3> QED BY <3>1, <3>2, <3>3
  <2>7. place \in Injection(S, T)
    <3>1. place \in [S -> T]
      BY <2>1, <2>4, <2>5
    <3>2. \A p, q \in S : place[p] = place[q] => p = q
      BY <2>2
    <3> QED BY <3>1, <3>2 DEF Injection, IsInjective
  <2>8. place \notin Surjection(S, T)
    <3> SUFFICES ASSUME place \in Surjection(S, T) PROVE FALSE
      OBVIOUS
    <3>1. <<m, 1>> \in T /\ <<m + 2, 1>> \in T
      BY <1>1, <2>4, <2>5
    <3>2. PICK p \in S : place[p] = <<m, 1>>
      BY <3>1 DEF Surjection
    <3>3. PICK q \in S : place[q] = <<m + 2, 1>>
      BY <3>1 DEF Surjection
    <3>4. p.window = m /\ p.nth = 1 /\ q.window = m + 2
      BY <3>2, <3>3
    <3> QED BY <2>3, <3>4
  <2> HIDE DEF T, place
  <2>9. /\ Cardinality(S) <= Cardinality(T)
        /\ Cardinality(S) = Cardinality(T) <=> place \in Surjection(S, T)
        /\ IsFiniteSet(S)
    BY <2>6, <2>7, FS_Injection
  <2>10. Cardinality(S) \in Nat /\ Cardinality(T) \in Nat
    BY <2>6, <2>9, FS_CardinalityType
  <2>11. Cardinality(S) < 3 * limit
    BY <2>6, <2>8, <2>9, <2>10
  <2> QED BY <2>11 DEF S, limit
<1> QED BY <1>2, <1>3

\* Whatever the limits, the window and the number of requests, and whichever of them are refused,
\* fail, are dropped or find the document removed, a key that was not raced passes less than three
\* times its maximum in any stretch as long as the window (contract-service.ts:443-460).
THEOREM RateWindowKept == RateSpec => []WindowKept
<1>1. RateInv /\ WindowInv => WindowKept
  BY PassedBounded DEF WindowKept
<1> QED BY <1>1, RateInitInv, RateStepInv, RateInitWindows, RateStepWindows, PTL DEF RateSpec

-----------------------------------------------------------------------------
(* DeployService *)

\* The contracts paid for whose start did not exit before it had saved them.
Kept == (submitted \cup deployed) \ abandoned

DeployTypeOK ==
    /\ phase \in Phases
    /\ configured \in ConfiguredAddresses \cup {NoAddress}
    /\ submitted \subseteq Addresses /\ deployed \subseteq Addresses
    /\ abandoned \subseteq submitted \cup deployed
    /\ deployment \in submitted \cup deployed \cup {NoAddress}
    /\ saved \in deployed \cup ConfiguredAddresses \cup {NoAddress}

\* What each phase may rely on.
PhaseInv ==
    /\ phase = "saving_configured" => configured # NoAddress /\ active = configured
    /\ phase \in {"deploying", "saving_deployed"} => saved = NoAddress
    /\ deployment # NoAddress => phase \in {"deploying", "saving_deployed"}
    /\ phase = "saving_deployed" => deployment # NoAddress /\ deployment \in deployed
    /\ phase \in {"initialising", "serving"} => active = saved

\* Before an address is saved the deployment in progress is the only contract that is kept.
KeptInv ==
    /\ saved = NoAddress => Kept \subseteq {deployment}
    /\ \E address : Kept \subseteq {address}

\* What was served is still saved, unless the operator has configured another address.
ServedInv == served # NoAddress => served = saved \/ saved \in ConfiguredAddresses

DeployInv == DeployTypeOK /\ PhaseInv /\ KeptInv /\ ServedInv

-----------------------------------------------------------------------------
(* Lemmas *)

LEMMA DeployInitInv == DeployInit => DeployInv
BY DEF DeployInit, DeployInv, DeployTypeOK, Phases, PhaseInv, KeptInv, Kept, ServedInv

\* The steps that leave the contracts, what is saved and what was served alone.
LEMMA QuietStepInv ==
    ASSUME DeployInv, StartProcess \/ InitAddress \/ FindSaved \/ JoinDeployed
    PROVE  DeployInv'
<1>1. UNCHANGED <<deployment, saved, submitted, deployed, served, abandoned>>
  BY DEF StartProcess, InitAddress, FindSaved, JoinDeployed
<1>2. DeployTypeOK'
  BY <1>1 DEF StartProcess, InitAddress, FindSaved, JoinDeployed, DeployInv, DeployTypeOK, Phases
<1>3. PhaseInv'
  BY <1>1 DEF StartProcess, InitAddress, FindSaved, JoinDeployed, DeployInv, DeployTypeOK, PhaseInv
<1>4. KeptInv' /\ ServedInv'
  BY <1>1 DEF DeployInv, KeptInv, Kept, ServedInv
<1> QED BY <1>2, <1>3, <1>4 DEF DeployInv

LEMMA SaveConfiguredInv ==
    ASSUME DeployInv, SaveConfigured
    PROVE  DeployInv'
<1>1. /\ UNCHANGED <<configured, active, deployment, submitted, deployed, served, abandoned>>
      /\ phase = "saving_configured" /\ saved' = configured /\ phase' = "initialising"
  BY DEF SaveConfigured
<1>2. configured \in ConfiguredAddresses /\ configured # NoAddress /\ active = configured
  BY <1>1 DEF DeployInv, DeployTypeOK, PhaseInv
<1>3. DeployTypeOK'
  BY <1>1, <1>2 DEF DeployInv, DeployTypeOK, Phases
<1>4. PhaseInv'
  BY <1>1, <1>2 DEF DeployInv, PhaseInv
<1>5. KeptInv' /\ ServedInv'
  BY <1>1, <1>2 DEF DeployInv, KeptInv, Kept, ServedInv
<1> QED BY <1>3, <1>4, <1>5 DEF DeployInv

LEMMA SubmitDeploymentInv ==
    ASSUME DeployInv, SubmitDeployment
    PROVE  DeployInv'
<1>1. /\ UNCHANGED <<phase, configured, active, saved, deployed, served, abandoned>>
      /\ phase = "deploying" /\ deployment = NoAddress
  BY DEF SubmitDeployment
<1>2. PICK address \in Addresses \ (deployed \cup submitted) :
          deployment' = address /\ submitted' = submitted \cup {address}
  BY DEF SubmitDeployment
<1>3. saved = NoAddress
  BY <1>1 DEF DeployInv, PhaseInv
<1>4. Kept = {}
  BY <1>1, <1>3 DEF DeployInv, DeployTypeOK, KeptInv, Kept
<1>5. Kept' \subseteq {address}
  BY <1>1, <1>2, <1>4 DEF Kept
<1>6. DeployTypeOK'
  BY <1>1, <1>2 DEF DeployInv, DeployTypeOK
<1>7. PhaseInv'
  BY <1>1, <1>2 DEF DeployInv, PhaseInv
<1>8. KeptInv' /\ ServedInv'
  BY <1>1, <1>2, <1>5 DEF DeployInv, KeptInv, ServedInv
<1> QED BY <1>6, <1>7, <1>8 DEF DeployInv

LEMMA SaveDeployedInv ==
    ASSUME DeployInv, SaveDeployed
    PROVE  DeployInv'
<1>1. /\ UNCHANGED <<configured, submitted, deployed, served, abandoned>>
      /\ phase = "saving_deployed" /\ phase' = "initialising"
      /\ saved' = deployment /\ active' = deployment /\ deployment' = NoAddress
  BY DEF SaveDeployed
<1>2. deployment \in deployed /\ deployment # NoAddress /\ saved = NoAddress
  BY <1>1 DEF DeployInv, PhaseInv
<1>3. DeployTypeOK'
  BY <1>1, <1>2 DEF DeployInv, DeployTypeOK, Phases
<1>4. PhaseInv'
  BY <1>1 DEF PhaseInv
<1>5. KeptInv'
  BY <1>1, <1>2 DEF DeployInv, KeptInv, Kept
<1>6. ServedInv'
  BY <1>1, <1>2 DEF DeployInv, ServedInv
<1> QED BY <1>3, <1>4, <1>5, <1>6 DEF DeployInv

LEMMA ServeInv ==
    ASSUME DeployInv, Serve
    PROVE  DeployInv'
<1>1. /\ UNCHANGED <<configured, active, deployment, saved, submitted, deployed, abandoned>>
      /\ phase = "initialising" /\ phase' = "serving" /\ served' = active
  BY DEF Serve
<1>2. DeployTypeOK' /\ PhaseInv'
  BY <1>1 DEF DeployInv, DeployTypeOK, Phases, PhaseInv
<1>3. KeptInv' /\ ServedInv'
  BY <1>1 DEF DeployInv, PhaseInv, KeptInv, Kept, ServedInv
<1> QED BY <1>2, <1>3 DEF DeployInv

LEMMA LandDeploymentInv ==
    ASSUME DeployInv, NEW address \in Addresses, LandDeployment(address)
    PROVE  DeployInv'
<1>1. /\ UNCHANGED <<phase, configured, active, deployment, saved, served, abandoned>>
      /\ address \in submitted
      /\ submitted' = submitted \ {address} /\ deployed' = deployed \cup {address}
  BY DEF LandDeployment
<1>2. DeployTypeOK' /\ PhaseInv'
  BY <1>1 DEF DeployInv, DeployTypeOK, PhaseInv
<1>3. Kept' \subseteq Kept
  BY <1>1 DEF Kept
<1>4. KeptInv' /\ ServedInv'
  BY <1>1, <1>3 DEF DeployInv, KeptInv, ServedInv
<1> QED BY <1>2, <1>4 DEF DeployInv

\* An exit abandons the deployment in progress, unless it has been saved.
LEMMA ExitProcessInv ==
    ASSUME DeployInv, ExitProcess
    PROVE  DeployInv'
<1>1. /\ UNCHANGED <<configured, submitted, deployed, served>>
      /\ phase' = "down" /\ active' = NoAddress /\ deployment' = NoAddress
      /\ abandoned' = abandoned \cup ({deployment} \ {NoAddress, saved'})
  BY DEF ExitProcess
<1>2. \/ saved' = saved
      \/ saved' = configured /\ configured \in ConfiguredAddresses
      \/ saved' = deployment /\ deployment \in deployed /\ saved = NoAddress
  <2>1. CASE UNCHANGED saved
    BY <2>1
  <2>2. CASE phase = "saving_configured" /\ saved' = configured
    BY <2>2 DEF DeployInv, DeployTypeOK, PhaseInv
  <2>3. CASE phase = "saving_deployed" /\ saved' = deployment
    BY <2>3 DEF DeployInv, PhaseInv
  <2> QED BY <2>1, <2>2, <2>3 DEF ExitProcess
<1>3. DeployTypeOK'
  BY <1>1, <1>2 DEF DeployInv, DeployTypeOK, Phases
<1>4. PhaseInv'
  BY <1>1 DEF PhaseInv
<1>5. KeptInv'
  <2>1. Kept' \subseteq Kept
    BY <1>1 DEF Kept
  <2>2. saved' = NoAddress => saved = NoAddress
    BY <1>2 DEF DeployInv, DeployTypeOK
  <2>3. saved' = NoAddress => Kept' \subseteq {deployment'}
    BY <1>1, <2>1, <2>2 DEF DeployInv, KeptInv, Kept
  <2> QED BY <2>1, <2>3 DEF DeployInv, KeptInv
<1>6. ServedInv'
  BY <1>1, <1>2 DEF DeployInv, ServedInv
<1> QED BY <1>3, <1>4, <1>5, <1>6 DEF DeployInv

LEMMA DeployStepInv ==
    ASSUME DeployInv, [DeployNext \/ ExitProcess]_deployVars
    PROVE  DeployInv'
<1>1. CASE UNCHANGED deployVars
  BY <1>1 DEF deployVars, DeployInv, DeployTypeOK, PhaseInv, KeptInv, Kept, ServedInv
<1> QED BY <1>1, QuietStepInv, SaveConfiguredInv, SubmitDeploymentInv, SaveDeployedInv, ServeInv,
           LandDeploymentInv, ExitProcessInv DEF DeployNext, StartStep

-----------------------------------------------------------------------------
(* Theorems *)

\* However often the process exits, and wherever, the backend serves a contract that is saved and
\* on the chain, and keeps no second one (contract-service.ts:597-662).
THEOREM DeployOneContractKept == DeploySpec => []OneContractKept
<1>1. DeployInv => OneContractKept
  <2> SUFFICES ASSUME DeployInv PROVE OneContractKept
    OBVIOUS
  <2>1. phase = "serving" /\ active # NoAddress => active = saved /\ active \in deployed \cup ConfiguredAddresses
    BY DEF DeployInv, DeployTypeOK, PhaseInv
  <2>2. PICK address : Kept \subseteq {address}
    BY DEF DeployInv, KeptInv
  <2>3. IsFiniteSet({address}) /\ Cardinality({address}) = 1
    BY FS_Singleton
  <2>4. Kept \in SUBSET {address}
    BY <2>2
  <2>5. Cardinality(Kept) <= 1
    BY <2>3, <2>4, FS_Subset
  <2> QED BY <2>1, <2>5 DEF OneContractKept, Kept
<1> QED BY <1>1, DeployInitInv, DeployStepInv, PTL DEF DeploySpec

\* And it moves from an address it has served to another one only if the operator configures that
\* (contract-service.ts:399-417).
THEOREM DeployAddressStable == DeploySpec => AddressStable
<1> DEFINE Stable == phase' = "serving" /\ phase # "serving" =>
                         served \in {NoAddress, served'} \/ served' \in ConfiguredAddresses
<1>1. ASSUME DeployInv, [DeployNext \/ ExitProcess]_deployVars PROVE [Stable]_deployVars
  <2> SUFFICES ASSUME phase' = "serving", phase # "serving"
               PROVE  served \in {NoAddress, served'} \/ served' \in ConfiguredAddresses
    OBVIOUS
  <2>1. Serve
    BY <1>1 DEF DeployNext, StartStep, StartProcess, InitAddress, SaveConfigured, FindSaved,
                SubmitDeployment, JoinDeployed, SaveDeployed, LandDeployment, ExitProcess, deployVars
  <2>2. served' = saved
    BY <1>1, <2>1 DEF Serve, DeployInv, PhaseInv
  <2> QED BY <1>1, <2>2 DEF DeployInv, ServedInv
<1> QED BY <1>1, DeployInitInv, DeployStepInv, PTL DEF DeploySpec, AddressStable

=============================================================================
