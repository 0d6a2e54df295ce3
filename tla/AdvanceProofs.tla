--------------------------- MODULE AdvanceProofs ---------------------------
(***************************************************************************)
(* Proofs about Advance, for any number of subjects, timers, operations    *)
(* and edits: what a retried advance command is told, the deadlines that   *)
(* are met, the guard that is reported and who may move the clock.         *)
(***************************************************************************)
EXTENDS Advance, WellFoundedInduction, TLAPS

\* Operations are numbered as they are issued, and entries exist for issued
\* operations only.
Issued ==
    /\ issued \in 0..MaxOps
    /\ op.id \in 0..issued
    /\ op = [id |-> op.id, status |-> op.status, target |-> op.target, current |-> op.current]
    /\ op.status \in Ended \cup {"none", "waiting"}
    /\ reply \in [1..MaxOps -> Ended \cup {"none", "waiting"}]
    /\ \A i \in 1..MaxOps : i > issued => reply[i] = "none"

\* OperationsSettle alone does not say that the next number is unused.
IInv == Issued /\ OperationsSettle

\* o may follow op: it is the same operation, and only goes on waiting.
Follows(o) ==
    /\ o = [id |-> op.id, status |-> o.status, target |-> op.target, current |-> o.current]
    /\ o.status \in Ended \cup {"none", "waiting"}
    /\ o.status = "waiting" => op.status = "waiting" /\ o.current

\* A command that publishes a successor of the operation keeps its idempotency
\* entry in step.
LEMMA PublishKeeps ==
    ASSUME IInv, NEW S, NEW o, Publish(S, o), Follows(o), UNCHANGED issued
    PROVE  IInv'
<1> USE AdvanceAssumption
<1>1. reply' = [i \in 1..MaxOps |-> IF i = o.id /\ reply[i] # "none" THEN o.status ELSE reply[i]]
  BY DEF Publish
<1>2. op' = o /\ o.id = op.id
  BY DEF Publish, Follows
<1>3. Issued'
  <2>1. /\ op' = [id |-> op'.id, status |-> op'.status, target |-> op'.target, current |-> op'.current]
        /\ op'.id \in 0..issued'
        /\ op'.status \in Ended \cup {"none", "waiting"}
    BY <1>2 DEF IInv, Issued, Follows
  <2>2. \A i \in 1..MaxOps : i > issued' => reply'[i] = "none"
    BY <1>1 DEF IInv, Issued
  <2>3. reply' \in [1..MaxOps -> Ended \cup {"none", "waiting"}]
    BY <1>1 DEF IInv, Issued, Follows
  <2> QED BY <2>1, <2>2, <2>3 DEF IInv, Issued
<1>4. op'.status = "waiting" => op'.current
  BY <1>2 DEF Follows
<1>5. ASSUME NEW i \in 1..MaxOps
      PROVE  /\ reply'[i] = "waiting" => op'.id = i
             /\ op'.id = i /\ reply'[i] # "none" => reply'[i] = op'.status
  BY <1>1, <1>2 DEF IInv, OperationsSettle
<1> QED BY <1>3, <1>4, <1>5 DEF IInv, OperationsSettle

\* The first states.
LEMMA InitSettles == Init => IInv
<1> SUFFICES ASSUME Init PROVE IInv
  OBVIOUS
<1>1. Issued
  BY AdvanceAssumption DEF Init, Issued, NoOperation
<1>2. OperationsSettle
  BY DEF Init, OperationsSettle, NoOperation
<1> QED BY <1>1, <1>2 DEF IInv

\* A new operation takes a number no entry has, and no other waits.
LEMMA StartSettles ==
    ASSUME IInv, NEW target, NEW entries, entries \subseteq {"none", "waiting"}, Start(target, entries)
    PROVE  IInv'
<1> USE AdvanceAssumption
<1>1. PICK done \in advance(target) :
        IF Pending(done.subject)
        THEN /\ issued < MaxOps
             /\ issued' = issued + 1
             /\ op' = [id |-> issued', status |-> "waiting", target |-> target, current |-> TRUE]
             /\ \E e \in entries : reply' = [reply EXCEPT ![issued'] = e]
        ELSE UNCHANGED <<issued, op, reply>>
  BY DEF Start
<1>2. op.status # "waiting"
  BY DEF Start, Owned
<1>3. CASE ~Pending(done.subject)
  BY <1>1, <1>3 DEF IInv, Issued, OperationsSettle
<1>4. CASE Pending(done.subject)
  <2>1. PICK e \in entries : reply' = [reply EXCEPT ![issued'] = e]
    BY <1>1, <1>4
  <2>2. /\ issued' = issued + 1 /\ issued' \in 1..MaxOps
        /\ op' = [id |-> issued', status |-> "waiting", target |-> target, current |-> TRUE]
    BY <1>1, <1>4 DEF IInv, Issued
  <2>3. reply' = [i \in 1..MaxOps |-> IF i = issued' THEN e ELSE reply[i]]
    BY <2>1, <2>2 DEF IInv, Issued
  <2>4. Issued'
    <3>1. \A i \in 1..MaxOps : i > issued' => reply'[i] = "none"
      BY <2>2, <2>3 DEF IInv, Issued
    <3> QED BY <2>2, <2>3, <3>1 DEF IInv, Issued
  <2>5. \A i \in 1..MaxOps : i # issued' => reply'[i] # "waiting"
    BY <1>2, <2>3 DEF IInv, OperationsSettle
  <2>6. reply'[issued'] \in {"none", "waiting"}
    BY <2>2, <2>3
  <2> QED BY <2>2, <2>4, <2>5, <2>6 DEF IInv, OperationsSettle
<1> QED BY <1>3, <1>4

\* Every step keeps the numbering and the agreement.
LEMMA NextSettles == IInv /\ [Next]_vars => IInv'
<1> SUFFICES ASSUME IInv, [Next]_vars PROVE IInv'
  OBVIOUS
<1>0. Follows(op)
  BY DEF Follows, IInv, Issued, OperationsSettle
<1>1. \A t : Follows(Failing(t))
  BY <1>0 DEF Follows, Failing, IInv, Issued, Ended
<1>2. \A status \in Ended \cup {"waiting"} : op.status = "waiting" => Follows([op EXCEPT !.status = status])
  BY <1>0 DEF Follows, IInv, Issued
<1>3. \A status \in Ended : Follows(Interrupted(status))
  <2> TAKE status \in Ended
  <2>1. Interrupted(status).status \in (Ended \cup {"none", "waiting"}) \ {"waiting"}
    BY DEF Interrupted, IInv, Issued, Ended
  <2> QED BY <2>1 DEF Interrupted, Follows
<1>4. CASE Pause \/ Resume \/ UNCHANGED vars
  BY <1>4 DEF Pause, Resume, vars, IInv, Issued, OperationsSettle
<1>5. ASSUME NEW target, Manual(target) \/ Automatic(target)
      PROVE  IInv'
  BY <1>5, StartSettles DEF Manual, Automatic
<1>6. CASE Proceed
  <2>1. CASE Continue
    BY <1>2, <2>1, PublishKeeps DEF Continue, Ended
  <2>2. CASE Fail
    BY <1>2, <2>2, PublishKeeps DEF Fail, Ended
  <2> QED BY <1>6, <2>1, <2>2 DEF Proceed
<1>7. CASE Cancel
  BY <1>2, <1>7, PublishKeeps DEF Cancel, Ended
<1>8. CASE Discover
  BY <1>1, <1>8, PublishKeeps DEF Discover
<1>9. ASSUME NEW s \in Subject, Answer(s)
      PROVE  IInv'
  <2>1. CASE Reject(s)
    BY <1>0, <2>1, PublishKeeps DEF Reject
  <2>2. CASE FallBack(s)
    BY <1>1, <2>2, PublishKeeps DEF FallBack
  <2>3. ASSUME NEW p \in Policy, Accept(s, p)
        PROVE  IInv'
    BY <1>1, <2>3, PublishKeeps DEF Accept
  <2> QED BY <1>9, <2>1, <2>2, <2>3 DEF Answer
<1>10. ASSUME NEW s \in Subject, Leave(s) \/ Return(s) \/ Restart(s) \/ Reauthenticate(s)
       PROVE  IInv'
  BY <1>0, <1>10, PublishKeeps DEF Leave, Return, Restart, Reauthenticate
<1>11. CASE EditVlans
  BY <1>0, <1>11, PublishKeeps DEF EditVlans
<1>12. ASSUME NEW status \in {"interrupted-on-reset", "interrupted-on-boot"}, Reset(status)
       PROVE  IInv'
  BY <1>3, <1>12, PublishKeeps DEF Reset, Ended
<1>13. CASE Reload
  <2>1. /\ op' = [id |-> 0, status |-> "none", target |-> 0, current |-> TRUE]
        /\ reply' = [i \in 1..MaxOps |-> Restored(reply[i])]
        /\ issued' = issued
    BY <1>13 DEF Reload, NoOperation
  <2>2. \A i \in 1..MaxOps : reply'[i] # "waiting" /\ (reply[i] = "none" => reply'[i] = "none")
    BY <2>1 DEF Restored
  <2>3. Issued'
    BY <2>1, <2>2, AdvanceAssumption DEF IInv, Issued, Restored, Ended
  <2> QED BY <2>1, <2>2, <2>3 DEF IInv, OperationsSettle
<1> QED BY <1>4, <1>5, <1>6, <1>7, <1>8, <1>9, <1>10, <1>11, <1>12, <1>13 DEF Next

\* For any number of subjects, advances, resets and restarts, only the current
\* operation on its own timeline is ever reported as waiting.
THEOREM RepliesSettle == Spec => []OperationsSettle
<1>1. IInv => OperationsSettle
  BY DEF IInv
<1> QED BY <1>1, InitSettles, NextSettles, PTL DEF Spec

-----------------------------------------------------------------------------
(***************************************************************************)
(* Runtime.advance                                                         *)
(***************************************************************************)

Begin == [at |-> now, subject |-> subject, tripped |-> FALSE]

\* One more instant of an advance.
Further(W, t) == UNION {IF Pending(w.subject) THEN {w} ELSE Ticks(w, t) : w \in W}

\* Where an advance may stand at each instant.
IsRun(f, target) ==
    f = [t \in now..target |-> IF t = now THEN Ticks(Begin, t) ELSE Further(f[t - 1], t)]

\* advance is the last place of the run it defines, if there is a run at all.
LEMMA AdvanceIsRun ==
    ASSUME NEW target, \E f : IsRun(f, target)
    PROVE  \E f : IsRun(f, target) /\ advance(target) = f[target]
<1> DEFINE run[t \in now..target] ==
              IF t = now THEN Ticks(Begin, t)
              ELSE UNION {IF Pending(w.subject) THEN {w} ELSE Ticks(w, t) : w \in run[t - 1]}
<1>1. advance(target) = run[target]
  BY DEF advance, Begin
<1>2. IsRun(run, target)
  BY DEF IsRun, Further
<1> QED BY <1>1, <1>2

\* A set of numbers that is not empty has a least one.
LEMMA Least ==
    ASSUME NEW T \in SUBSET Nat, T # {}
    PROVE  \E x \in T : \A y \in T : x <= y
<1> DEFINE less == OpToRel(<, Nat)
<1>1. IsWellFoundedOn(less, Nat)
  BY NatLessThanWellFounded
<1>2. \E x \in T : \A y \in T : ~(<<y, x>> \in less)
  <2> HIDE DEF less
  <2> QED BY <1>1, WFMin
<1>3. PICK x \in T : \A y \in T : ~(<<y, x>> \in less)
  BY <1>2
<1>4. \A y \in T : ~(y < x)
  BY <1>3 DEF OpToRel
<1> QED BY <1>4

\* An advance has a run: the recursion in it ends at the present instant.
LEMMA RunExists ==
    ASSUME now \in Nat
    PROVE  \A n \in Nat : \E f : IsRun(f, now + n)
<1> DEFINE T == {n \in Nat : ~ \E f : IsRun(f, now + n)}
<1> SUFFICES ASSUME T # {} PROVE FALSE
  OBVIOUS
<1>1. PICK n \in T : \A y \in T : n <= y
  BY Least
<1>2. CASE n = 0
  <2> DEFINE f == [t \in now..now |-> Ticks(Begin, t)]
  <2>1. now..(now + 0) = now..now /\ \A t \in now..now : t = now
    OBVIOUS
  <2>2. IsRun(f, now + 0)
    BY <2>1 DEF IsRun
  <2> QED BY <1>1, <1>2, <2>2
<1>3. CASE n # 0
  <2>1. n - 1 \in Nat /\ n - 1 \notin T
    BY <1>1, <1>3
  <2>2. PICK g : IsRun(g, now + (n - 1))
    BY <2>1
  <2> DEFINE last == now + n
             f == [t \in now..last |-> IF t = last THEN Further(g[t - 1], t) ELSE g[t]]
  <2>3. \A t \in now..(now + (n - 1)) :
           g[t] = IF t = now THEN Ticks(Begin, t) ELSE Further(g[t - 1], t)
    BY <2>2 DEF IsRun
  <2>4. ASSUME NEW t \in now..last
        PROVE  f[t] = IF t = now THEN Ticks(Begin, t) ELSE Further(f[t - 1], t)
    <3>1. CASE t = last
      <4>1. t - 1 \in now..last /\ t - 1 # last /\ t # now
        BY <1>3, <3>1
      <4>2. f[t - 1] = g[t - 1]
        BY <4>1
      <4> QED BY <3>1, <4>1, <4>2
    <3>2. CASE t # last
      <4>1. t \in now..(now + (n - 1))
        BY <3>2
      <4>2. f[t] = g[t]
        BY <3>2
      <4>3. CASE t = now
        BY <2>3, <4>1, <4>2, <4>3
      <4>4. CASE t # now
        <5>1. t - 1 \in now..last /\ t - 1 # last
          BY <4>1, <4>4
        <5>2. f[t - 1] = g[t - 1]
          BY <5>1
        <5> HIDE DEF f
        <5> QED BY <2>3, <4>1, <4>2, <4>4, <5>2
      <4> QED BY <4>3, <4>4
    <3> QED BY <3>1, <3>2
  <2>5. f = [t \in now..last |-> f[t]]
    OBVIOUS
  <2> HIDE DEF f
  <2>6. f = [t \in now..last |-> IF t = now THEN Ticks(Begin, t) ELSE Further(f[t - 1], t)]
    BY <2>4, <2>5
  <2>7. IsRun(f, now + n)
    BY <2>6 DEF IsRun
  <2> QED BY <1>1, <2>7
<1> QED BY <1>2, <1>3

\* The instant of what an instant leaves.
LEMMA TicksAt == ASSUME NEW w, NEW t, NEW x \in Ticks(w, t) PROVE x.at = t
BY DEF Ticks

\* Where every instant of an advance stays within R, the advance does; it ends
\* at its target or with an exchange pending.
LEMMA AdvanceWithin ==
    ASSUME now \in Nat, NEW target \in Nat, now <= target, NEW R, Ticks(Begin, now) \subseteq R,
           \A w \in R : ~Pending(w.subject) /\ w.at \in now..target - 1 => Ticks(w, w.at + 1) \subseteq R
    PROVE  \A w \in advance(target) :
              w \in R /\ w.at \in now..target /\ (w.at = target \/ Pending(w.subject))
<1>1. target - now \in Nat /\ now + (target - now) = target
  OBVIOUS
<1>2. \E f : IsRun(f, target)
  BY <1>1, RunExists
<1>3. PICK f : IsRun(f, target) /\ advance(target) = f[target]
  BY <1>2, AdvanceIsRun
<1>4. \A t \in now..target : f[t] = IF t = now THEN Ticks(Begin, t) ELSE Further(f[t - 1], t)
  BY <1>3 DEF IsRun
<1> DEFINE Good(t) == {w \in R : w.at \in now..t /\ (w.at = t \/ Pending(w.subject))}
           T == {t \in now..target : ~(f[t] \subseteq Good(t))}
<1>5. T = {}
  <2> SUFFICES ASSUME T # {} PROVE FALSE
    OBVIOUS
  <2>0. T \in SUBSET Nat
    OBVIOUS
  <2>1. PICK t \in T : \A y \in T : t <= y
    <3> HIDE DEF T
    <3> QED BY <2>0, Least
  <2>2. CASE t = now
    <3>1. f[t] = Ticks(Begin, now)
      BY <1>4, <2>2
    <3>2. f[t] \subseteq Good(t)
      BY <3>1, <2>2, TicksAt
    <3> QED BY <2>1, <3>2
  <2>3. CASE t # now
    <3>1. t - 1 \in now..target /\ ~(t <= t - 1)
      BY <2>3
    <3>2. f[t - 1] \subseteq Good(t - 1)
      BY <2>1, <3>1
    <3>3. f[t] = Further(f[t - 1], t)
      BY <1>4, <2>3
    <3>4. ASSUME NEW x \in f[t] PROVE x \in Good(t)
      <4>1. PICK w \in f[t - 1] : x \in IF Pending(w.subject) THEN {w} ELSE Ticks(w, t)
        BY <3>3 DEF Further
      <4>2. /\ w \in R /\ w.at \in now..(t - 1)
            /\ w.at = t - 1 \/ Pending(w.subject)
        BY <3>2
      <4>3. CASE Pending(w.subject)
        BY <3>1, <4>1, <4>2, <4>3
      <4>4. CASE ~Pending(w.subject)
        <5>1. x \in Ticks(w, t) /\ w.at = t - 1
          BY <4>1, <4>2, <4>4
        <5>2. w.at + 1 = t /\ w.at \in now..target - 1
          BY <5>1, <3>1
        <5>3. x \in R
          BY <4>2, <4>4, <5>1, <5>2
        <5>4. x.at = t
          BY <5>1, TicksAt
        <5> QED BY <5>3, <5>4
      <4> QED BY <4>3, <4>4
    <3> QED BY <2>1, <3>4
  <2> QED BY <2>2, <2>3
<1>6. f[target] \subseteq Good(target)
  BY <1>5
<1> QED BY <1>3, <1>6

-----------------------------------------------------------------------------
(***************************************************************************)
(* The timers of one subject                                               *)
(***************************************************************************)

\* What process_session_deadlines relies on at instant t: only a client that is
\* here is being authenticated, and a client that is sought, or is not here, has
\* left its session's port.
Timed(x, t) ==
    /\ x \in State
    /\ x.attempt # None => x.here
    /\ x.grant # None =>
          /\ x.grant.active <= t
          /\ ~x.here => x.grant.left
          /\ x.grant.renewing # "no" /\ x.attempt = None => x.grant.left

\* A renewal due before t is past only when the client left.
Behind(x, t) ==
    x.grant # None /\ x.grant.policy.renew /\ x.grant.auth + x.grant.policy.lease < t => x.grant.left

\* The deadlines up to t have had effect.
Met(x, t) ==
    x.grant # None =>
        /\ ~Lapsed(x.grant, t)
        /\ x.grant.renewing # "no" /\ x.attempt = None => x.due > t

Sound(x, t) == Timed(x, t) /\ Behind(x, t) /\ Met(x, t)

\* The clock, its subjects and the operation that waits for them.
Clocked ==
    /\ now \in Instant /\ paused \in BOOLEAN /\ edits \in 0..MaxEdits
    /\ subject \in [Subject -> State]
    /\ \A s \in Subject : Sound(subject[s], now)
    /\ op.target \in Instant /\ op.current \in BOOLEAN
    /\ op.status = "waiting" => op.id \in 1..issued /\ now <= op.target

\* Operations that ran out of budget were issued and are reported.
Guarded == guarded \subseteq 1..issued /\ GuardReported

\* The parts of a subject.
LEMMA Parts ==
    ASSUME NEW x \in State
    PROVE  /\ x.here \in BOOLEAN /\ x.asleep \in BOOLEAN /\ x.heard \in BOOLEAN
           /\ x.attempt \in Attempt \cup {None}
           /\ x.retry \in 0..Horizon + Retry /\ x.due \in 0..Horizon + Discovery /\ x.used \in 0..Budget
           /\ x.grant # None =>
                 /\ x.grant \in Grant /\ x.grant.auth \in Nat /\ x.grant.active \in Nat
                 /\ x.grant.policy.lease \in Nat /\ x.grant.policy.idle \in Nat
                 /\ x.grant.policy.renew \in BOOLEAN /\ x.grant.left \in BOOLEAN
                 /\ x.grant.renewing \in {"no", "auto", "manual"}
<1>1. ASSUME NEW g \in Grant
      PROVE  /\ g.auth \in Nat /\ g.active \in Nat /\ g.left \in BOOLEAN
             /\ g.policy.lease \in Nat /\ g.policy.idle \in Nat /\ g.policy.renew \in BOOLEAN
             /\ g.renewing \in {"no", "auto", "manual"}
  <2>1. g.policy \in [lease : Nat, renew : BOOLEAN, idle : Nat]
    BY AdvanceAssumption DEF Grant
  <2>2. g.auth \in Instant /\ g.active \in Instant
    BY DEF Grant
  <2>3. g.auth \in Nat /\ g.active \in Nat
    BY <2>2, AdvanceAssumption DEF Instant
  <2> QED BY <2>1, <2>3 DEF Grant
<1>2. x.grant \in Grant \cup {None}
  BY DEF State
<1> QED BY <1>1, <1>2 DEF State

\* A grant or an attempt is something.
LEMMA Something == None \notin Grant /\ None \notin Attempt
<1>1. Grant \subseteq [policy : Policy, auth : Nat, active : Nat, left : BOOLEAN,
                       renewing : {"no", "auto", "manual"}]
  BY AdvanceAssumption DEF Grant, Instant
<1> QED BY <1>1, AdvanceAssumption DEF Attempt

\* A new status touches nothing else.
LEMMA FreshFacts ==
    ASSUME NEW x \in State
    PROVE  /\ Fresh(x) \in State
           /\ Fresh(x).here = x.here /\ Fresh(x).grant = x.grant /\ Fresh(x).attempt = x.attempt
           /\ Fresh(x).used = x.used
<1>1. 0 \in 0..Horizon + Retry /\ 0 \in 0..Horizon + Discovery
  BY AdvanceAssumption
<1> QED BY <1>1 DEF Fresh, State

\* end_session leaves no grant and no attempt.
LEMMA EndFacts ==
    ASSUME NEW x \in State
    PROVE  /\ end_session(x) \in State
           /\ end_session(x).here = x.here /\ end_session(x).grant = None
           /\ end_session(x).attempt = None
BY FreshFacts DEF end_session, State

\* begin_authentication starts an attempt, unless the budget is spent.
LEMMA BeginFacts ==
    ASSUME NEW x \in State, NEW auto \in BOOLEAN, NEW mab \in BOOLEAN, NEW t \in Instant
    PROVE  LET y == begin_authentication(x, auto, mab, t)
           IN /\ y \in State /\ y.here = x.here
              /\ IF auto /\ Spent(x) THEN y.grant = None /\ y.attempt = None
                 ELSE y.grant = x.grant /\ y.attempt # None
<1> DEFINE y == begin_authentication(x, auto, mab, t)
<1>1. CASE auto /\ Spent(x)
  <2>1. t + Retry \in 0..Horizon + Retry
    BY AdvanceAssumption DEF Instant
  <2>2. y = [end_session(x) EXCEPT !.retry = t + Retry]
    BY <1>1 DEF begin_authentication
  <2> QED BY <1>1, <2>1, <2>2, EndFacts DEF State
<1>2. CASE ~(auto /\ Spent(x))
  <2> DEFINE u == IF auto /\ Fresh(x).used < Budget THEN Fresh(x).used + 1 ELSE Fresh(x).used
             a == [auto |-> auto, mab |-> mab]
  <2>1. u \in 0..Budget
    BY FreshFacts, Parts, AdvanceAssumption
  <2>2. a \in Attempt /\ a # None
    BY Something DEF Attempt
  <2>3. y = [Fresh(x) EXCEPT !.attempt = a, !.used = u]
    BY <1>2 DEF begin_authentication
  <2> HIDE DEF u, a
  <2> QED BY <1>2, <2>1, <2>2, <2>3, FreshFacts DEF State
<1> QED BY <1>1, <1>2

\* The grant stays what it is, but for how it is being renewed.
LEMMA RenewFacts ==
    ASSUME NEW x \in State, x.grant # None, NEW how \in {"no", "auto", "manual"}
    PROVE  LET y == Renewing(x, how)
           IN /\ y \in State /\ y.here = x.here /\ y.attempt = x.attempt /\ y.used = x.used
              /\ y.grant # None /\ y.grant.renewing = how
              /\ y.grant.policy = x.grant.policy /\ y.grant.auth = x.grant.auth
              /\ y.grant.active = x.grant.active /\ y.grant.left = x.grant.left
<1> DEFINE g == [x.grant EXCEPT !.renewing = how]
<1>1. x.grant \in Grant
  BY Parts
<1>2. /\ g \in Grant /\ g.renewing = how /\ g.policy = x.grant.policy /\ g.auth = x.grant.auth
      /\ g.active = x.grant.active /\ g.left = x.grant.left
  BY <1>1 DEF Grant
<1>3. Renewing(x, how) = [x EXCEPT !.grant = g]
  BY DEF Renewing
<1> HIDE DEF g
<1> QED BY <1>2, <1>3, Something DEF State

\* A search ends after the instant at which it begins.
LEMMA SeekFacts ==
    ASSUME NEW x \in State, x.grant # None, NEW how \in {"auto", "manual"}, NEW t \in Instant
    PROVE  LET y == Seek(x, how, t)
           IN /\ y \in State /\ y.here = x.here /\ y.attempt = x.attempt /\ y.due > t
              /\ y.grant # None /\ y.grant.renewing = how
              /\ y.grant.policy = x.grant.policy /\ y.grant.auth = x.grant.auth
              /\ y.grant.active = x.grant.active /\ y.grant.left = x.grant.left
<1> DEFINE z == Renewing(x, how)
<1>1. /\ z \in State /\ z.here = x.here /\ z.attempt = x.attempt
      /\ z.grant # None /\ z.grant.renewing = how
      /\ z.grant.policy = x.grant.policy /\ z.grant.auth = x.grant.auth
      /\ z.grant.active = x.grant.active /\ z.grant.left = x.grant.left
  BY RenewFacts
<1> HIDE DEF z
<1>2. Fresh(z) \in State /\ Fresh(z).here = z.here /\ Fresh(z).grant = z.grant /\ Fresh(z).attempt = z.attempt
  BY <1>1, FreshFacts
<1>3. Seek(x, how, t) = [Fresh(z) EXCEPT !.due = t + Discovery]
  BY DEF Seek, z
<1>4. t + Discovery \in 0..Horizon + Discovery /\ t + Discovery > t
  BY AdvanceAssumption DEF Instant
<1> DEFINE y == Seek(x, how, t)
<1>5. y \in State /\ y.here = Fresh(z).here /\ y.grant = Fresh(z).grant /\ y.attempt = Fresh(z).attempt
      /\ y.due = t + Discovery
  BY <1>2, <1>3, <1>4 DEF State
<1> QED BY <1>1, <1>2, <1>4, <1>5

\* A grant with the timers, the age and the activity of another lapses with it.
LEMMA SameTimers ==
    ASSUME NEW g, NEW h, NEW t, g.policy = h.policy, g.auth = h.auth, g.active = h.active
    PROVE  Lapsed(g, t) <=> Lapsed(h, t)
BY DEF Lapsed

\* process_session_deadlines, where no renewal before t was passed over: the
\* deadlines have had effect, an attempt under way goes on, and a renewal due
\* now is under way or its client has left.
LEMMA ProcessSound ==
    ASSUME NEW t \in Instant, NEW x, Timed(x, t), Behind(x, t)
    PROVE  LET y == process(x, t)
           IN /\ Sound(y, t)
              /\ y.attempt = None => Behind(y, t + 1)
              /\ Met(x, t) /\ x.attempt # None => y.attempt # None
              /\ Trips(x, t) => x.grant # None /\ y.grant = None
<1> DEFINE y == process(x, t)
<1>0. x \in State /\ t \in Nat
  BY AdvanceAssumption DEF Timed, Instant
<1>1. CASE x.grant # None /\ Lapsed(x.grant, t)
  <2>1. y = [end_session(x) EXCEPT !.asleep = x.here]
    BY <1>1 DEF process, Wanted
  <2>2. x.here \in BOOLEAN
    BY <1>0, Parts
  <2>3. y \in State /\ y.grant = None /\ y.attempt = None
    BY <1>0, <2>1, <2>2, EndFacts DEF State
  <2>4. ~Trips(x, t) /\ ~Met(x, t)
    BY <1>1 DEF Trips, Wanted, Met
  <2> QED BY <2>3, <2>4 DEF Sound, Timed, Behind, Met
<1>2. CASE ~(x.grant # None /\ Lapsed(x.grant, t)) /\ Wanted(x, t) /\ x.here
  <2> DEFINE z == Renewing(x, How(x))
             auto == How(x) = "auto"
  <2>0. x.grant # None /\ ~Lapsed(x.grant, t) /\ x.attempt = None
    BY <1>2 DEF Wanted
  <2>1. How(x) \in {"no", "auto", "manual"}
    BY <1>0, <2>0, Parts DEF How
  <2>2. /\ z \in State /\ z.here = x.here /\ z.used = x.used /\ z.grant # None
        /\ z.grant.policy = x.grant.policy /\ z.grant.auth = x.grant.auth
        /\ z.grant.active = x.grant.active /\ z.grant.left = x.grant.left
    BY <1>0, <2>0, <2>1, RenewFacts
  <2>3. y = begin_authentication(z, auto, FALSE, t)
    BY <1>2 DEF process
  <2>4. Spent(z) <=> Spent(x)
    BY <2>2 DEF Spent
  <2> HIDE DEF z
  <2>5. /\ y \in State /\ y.here = x.here
        /\ IF auto /\ Spent(x) THEN y.grant = None /\ y.attempt = None
           ELSE y.grant = z.grant /\ y.attempt # None
    <3>1. auto \in BOOLEAN
      OBVIOUS
    <3> HIDE DEF auto
    <3> DEFINE b == begin_authentication(z, auto, FALSE, t)
    <3>2. /\ b \in State /\ b.here = z.here
          /\ IF auto /\ Spent(z) THEN b.grant = None /\ b.attempt = None
             ELSE b.grant = z.grant /\ b.attempt # None
      BY <2>2, <3>1, BeginFacts
    <3>3. y = b
      BY <2>3
    <3> HIDE DEF b, y
    <3> QED BY <2>2, <2>4, <3>2, <3>3
  <2>6. Trips(x, t) => auto /\ Spent(x)
    BY DEF Trips
  <2>7. CASE y.grant = None
    BY <1>2, <2>0, <2>5, <2>7 DEF Sound, Timed, Behind, Met
  <2>8. CASE y.grant # None
    <3>1. y.grant = z.grant /\ y.attempt # None /\ ~(auto /\ Spent(x))
      BY <2>5, <2>8
    <3>2. ~Lapsed(y.grant, t)
      BY <2>0, <2>2, <3>1, SameTimers
    <3> HIDE DEF y, auto
    <3>3. Timed(y, t)
      BY <1>2, <2>0, <2>2, <2>5, <3>1 DEF Timed
    <3>4. Behind(y, t)
      BY <2>0, <2>2, <3>1 DEF Behind
    <3> QED BY <2>6, <3>1, <3>2, <3>3, <3>4, <2>0 DEF Sound, Met, y
  <2> QED BY <2>7, <2>8
<1>3. CASE ~(x.grant # None /\ Lapsed(x.grant, t)) /\ Wanted(x, t) /\ ~x.here
  <2>0. x.grant # None /\ ~Lapsed(x.grant, t) /\ x.attempt = None /\ x.grant.left
    BY <1>3 DEF Wanted, Timed
  <2>1. ~Trips(x, t)
    BY <1>3 DEF Trips
  <2>2. CASE x.grant.renewing = "no"
    <3>1. y = Seek(x, "auto", t)
      BY <1>3, <2>2 DEF process
    <3>2. /\ y \in State /\ y.here = x.here /\ y.attempt = x.attempt /\ y.due > t
          /\ y.grant # None
          /\ y.grant.policy = x.grant.policy /\ y.grant.auth = x.grant.auth
          /\ y.grant.active = x.grant.active /\ y.grant.left = x.grant.left
      <4> DEFINE b == Seek(x, "auto", t)
      <4>1. /\ b \in State /\ b.here = x.here /\ b.attempt = x.attempt /\ b.due > t
            /\ b.grant # None
            /\ b.grant.policy = x.grant.policy /\ b.grant.auth = x.grant.auth
            /\ b.grant.active = x.grant.active /\ b.grant.left = x.grant.left
        BY <1>0, <2>0, SeekFacts
      <4>2. y = b
        BY <3>1
      <4> HIDE DEF b, y
      <4> QED BY <4>1, <4>2
    <3>3. ~Lapsed(y.grant, t)
      BY <2>0, <3>2, SameTimers
    <3> HIDE DEF y
    <3>4. Timed(y, t) /\ Behind(y, t) /\ Behind(y, t + 1)
      BY <2>0, <3>2 DEF Timed, Behind
    <3> QED BY <2>0, <2>1, <3>2, <3>3, <3>4 DEF Sound, Met, y
  <2>3. CASE x.grant.renewing # "no"
    <3>1. y = end_session(x)
      BY <1>3, <2>3 DEF process
    <3>2. y \in State /\ y.grant = None /\ y.attempt = None
      BY <1>0, <3>1, EndFacts
    <3> QED BY <2>0, <2>1, <3>2 DEF Sound, Timed, Behind, Met
  <2> QED BY <2>2, <2>3
<1>4. CASE ~(x.grant # None /\ Lapsed(x.grant, t)) /\ ~Wanted(x, t)
  <2>1. y = x /\ ~Trips(x, t)
    BY <1>4 DEF process, Trips
  <2>2. CASE x.grant = None
    BY <2>1, <2>2 DEF Sound, Behind, Met
  <2>3. CASE x.grant # None
    <3>1. ~Lapsed(x.grant, t)
      BY <1>4, <2>3
    <3>2. x.due \in Nat /\ x.grant.auth \in Nat /\ x.grant.policy.lease \in Nat
      <4>1. x.due \in 0..Horizon + Discovery
        BY <1>0, Parts
      <4> QED BY <1>0, <2>3, <4>1, Parts
    <3>3. x.attempt = None /\ x.grant.renewing # "no" => x.due > t
      BY <1>0, <1>4, <2>3, <3>1, <3>2 DEF Wanted
    <3>4. x.attempt = None /\ x.grant.renewing = "no" => ~Due(x.grant, t)
      BY <1>4, <2>3, <3>1 DEF Wanted
    <3>5. x.attempt = None => Behind(x, t + 1)
      <4>1. CASE x.grant.renewing = "no"
        BY <1>0, <3>2, <3>4, <4>1 DEF Due, Behind
      <4>2. CASE x.grant.renewing # "no"
        BY <2>3, <4>2 DEF Timed, Behind
      <4> QED BY <4>1, <4>2
    <3> QED BY <2>1, <3>1, <3>3, <3>5 DEF Sound, Met
  <2> QED BY <2>2, <2>3
<1> QED BY <1>1, <1>2, <1>3, <1>4

\* prepare_authentication only starts attempts of clients without a session.
LEMMA PrepareSound ==
    ASSUME NEW t \in Instant, NEW x, Sound(x, t)
    PROVE  LET y == prepare(x, t)
           IN /\ Sound(y, t)
              /\ y.grant = x.grant
              /\ x.attempt # None => y.attempt # None
              /\ y.attempt = None => y = x
<1> DEFINE b == begin_authentication(x, FALSE, FALSE, t)
           starts == x.here /\ x.grant = None /\ x.attempt = None /\ ~x.asleep /\ x.retry <= t
<1>1. CASE starts
  <2>1. b \in State /\ b.here = x.here /\ b.grant = x.grant /\ b.attempt # None
    BY BeginFacts DEF Sound, Timed
  <2>2. prepare(x, t) = b
    BY <1>1 DEF prepare
  <2> HIDE DEF b
  <2> QED BY <1>1, <2>1, <2>2 DEF Sound, Timed, Behind, Met
<1>2. CASE ~starts
  <2>1. prepare(x, t) = x
    BY <1>2 DEF prepare
  <2> QED BY <2>1
<1> QED BY <1>1, <1>2

\* Activity of a client that is here: its session is active now, which ends
\* none, or it is authenticated.
LEMMA ObserveSound ==
    ASSUME NEW t \in Instant, NEW x, Sound(x, t), x.here
    PROVE  LET y == observe(x, t)
           IN /\ Sound(y, t)
              /\ Behind(x, t + 1) => Behind(y, t + 1)
<1> DEFINE z == [x EXCEPT !.heard = TRUE]
<1>0. x \in State /\ t \in Nat
  BY AdvanceAssumption DEF Sound, Timed, Instant
<1>1. /\ z \in State /\ z.here = x.here /\ z.grant = x.grant /\ z.attempt = x.attempt
      /\ z.due = x.due /\ z.used = x.used
  BY <1>0 DEF State
<1>2. CASE x.grant # None
  <2> DEFINE g == [x.grant EXCEPT !.active = t]
             y == [z EXCEPT !.grant = g]
  <2>1. x.grant \in Grant
    BY <1>0, <1>2, Parts
  <2>2. /\ g \in Grant /\ g # None /\ g.active = t /\ g.policy = x.grant.policy
        /\ g.auth = x.grant.auth /\ g.left = x.grant.left /\ g.renewing = x.grant.renewing
    BY <2>1, Something DEF Grant
  <2>3. observe(x, t) = y
    <3>1. observe(x, t) = [z EXCEPT !.grant.active = t]
      BY <1>2 DEF observe
    <3> HIDE DEF z
    <3>2. [z EXCEPT !.grant.active = t] = [z EXCEPT !.grant = [z.grant EXCEPT !.active = t]]
      OBVIOUS
    <3> QED BY <1>1, <3>1, <3>2
  <2>4. ~Lapsed(g, t)
    <3>1. /\ x.grant.active \in Nat /\ x.grant.policy.idle \in Nat
          /\ x.grant.active <= t /\ ~Lapsed(x.grant, t)
      BY <1>0, <1>2, Parts DEF Sound, Timed, Met
    <3>2. ~(x.grant.active + x.grant.policy.idle <= t)
      BY <3>1 DEF Lapsed
    <3>3. ~(t + x.grant.policy.idle <= t)
      BY <1>0, <3>1, <3>2
    <3>4. ~(~x.grant.policy.renew /\ x.grant.auth + x.grant.policy.lease <= t)
      BY <3>1 DEF Lapsed
    <3> HIDE DEF g
    <3> QED BY <2>2, <3>3, <3>4 DEF Lapsed
  <2> HIDE DEF g, z
  <2>5. /\ y \in State /\ y.here = x.here /\ y.grant = g /\ y.attempt = x.attempt /\ y.due = x.due
    BY <1>1, <2>2 DEF State
  <2> HIDE DEF y
  <2>6. Timed(y, t)
    BY <1>0, <1>2, <2>2, <2>5 DEF Sound, Timed
  <2>7. Met(y, t)
    BY <1>2, <2>2, <2>4, <2>5 DEF Sound, Met
  <2>8. Behind(y, t) /\ (Behind(x, t + 1) => Behind(y, t + 1))
    BY <1>2, <2>2, <2>5 DEF Sound, Behind
  <2> QED BY <2>3, <2>6, <2>7, <2>8 DEF Sound
<1>3. CASE x.grant = None /\ x.asleep
  <2> DEFINE b == begin_authentication(z, FALSE, FALSE, t)
  <2>1. observe(x, t) = b
    BY <1>3 DEF observe
  <2> HIDE DEF z
  <2>2. b \in State /\ b.here = z.here /\ b.grant = z.grant /\ b.attempt # None
    BY <1>1, BeginFacts
  <2> HIDE DEF b
  <2> QED BY <1>1, <1>3, <2>1, <2>2 DEF Sound, Timed, Behind, Met
<1>4. CASE x.grant = None /\ ~x.asleep
  <2>1. observe(x, t) = z
    BY <1>4 DEF observe
  <2> HIDE DEF z
  <2> QED BY <1>1, <1>4, <2>1 DEF Sound, Timed, Behind, Met
<1> QED BY <1>2, <1>3, <1>4

\* reach_time: at the next instant the budget is whole again.
LEMMA ReachSound ==
    ASSUME NEW t \in Nat, NEW x, Timed(x, t), Behind(x, t + 1)
    PROVE  LET y == [x EXCEPT !.used = 0, !.heard = FALSE]
           IN Timed(y, t + 1) /\ Behind(y, t + 1) /\ ~Trips(y, t + 1)
<1> DEFINE y == [x EXCEPT !.used = 0, !.heard = FALSE]
<1>0. x \in State /\ 0 \in 0..Budget
  BY AdvanceAssumption DEF Timed
<1>1. /\ y \in State /\ y.here = x.here /\ y.grant = x.grant /\ y.attempt = x.attempt /\ y.used = 0
  BY <1>0 DEF State
<1> HIDE DEF y
<1>2. ~Spent(y)
  BY <1>1, AdvanceAssumption DEF Spent
<1>3. x.grant # None => x.grant.active \in Nat
  BY <1>0, Parts
<1>4. Timed(y, t + 1)
  BY <1>1, <1>3 DEF Timed
<1>5. Behind(y, t + 1)
  BY <1>1 DEF Behind
<1> QED BY <1>2, <1>4, <1>5 DEF Trips, y

-----------------------------------------------------------------------------
(***************************************************************************)
(* All subjects                                                            *)
(***************************************************************************)

Table == [Subject -> State]

\* service_authentication at t: deadlines, then first authentications.
LEMMA ReadySound ==
    ASSUME NEW t \in Instant, NEW S \in Table,
           \A s \in Subject : Timed(S[s], t) /\ Behind(S[s], t)
    PROVE  LET ready == Prepared(Processed(S, t), t)
           IN /\ Processed(S, t) \in Table /\ \A s \in Subject : Sound(Processed(S, t)[s], t)
              /\ ready \in Table /\ \A s \in Subject : Sound(ready[s], t)
              /\ \A s \in Subject : ready[s].attempt = None => Behind(ready[s], t + 1)
              /\ \A s \in Subject : Met(S[s], t) /\ S[s].attempt # None => ready[s].attempt # None
              /\ \A s \in Subject : Trips(S[s], t) => ready[s] # S[s]
<1> DEFINE done == Processed(S, t)
           ready == Prepared(done, t)
<1>1. ASSUME NEW s \in Subject
      PROVE  /\ Sound(done[s], t)
             /\ done[s].attempt = None => Behind(done[s], t + 1)
             /\ Met(S[s], t) /\ S[s].attempt # None => done[s].attempt # None
             /\ Trips(S[s], t) => S[s].grant # None /\ done[s].grant = None
  <2>1. done[s] = process(S[s], t)
    BY DEF Processed
  <2> QED BY <2>1, ProcessSound
<1>2. done \in Table
  <2>1. \A s \in Subject : done[s] \in State
    BY <1>1 DEF Sound, Timed
  <2> QED BY <2>1 DEF Processed, Table
<1> HIDE DEF done
<1>3. ASSUME NEW s \in Subject
      PROVE  /\ Sound(ready[s], t) /\ ready[s].grant = done[s].grant
             /\ done[s].attempt # None => ready[s].attempt # None
             /\ ready[s].attempt = None => ready[s] = done[s]
  <2>1. ready[s] = prepare(done[s], t)
    BY DEF Prepared
  <2> QED BY <1>1, <2>1, PrepareSound
<1>4. ready \in Table
  <2>1. \A s \in Subject : ready[s] \in State
    BY <1>3 DEF Sound, Timed
  <2> QED BY <2>1 DEF Prepared, Table
<1> HIDE DEF ready
<1>5. /\ done \in Table /\ \A s \in Subject : Sound(done[s], t)
      /\ ready \in Table /\ \A s \in Subject : Sound(ready[s], t)
  BY <1>1, <1>2, <1>3, <1>4
<1>6. ASSUME NEW s \in Subject
      PROVE  /\ ready[s].attempt = None => Behind(ready[s], t + 1)
             /\ Met(S[s], t) /\ S[s].attempt # None => ready[s].attempt # None
             /\ Trips(S[s], t) => ready[s] # S[s]
  <2>1. CASE ready[s].attempt = None
    <3>1. ready[s] = done[s]
      BY <1>3, <2>1
    <3> QED BY <1>1, <2>1, <3>1
  <2>2. CASE ready[s].attempt # None
    BY <1>1, <1>3, <2>2
  <2> QED BY <2>1, <2>2
<1> QED BY <1>5, <1>6 DEF ready, done

\* The jobs of an instant, when no exchange is pending.
LEMMA ObservedSound ==
    ASSUME NEW t \in Instant, NEW S \in Table, NEW seen \in SUBSET Subject,
           \A s \in Subject : Sound(S[s], t) /\ Behind(S[s], t + 1)
    PROVE  LET T == Observed(S, t, seen)
           IN /\ T \in Table
              /\ \A s \in Subject : Sound(T[s], t) /\ Behind(T[s], t + 1)
<1> DEFINE T == Observed(S, t, seen)
<1>1. ASSUME NEW s \in Subject
      PROVE  T[s] = S[s] \/ (S[s].here /\ T[s] = observe(S[s], t))
  <2> DEFINE active == {q \in seen : S[q].here /\ ~S[q].heard}
             wake == {q \in active : S[q].asleep}
             first == IF wake = {} THEN {} ELSE {CHOOSE q \in wake : TRUE}
  <2>1. T[s] = IF s \in (active \ wake) \cup first THEN observe(S[s], t) ELSE S[s]
    BY DEF Observed
  <2>2. first \subseteq active
    <3>1. CASE wake = {}
      BY <3>1
    <3>2. CASE wake # {}
      <4>1. (CHOOSE q \in wake : TRUE) \in wake
        BY <3>2
      <4> QED BY <4>1
    <3> QED BY <3>1, <3>2
  <2>3. \A q \in active : S[q].here
    OBVIOUS
  <2> HIDE DEF active, wake, first
  <2> QED BY <2>1, <2>2, <2>3
<1>2. DOMAIN T = Subject /\ T = [s \in Subject |-> T[s]]
  BY DEF Observed
<1> HIDE DEF T
<1>3. ASSUME NEW s \in Subject PROVE Sound(T[s], t) /\ Behind(T[s], t + 1)
  BY <1>1, ObserveSound
<1>4. \A s \in Subject : T[s] \in State
  BY <1>3 DEF Sound, Timed
<1>5. T \in Table
  BY <1>2, <1>4 DEF Table
<1> QED BY <1>3, <1>5 DEF T

\* Where an advance stands at an instant.
Walk == [at : Instant, subject : Table, tripped : BOOLEAN]

\* One instant of an advance: all deadlines have had effect, and unless an
\* exchange is pending the clock may go on.
LEMMA TicksSound ==
    ASSUME NEW t \in Instant, NEW w, w.tripped \in BOOLEAN, Reach(w.subject, t) \in Table,
           \A s \in Subject : Timed(Reach(w.subject, t)[s], t) /\ Behind(Reach(w.subject, t)[s], t),
           NEW x \in Ticks(w, t)
    PROVE  LET S == Reach(w.subject, t)
           IN /\ x \in Walk /\ x.at = t
              /\ x.tripped = (w.tripped \/ AnyTrips(S, t))
              /\ \A s \in Subject : Sound(x.subject[s], t)
              /\ ~Pending(x.subject) => \A s \in Subject : Behind(x.subject[s], t + 1)
              /\ (\E s \in Subject : Met(S[s], t) /\ S[s].attempt # None) => Pending(x.subject)
<1> DEFINE S == Reach(w.subject, t)
           ready == Prepared(Processed(S, t), t)
           ends == IF Pending(ready) THEN {ready} ELSE {Observed(ready, t, seen) : seen \in SUBSET Subject}
           trips == w.tripped \/ AnyTrips(S, t)
<1>1. \E T \in ends : x = [at |-> t, subject |-> T, tripped |-> trips]
  BY DEF Ticks
<1> HIDE DEF S
<1>2. /\ ready \in Table /\ \A s \in Subject : Sound(ready[s], t)
      /\ \A s \in Subject : ready[s].attempt = None => Behind(ready[s], t + 1)
      /\ \A s \in Subject : Met(S[s], t) /\ S[s].attempt # None => ready[s].attempt # None
  BY ReadySound DEF S
<1> HIDE DEF ready
<1>3. PICK T \in ends : x = [at |-> t, subject |-> T, tripped |-> trips]
  BY <1>1
<1>4. trips \in BOOLEAN
  BY DEF AnyTrips
<1>5. CASE Pending(ready)
  <2>1. T = ready
    BY <1>3, <1>5
  <2>2. x.at = t /\ x.subject = ready /\ x.tripped = trips /\ x \in Walk
    BY <1>2, <1>3, <1>4, <2>1 DEF Walk
  <2> QED BY <1>2, <1>5, <2>2 DEF S
<1>6. CASE ~Pending(ready)
  <2>1. PICK seen \in SUBSET Subject : T = Observed(ready, t, seen)
    BY <1>3, <1>6
  <2>2. \A s \in Subject : ready[s].attempt = None
    BY <1>6 DEF Pending
  <2>3. \A s \in Subject : Sound(ready[s], t) /\ Behind(ready[s], t + 1)
    BY <1>2, <2>2
  <2>4. T \in Table /\ \A s \in Subject : Sound(T[s], t) /\ Behind(T[s], t + 1)
    BY <1>2, <2>1, <2>3, ObservedSound
  <2>5. x.at = t /\ x.subject = T /\ x.tripped = trips /\ x \in Walk
    BY <1>3, <1>4, <2>4 DEF Walk
  <2>6. ~ \E s \in Subject : Met(S[s], t) /\ S[s].attempt # None
    BY <1>2, <2>2
  <2> QED BY <2>4, <2>5, <2>6 DEF S
<1> QED BY <1>5, <1>6

\* What an advance leaves behind, wherever it ends.
LEMMA AdvanceSound ==
    ASSUME Clocked, NEW target \in Instant, now <= target, NEW done \in advance(target)
    PROVE  /\ done \in Walk /\ done.at \in now..target
           /\ \A s \in Subject : Sound(done.subject[s], done.at)
           /\ Pending(subject) => done.at = now
           /\ Settled => ~done.tripped
<1> DEFINE R == {w \in Walk :
                    /\ now <= w.at
                    /\ \A s \in Subject : Sound(w.subject[s], w.at)
                    /\ ~Pending(w.subject) => \A s \in Subject : Behind(w.subject[s], w.at + 1)
                    /\ Pending(subject) => w.at = now /\ Pending(w.subject)
                    /\ Settled => ~w.tripped}
<1>0. /\ now \in Nat /\ target \in Nat /\ now \in Instant /\ Horizon \in Nat
      /\ subject \in Table /\ \A s \in Subject : Sound(subject[s], now)
  BY AdvanceAssumption DEF Clocked, Instant, Table
<1>1. ASSUME NEW x \in Ticks(Begin, now) PROVE x \in R
  <2>1. Begin.subject = subject /\ Begin.tripped = FALSE
    BY DEF Begin
  <2>2. Reach(Begin.subject, now) = subject
    <3>1. ~(now > now)
      BY <1>0
    <3>2. Reach(Begin.subject, now) = Begin.subject
      BY <3>1, Zenon DEF Reach
    <3> QED BY <2>1, <3>2
  <2>3. \A s \in Subject : Timed(subject[s], now) /\ Behind(subject[s], now) /\ Met(subject[s], now)
    BY <1>0 DEF Sound
  <2>4. /\ x \in Walk /\ x.at = now
        /\ x.tripped = (Begin.tripped \/ AnyTrips(subject, now))
        /\ \A s \in Subject : Sound(x.subject[s], now)
        /\ ~Pending(x.subject) => \A s \in Subject : Behind(x.subject[s], now + 1)
        /\ (\E s \in Subject : Met(subject[s], now) /\ subject[s].attempt # None) => Pending(x.subject)
    <3>1. /\ Begin.tripped \in BOOLEAN /\ Reach(Begin.subject, now) \in Table
          /\ \A s \in Subject : Timed(Reach(Begin.subject, now)[s], now) /\ Behind(Reach(Begin.subject, now)[s], now)
      BY <1>0, <2>1, <2>2, <2>3
    <3>2. LET S == Reach(Begin.subject, now)
          IN /\ x \in Walk /\ x.at = now
             /\ x.tripped = (Begin.tripped \/ AnyTrips(S, now))
             /\ \A s \in Subject : Sound(x.subject[s], now)
             /\ ~Pending(x.subject) => \A s \in Subject : Behind(x.subject[s], now + 1)
             /\ (\E s \in Subject : Met(S[s], now) /\ S[s].attempt # None) => Pending(x.subject)
      BY <1>0, <1>1, <3>1, TicksSound
    <3> QED BY <2>2, <3>2
  <2>5. Pending(subject) => Pending(x.subject)
    BY <2>3, <2>4 DEF Pending
  <2>6. Settled => ~AnyTrips(subject, now)
    <3>1. \A s \in Subject : Trips(subject[s], now) => Prepared(Processed(subject, now), now)[s] # subject[s]
      BY <1>0, <2>3, ReadySound
    <3> QED BY <3>1 DEF Settled, AnyTrips
  <2>7. Settled => ~x.tripped
    BY <2>1, <2>4, <2>6
  <2> QED BY <1>0, <2>4, <2>5, <2>7
<1>2. ASSUME NEW w \in R, ~Pending(w.subject), w.at \in now..target - 1, NEW x \in Ticks(w, w.at + 1)
      PROVE  x \in R
  <2> DEFINE t == w.at + 1
             S == Reach(w.subject, t)
  <2>1. w.at \in Nat /\ t \in Instant /\ t > now /\ now <= t
    BY <1>0, <1>2 DEF Instant
  <2>2. /\ \A s \in Subject : Timed(w.subject[s], w.at) /\ Behind(w.subject[s], t)
        /\ w.subject \in Table /\ w.tripped \in BOOLEAN
        /\ ~Pending(subject) /\ (Settled => ~w.tripped)
    BY <1>2 DEF Sound, Walk
  <2>3. S = [s \in Subject |-> [w.subject[s] EXCEPT !.used = 0, !.heard = FALSE]]
    BY <2>1 DEF Reach
  <2> HIDE DEF S
  <2>4. ASSUME NEW s \in Subject PROVE Timed(S[s], t) /\ Behind(S[s], t) /\ ~Trips(S[s], t)
    <3> DEFINE y == [w.subject[s] EXCEPT !.used = 0, !.heard = FALSE]
    <3>1. Timed(y, w.at + 1) /\ Behind(y, w.at + 1) /\ ~Trips(y, w.at + 1)
      BY <2>1, <2>2, ReachSound
    <3>2. S[s] = y
      BY <2>3
    <3> QED BY <3>1, <3>2
  <2>5. S \in Table
    <3>1. \A s \in Subject : S[s] \in State
      BY <2>4 DEF Timed
    <3>2. S = [s \in Subject |-> S[s]]
      BY <2>3
    <3> QED BY <3>1, <3>2 DEF Table
  <2> HIDE DEF t
  <2>6. /\ x \in Walk /\ x.at = t
        /\ x.tripped = (w.tripped \/ AnyTrips(S, t))
        /\ \A s \in Subject : Sound(x.subject[s], t)
        /\ ~Pending(x.subject) => \A s \in Subject : Behind(x.subject[s], t + 1)
    <3>1. /\ Reach(w.subject, t) \in Table /\ x \in Ticks(w, t)
          /\ \A s \in Subject : Timed(Reach(w.subject, t)[s], t) /\ Behind(Reach(w.subject, t)[s], t)
      BY <1>2, <2>4, <2>5 DEF S, t
    <3>2. LET U == Reach(w.subject, t)
          IN /\ x \in Walk /\ x.at = t
             /\ x.tripped = (w.tripped \/ AnyTrips(U, t))
             /\ \A s \in Subject : Sound(x.subject[s], t)
             /\ ~Pending(x.subject) => \A s \in Subject : Behind(x.subject[s], t + 1)
      BY <2>1, <2>2, <3>1, TicksSound
    <3> QED BY <3>2 DEF S
  <2>7. ~AnyTrips(S, t)
    BY <2>4 DEF AnyTrips
  <2>8. Settled => ~x.tripped
    BY <2>2, <2>6, <2>7
  <2> QED BY <2>1, <2>2, <2>6, <2>8
<1>3. \A w \in R : ~Pending(w.subject) /\ w.at \in now..target - 1 => Ticks(w, w.at + 1) \subseteq R
  BY <1>2
<1>4. Ticks(Begin, now) \subseteq R
  BY <1>1
<1> HIDE DEF R
<1>5. done \in R /\ done.at \in now..target
  BY <1>0, <1>3, <1>4, AdvanceWithin
<1> QED BY <1>5 DEF R

-----------------------------------------------------------------------------
(***************************************************************************)
(* What answers, edits and resets do to a subject                          *)
(***************************************************************************)

\* A new grant: its deadlines are for process_session_deadlines to see.
LEMMA GrantedTimed ==
    ASSUME Clocked, NEW x, Sound(x, now), x.attempt # None, NEW p \in Policy
    PROVE  Timed(Granted(x, p), now) /\ Behind(Granted(x, p), now)
<1> DEFINE a == IF x.grant = None THEN now ELSE x.grant.active
           g == [policy |-> p, auth |-> now, left |-> FALSE, renewing |-> "no", active |-> a]
           y == Granted(x, p)
<1>0. x \in State /\ now \in Instant /\ now \in Nat /\ x.here
  BY AdvanceAssumption DEF Clocked, Sound, Timed, Instant
<1>1. a \in Instant /\ a <= now
  BY <1>0 DEF Sound, Timed, State, Grant
<1>2. p.lease \in Nat
  BY AdvanceAssumption
<1> HIDE DEF a
<1>3. /\ g \in Grant /\ g # None /\ g.policy = p /\ g.auth = now /\ g.renewing = "no"
      /\ g.active = a
  <2>1. g \in Grant
    BY <1>0, <1>1 DEF Grant
  <2>2. g # None
    BY <2>1, Something
  <2> QED BY <2>1, <2>2
<1>4. y = [Fresh(x) EXCEPT !.attempt = None, !.grant = g]
  BY DEF Granted, a
<1> HIDE DEF g
<1>5. y \in State /\ y.here = x.here /\ y.grant = g /\ y.attempt = None
  <2>1. Fresh(x) \in State /\ Fresh(x).here = x.here
    BY <1>0, FreshFacts
  <2> HIDE DEF y
  <2> QED BY <1>3, <1>4, <2>1 DEF State, y
<1> HIDE DEF y
<1>6. Timed(y, now)
  BY <1>0, <1>1, <1>3, <1>5 DEF Timed
<1>7. Behind(y, now)
  BY <1>0, <1>2, <1>3, <1>5 DEF Behind
<1> QED BY <1>6, <1>7 DEF y

\* A subject without a grant and without an attempt misses nothing.
LEMMA IdleSound ==
    ASSUME NEW x \in State, x.grant = None, x.attempt = None, NEW t
    PROVE  Sound(x, t)
BY DEF Sound, Timed, Behind, Met

\* A reject.
LEMMA RejectSound ==
    ASSUME NEW x \in State, NEW t \in Instant
    PROVE  Sound([end_session(x) EXCEPT !.retry = t + Retry], t)
<1>1. t + Retry \in 0..Horizon + Retry
  BY AdvanceAssumption DEF Instant
<1>2. /\ [end_session(x) EXCEPT !.retry = t + Retry] \in State
      /\ [end_session(x) EXCEPT !.retry = t + Retry].grant = None
      /\ [end_session(x) EXCEPT !.retry = t + Retry].attempt = None
  BY <1>1, EndFacts DEF State
<1> QED BY <1>2, IdleSound

\* An attempt of a client that is here, begun anew.
LEMMA BeginSound ==
    ASSUME NEW t \in Instant, NEW x \in State, NEW y, Sound(y, t),
           x.here, x.here = y.here,
           x.grant = None \/ /\ y.grant # None /\ x.grant # None
                             /\ x.grant.policy = y.grant.policy /\ x.grant.auth = y.grant.auth
                             /\ x.grant.active = y.grant.active /\ x.grant.left = y.grant.left,
           NEW auto \in BOOLEAN, NEW mab \in BOOLEAN
    PROVE  Sound(begin_authentication(x, auto, mab, t), t)
<1> DEFINE b == begin_authentication(x, auto, mab, t)
<1>1. /\ b \in State /\ b.here = x.here
      /\ \/ b.grant = None /\ b.attempt = None
         \/ b.grant = x.grant /\ b.attempt # None
  <2>1. /\ b \in State /\ b.here = x.here
        /\ IF auto /\ Spent(x) THEN b.grant = None /\ b.attempt = None
           ELSE b.grant = x.grant /\ b.attempt # None
    BY BeginFacts
  <2> HIDE DEF b
  <2> QED BY <2>1
<1> HIDE DEF b
<1>2. CASE b.grant = None
  <2>1. b.here
    BY <1>1
  <2>2. Timed(b, t)
    BY <1>1, <1>2, <2>1 DEF Timed
  <2>3. Behind(b, t) /\ Met(b, t)
    BY <1>2 DEF Behind, Met
  <2> QED BY <2>2, <2>3 DEF Sound, b
<1>3. CASE b.grant # None
  <2>1. b.grant = x.grant /\ b.attempt # None /\ x.grant # None /\ y.grant # None
    BY <1>1, <1>3
  <2>2. ~Lapsed(b.grant, t)
    BY <2>1, SameTimers DEF Sound, Met
  <2>3. Timed(b, t)
    <3>1. y.grant.active <= t
      BY <2>1 DEF Sound, Timed
    <3>2. b.here /\ b.grant.active <= t
      BY <1>1, <2>1, <3>1
    <3> QED BY <1>1, <2>1, <3>2 DEF Timed
  <2>4. Behind(b, t)
    BY <2>1 DEF Sound, Behind
  <2>5. Met(b, t)
    BY <2>1, <2>2 DEF Met
  <2> QED BY <2>3, <2>4, <2>5 DEF Sound, b
<1> QED BY <1>2, <1>3 DEF b

\* A subject whose attempt is dropped.
LEMMA DroppedFacts ==
    ASSUME NEW x \in State
    PROVE  LET y == [x EXCEPT !.attempt = None]
           IN y \in State /\ y.here = x.here /\ y.grant = x.grant /\ y.attempt = None /\ y.used = x.used
BY DEF State

\* reconcile_authentication.
LEMMA RetiredSound ==
    ASSUME NEW t \in Instant, NEW x, Sound(x, t)
    PROVE  /\ Sound(Retired(x), t) /\ Retired(x).here = x.here /\ Retired(x).attempt = None
<1>0. x \in State
  BY DEF Sound, Timed
<1>1. CASE x.attempt = None
  BY <1>1 DEF Retired
<1>2. CASE x.attempt # None
  <2> DEFINE z == IF x.grant = None THEN x ELSE Renewing(x, "no")
             y == [Fresh(z) EXCEPT !.attempt = None]
  <2>1. Retired(x) = y
    BY <1>2 DEF Retired
  <2>2. /\ z \in State /\ z.here = x.here
        /\ IF x.grant = None THEN z.grant = None
           ELSE /\ z.grant # None /\ z.grant.renewing = "no"
                /\ z.grant.policy = x.grant.policy /\ z.grant.auth = x.grant.auth
                /\ z.grant.active = x.grant.active /\ z.grant.left = x.grant.left
    BY <1>0, RenewFacts
  <2> HIDE DEF z
  <2>3. Fresh(z) \in State /\ Fresh(z).here = z.here /\ Fresh(z).grant = z.grant
    BY <2>2, FreshFacts
  <2>4. y \in State /\ y.here = x.here /\ y.grant = z.grant /\ y.attempt = None
    BY <2>2, <2>3 DEF State
  <2> HIDE DEF y
  <2>5. CASE x.grant = None
    BY <2>1, <2>2, <2>4, <2>5, IdleSound
  <2>6. CASE x.grant # None
    <3>1. ~Lapsed(y.grant, t)
      BY <2>2, <2>4, <2>6, SameTimers DEF Sound, Met
    <3>2. Timed(y, t)
      BY <2>2, <2>4, <2>6 DEF Sound, Timed
    <3>3. Behind(y, t)
      BY <2>2, <2>4, <2>6 DEF Sound, Behind
    <3> QED BY <2>1, <2>2, <2>4, <2>6, <3>1, <3>2, <3>3 DEF Sound, Met
  <2> QED BY <2>5, <2>6
<1> QED BY <1>1, <1>2

\* The source of a subject leaves.
LEMMA LeaveSound ==
    ASSUME NEW t \in Instant, NEW x, Sound(x, t), x.attempt = None
    PROVE  Sound([(IF x.grant = None THEN Fresh(x) ELSE [x EXCEPT !.grant.left = TRUE]) EXCEPT !.here = FALSE], t)
<1>0. x \in State
  BY DEF Sound, Timed
<1>1. CASE x.grant = None
  <2> DEFINE y == [Fresh(x) EXCEPT !.here = FALSE]
  <2>1. y \in State /\ y.grant = None /\ y.attempt = None
    BY <1>0, <1>1, FreshFacts DEF State
  <2>2. Sound(y, t)
    <3> HIDE DEF y
    <3> QED BY <2>1, IdleSound
  <2> QED BY <1>1, <2>2
<1>2. CASE x.grant # None
  <2> DEFINE g == [x.grant EXCEPT !.left = TRUE]
             z == [x EXCEPT !.grant = g]
             y == [z EXCEPT !.here = FALSE]
  <2>1. x.grant \in Grant
    BY <1>0, <1>2, Parts
  <2>2. /\ g \in Grant /\ g # None /\ g.left = TRUE /\ g.policy = x.grant.policy /\ g.auth = x.grant.auth
        /\ g.active = x.grant.active /\ g.renewing = x.grant.renewing
    BY <2>1, Something DEF Grant
  <2>3. [x EXCEPT !.grant.left = TRUE] = z
    OBVIOUS
  <2> HIDE DEF g
  <2>4. y \in State /\ y.grant = g /\ y.attempt = x.attempt /\ y.due = x.due
    BY <1>0, <2>2 DEF State
  <2>5. ~Lapsed(g, t)
    BY <1>2, <2>2, SameTimers DEF Sound, Met
  <2>6. Sound(y, t)
    <3> HIDE DEF y
    <3>1. Timed(y, t)
      BY <1>2, <2>2, <2>4 DEF Sound, Timed
    <3>2. Met(y, t)
      BY <1>2, <2>2, <2>4, <2>5 DEF Sound, Met
    <3>3. Behind(y, t)
      BY <2>2, <2>4 DEF Behind
    <3> QED BY <3>1, <3>2, <3>3 DEF Sound
  <2> QED BY <1>2, <2>3, <2>6
<1> QED BY <1>1, <1>2

-----------------------------------------------------------------------------
(***************************************************************************)
(* Commands, exchanges, edits and resets                                   *)
(***************************************************************************)

\* Deadlines are met because nothing is passed over, which takes all of this.
TInv == IInv /\ Clocked /\ Guarded

\* A command that publishes a successor of the operation.
LEMMA PublishClocked ==
    ASSUME IInv, Clocked, NEW S \in Table, NEW o, Publish(S, o), Follows(o), o.current \in BOOLEAN,
           NEW t \in Instant, now' = t, \A s \in Subject : Sound(S[s], t),
           o.status = "waiting" => t <= op.target,
           UNCHANGED issued, paused' \in BOOLEAN, edits' \in 0..MaxEdits
    PROVE  Clocked'
<1>1. subject' = S /\ op' = o /\ o.id = op.id /\ o.target = op.target
  BY DEF Publish, Follows
<1>2. op'.target \in Instant /\ op'.current \in BOOLEAN
  BY <1>1 DEF Clocked
<1>3. op'.status = "waiting" => op'.id \in 1..issued' /\ now' <= op'.target
  BY <1>1 DEF Clocked, Follows
<1>4. subject' \in [Subject -> State] /\ \A s \in Subject : Sound(subject'[s], now')
  BY <1>1 DEF Table
<1> QED BY <1>2, <1>3, <1>4 DEF Clocked

\* The subject of a command, changed.
LEMMA OneSound ==
    ASSUME Clocked, NEW s \in Subject, NEW y, Sound(y, now)
    PROVE  LET S == [subject EXCEPT ![s] = y]
           IN S \in Table /\ \A r \in Subject : Sound(S[r], now)
<1>1. y \in State
  BY DEF Sound, Timed
<1>2. subject \in [Subject -> State] /\ \A r \in Subject : Sound(subject[r], now)
  BY DEF Clocked
<1> QED BY <1>1, <1>2 DEF Table

\* An edit leaves the operation alone.
LEMMA EditKeeps ==
    ASSUME TInv, NEW S \in Table, \A s \in Subject : Sound(S[s], now), Publish(S, op),
           UNCHANGED <<now, paused, issued, guarded>>, edits' \in 0..MaxEdits
    PROVE  Clocked' /\ Guarded'
<1>1. Follows(op) /\ op.current \in BOOLEAN /\ (op.status = "waiting" => now <= op.target)
  BY DEF Follows, TInv, IInv, Issued, OperationsSettle, Clocked
<1>2. Clocked'
  BY <1>1, PublishClocked DEF TInv, Clocked
<1>3. Guarded'
  BY DEF TInv, Guarded, GuardReported, Publish
<1> QED BY <1>2, <1>3

\* A budget that runs out fails the operation that waits.
LEMMA TripKeeps ==
    ASSUME TInv, NEW S \in Table, \A s \in Subject : Sound(S[s], now), NEW tripped,
           Note(tripped), Publish(S, Failing(tripped)), UNCHANGED <<now, paused, issued, edits>>
    PROVE  Clocked' /\ Guarded'
<1> DEFINE o == Failing(tripped)
<1>0. /\ op = [id |-> op.id, status |-> op.status, target |-> op.target, current |-> op.current]
      /\ op.status \in Ended \cup {"none", "waiting"} /\ op.current \in BOOLEAN
      /\ op.status = "waiting" => op.current /\ now <= op.target /\ op.id \in 1..issued
  BY DEF TInv, IInv, Issued, OperationsSettle, Clocked
<1>1. CASE tripped /\ op.status = "waiting"
  <2>1. o = [op EXCEPT !.status = "failed-on-guard"] /\ guarded' = guarded \cup {op.id}
    BY <1>1 DEF Failing, Note
  <2>2. /\ o.id = op.id /\ o.status = "failed-on-guard" /\ o.target = op.target /\ o.current = op.current
        /\ o = [id |-> op.id, status |-> o.status, target |-> op.target, current |-> o.current]
    BY <1>0, <2>1
  <2> HIDE DEF o
  <2>3. Follows(o)
    BY <2>2 DEF Follows, Ended
  <2>4. Publish(S, o)
    BY DEF o
  <2>5. Clocked'
    BY <1>0, <2>2, <2>3, <2>4, PublishClocked DEF TInv, Clocked
  <2>6. Guarded'
    BY <1>0, <1>1, <2>1, <2>2, <2>4 DEF TInv, Guarded, GuardReported, Publish
  <2> QED BY <2>5, <2>6
<1>2. CASE ~(tripped /\ op.status = "waiting")
  <2>1. o = op /\ guarded' = guarded
    BY <1>2 DEF Failing, Note
  <2> QED BY <2>1, EditKeeps DEF TInv, Clocked
<1> QED BY <1>1, <1>2

\* An operation with another status.
LEMMA NewStatus ==
    ASSUME NEW o, o = [id |-> o.id, status |-> o.status, target |-> o.target, current |-> o.current],
           NEW status
    PROVE  [o EXCEPT !.status = status]
             = [id |-> o.id, status |-> status, target |-> o.target, current |-> o.current]
<1>1. ASSUME NEW i, NEW s, NEW t, NEW c
      PROVE  [[id |-> i, status |-> s, target |-> t, current |-> c] EXCEPT !.status = status]
               = [id |-> i, status |-> status, target |-> t, current |-> c]
  OBVIOUS
<1> DEFINE r == [id |-> o.id, status |-> o.status, target |-> o.target, current |-> o.current]
<1>2. [r EXCEPT !.status = status] = [id |-> o.id, status |-> status, target |-> o.target, current |-> o.current]
  BY ONLY <1>1
<1>3. r = o
  OBVIOUS
<1> HIDE DEF r
<1> QED BY ONLY <1>2, <1>3
\* The operation that waits goes on or ends: its budget has not run out.
LEMMA StatusKeeps ==
    ASSUME TInv, op.status = "waiting", NEW status \in Ended \cup {"waiting"},
           NEW S \in Table, NEW t \in Instant, now' = t, \A s \in Subject : Sound(S[s], t), t <= op.target,
           Publish(S, [op EXCEPT !.status = status]), UNCHANGED <<paused, issued, edits, guarded>>
    PROVE  Clocked' /\ Guarded'
<1> DEFINE o == [op EXCEPT !.status = status]
<1>0. /\ op = [id |-> op.id, status |-> op.status, target |-> op.target, current |-> op.current]
      /\ op.current \in BOOLEAN /\ op.current
  BY DEF TInv, IInv, Issued, OperationsSettle, Clocked
<1>1. /\ o.id = op.id /\ o.status = status /\ o.target = op.target /\ o.current = op.current
      /\ o = [id |-> op.id, status |-> o.status, target |-> op.target, current |-> o.current]
  <2>1. o = [id |-> op.id, status |-> status, target |-> op.target, current |-> op.current]
    BY <1>0, NewStatus
  <2> HIDE DEF o
  <2> QED BY <2>1
<1> HIDE DEF o
<1>2. Follows(o)
  BY <1>0, <1>1 DEF Follows
<1>3. Publish(S, o)
  BY DEF o
<1>4. Clocked'
  BY <1>0, <1>1, <1>2, <1>3, PublishClocked DEF TInv, Clocked
<1>5. op.id \notin guarded
  BY DEF TInv, Guarded, GuardReported
<1>6. Guarded'
  BY <1>1, <1>3, <1>5 DEF TInv, Guarded, GuardReported, Publish
<1> QED BY <1>4, <1>6

\* An advance, with a new operation when it has to wait.
LEMMA StartKeeps ==
    ASSUME TInv, NEW target \in now + 1..Horizon, NEW entries, Start(target, entries)
    PROVE  /\ Clocked' /\ Guarded'
           /\ now' > now => ~Pending(subject)
<1>0. /\ now \in Nat /\ now \in Instant /\ target \in Instant /\ now <= target /\ issued \in Nat
      /\ op.status # "waiting"
  BY AdvanceAssumption DEF TInv, Clocked, IInv, Issued, Instant, Start, Owned
<1>1. PICK done \in advance(target) :
        /\ now' = done.at
        /\ subject' = done.subject
        /\ IF Pending(done.subject)
           THEN /\ issued' = issued + 1
                /\ op' = [id |-> issued', status |-> "waiting", target |-> target, current |-> TRUE]
           ELSE UNCHANGED <<issued, op>>
  BY DEF Start
<1>2. /\ done \in Walk /\ done.at \in now..target
      /\ \A s \in Subject : Sound(done.subject[s], done.at)
      /\ Pending(subject) => done.at = now
  BY <1>0, AdvanceSound DEF TInv
<1>3. UNCHANGED <<paused, edits, guarded>>
  BY DEF Start
<1>4. now' \in Instant /\ subject' \in [Subject -> State] /\ now' <= target
  BY <1>0, <1>1, <1>2 DEF Walk, Table
<1>5. \A s \in Subject : Sound(subject'[s], now')
  BY <1>1, <1>2
<1>6. CASE Pending(done.subject)
  <2>1. /\ issued' = issued + 1
        /\ op'.id = issued + 1 /\ op'.status = "waiting" /\ op'.target = target /\ op'.current = TRUE
    BY <1>1, <1>6
  <2>2. Clocked'
    <3>0. issued + 1 \in 1..issued + 1
      BY <1>0
    <3>1. op'.id \in 1..issued' /\ op'.target \in Instant /\ op'.current \in BOOLEAN /\ now' <= op'.target
      BY <1>0, <1>4, <2>1, <3>0, Zenon
    <3>2. paused' \in BOOLEAN /\ edits' \in 0..MaxEdits
      BY <1>3 DEF TInv, Clocked
    <3> QED BY <1>4, <1>5, <3>1, <3>2 DEF Clocked
  <2>3. op'.id \notin guarded' /\ guarded' \subseteq 1..issued'
    <3>1. guarded \subseteq 1..issued /\ guarded' = guarded
      BY <1>3 DEF TInv, Guarded
    <3>2. issued + 1 \notin 1..issued /\ 1..issued \subseteq 1..issued + 1
      BY <1>0
    <3> QED BY <2>1, <3>1, <3>2
  <2> QED BY <2>2, <2>3, <1>0, <1>1, <1>2 DEF Guarded, GuardReported
<1>7. CASE ~Pending(done.subject)
  <2>1. UNCHANGED <<issued, op>>
    BY <1>1, <1>7
  <2>2. Clocked'
    BY <1>0, <1>3, <1>4, <1>5, <2>1 DEF TInv, Clocked
  <2>3. Guarded'
    BY <1>3, <2>1 DEF TInv, Guarded, GuardReported
  <2> QED BY <2>2, <2>3, <1>0, <1>1, <1>2
<1> QED BY <1>6, <1>7

\* The background goes on with an operation, or gives it up.
LEMMA ProceedKeeps ==
    ASSUME TInv, Proceed
    PROVE  /\ Clocked' /\ Guarded'
           /\ now' > now => ~Pending(subject) /\ op'.id = op.id /\ now' <= op.target
<1>0. /\ now \in Nat /\ now \in Instant /\ op.target \in Instant /\ op.status = "waiting" /\ now <= op.target
      /\ subject \in Table /\ \A s \in Subject : Sound(subject[s], now)
      /\ op = [id |-> op.id, status |-> op.status, target |-> op.target, current |-> op.current]
  BY AdvanceAssumption DEF TInv, IInv, Issued, Clocked, Table, Instant, Proceed, Fail, Continue
<1>1. CASE Fail
  <2>1. /\ Publish(subject, [op EXCEPT !.status = "failed-on-guard"])
        /\ UNCHANGED <<now, paused, issued, edits, guarded>>
    BY <1>1 DEF Fail
  <2>2. "failed-on-guard" \in Ended \cup {"waiting"}
    BY DEF Ended
  <2>3. Clocked' /\ Guarded'
    BY <1>0, <2>1, <2>2, StatusKeeps
  <2> QED BY <1>0, <2>1, <2>3
<1>2. CASE Continue
  <2> DEFINE St(d) == IF Pending(d.subject) THEN "waiting" ELSE "completed"
  <2>1. PICK done \in advance(op.target) :
          /\ now' = done.at
          /\ Note(done.tripped)
          /\ Publish(done.subject, [op EXCEPT !.status = St(done)])
    BY <1>2 DEF Continue
  <2>2. ~Pending(subject) /\ Settled /\ UNCHANGED <<paused, issued, edits>>
    BY <1>2 DEF Continue
  <2>3. /\ done \in Walk /\ done.at \in now..op.target
        /\ \A s \in Subject : Sound(done.subject[s], done.at)
        /\ ~done.tripped
    BY <1>0, <2>2, AdvanceSound DEF TInv
  <2>4. guarded' = guarded
    BY <2>1, <2>3 DEF Note
  <2>5. St(done) \in Ended \cup {"waiting"}
    BY DEF Ended
  <2>6. op' = [op EXCEPT !.status = St(done)]
    BY <2>1 DEF Publish
  <2> HIDE DEF St
  <2>7. op'.id = op.id
    BY <1>0, <2>6
  <2>8. done.subject \in Table /\ done.at \in Instant /\ done.at <= op.target
    BY <1>0, <2>3 DEF Walk
  <2>9. Clocked' /\ Guarded'
    BY <1>0, <2>1, <2>2, <2>3, <2>4, <2>5, <2>8, StatusKeeps
  <2> QED BY <2>1, <2>2, <2>7, <2>8, <2>9
<1> QED BY <1>1, <1>2 DEF Proceed

\* The exchanges' results and what service_authentication discovers.
LEMMA AnswerKeeps ==
    ASSUME TInv, Discover \/ \E s \in Subject : Answer(s)
    PROVE  Clocked' /\ Guarded' /\ now' = now
<1>0. /\ now \in Instant /\ subject \in Table /\ \A r \in Subject : Sound(subject[r], now)
      /\ edits \in 0..MaxEdits /\ Clocked
  BY DEF TInv, Clocked, Table
<1>1. CASE Discover
  <2> DEFINE S == Prepared(Processed(subject, now), now)
             trips == AnyTrips(subject, now)
  <2>1. \A r \in Subject : Timed(subject[r], now) /\ Behind(subject[r], now)
    BY <1>0 DEF Sound
  <2>2. S \in Table /\ \A r \in Subject : Sound(S[r], now)
    BY <1>0, <2>1, ReadySound
  <2>3. Note(trips) /\ Publish(S, Failing(trips)) /\ UNCHANGED <<now, paused, issued, edits>>
    BY <1>1 DEF Discover
  <2> HIDE DEF S, trips
  <2> QED BY <2>2, <2>3, TripKeeps
<1>2. ASSUME NEW s \in Subject, Reject(s)
      PROVE  Clocked' /\ Guarded' /\ now' = now
  <2> DEFINE y == [end_session(subject[s]) EXCEPT !.retry = now + Retry]
             S == [subject EXCEPT ![s] = y]
  <2>1. subject[s] \in State
    BY <1>0 DEF Table
  <2>2. Sound(y, now)
    BY <1>0, <2>1, RejectSound
  <2>3. Publish(S, op) /\ UNCHANGED <<now, paused, issued, edits, guarded>>
    BY <1>2 DEF Reject
  <2> HIDE DEF y
  <2>4. S \in Table /\ \A r \in Subject : Sound(S[r], now)
    BY <1>0, <2>2, OneSound
  <2> HIDE DEF S
  <2> QED BY <1>0, <2>3, <2>4, EditKeeps
<1>3. ASSUME NEW s \in Subject, FallBack(s)
      PROVE  Clocked' /\ Guarded' /\ now' = now
  <2> DEFINE x == [subject[s] EXCEPT !.attempt = None]
             auto == subject[s].attempt.auto
             y == begin_authentication(x, auto, TRUE, now)
             S == [subject EXCEPT ![s] = y]
             trips == auto /\ Spent(x)
  <2>1. /\ Note(trips) /\ Publish(S, Failing(trips)) /\ UNCHANGED <<now, paused, issued, edits>>
        /\ subject[s].attempt # None
    BY <1>3 DEF FallBack
  <2>2. subject[s] \in State /\ Sound(subject[s], now)
    BY <1>0 DEF Table
  <2>3. auto \in BOOLEAN
    BY <2>1, <2>2, Parts DEF Attempt
  <2>4. x \in State /\ x.here = subject[s].here /\ x.grant = subject[s].grant
    BY <2>2, DroppedFacts
  <2>5. x.here
    BY <2>1, <2>2, <2>4 DEF Sound, Timed
  <2> HIDE DEF x, auto
  <2>6. Sound(y, now)
    BY <1>0, <2>2, <2>3, <2>4, <2>5, BeginSound
  <2> HIDE DEF y
  <2>7. S \in Table /\ \A r \in Subject : Sound(S[r], now)
    BY <1>0, <2>6, OneSound
  <2> HIDE DEF S, trips
  <2> QED BY <2>1, <2>7, TripKeeps
<1>4. ASSUME NEW s \in Subject, NEW p \in Policy, Accept(s, p)
      PROVE  Clocked' /\ Guarded' /\ now' = now
  <2> DEFINE y == Granted(subject[s], p)
             S == [subject EXCEPT ![s] = y]
             T == Processed(S, now)
             trips == AnyTrips(S, now)
  <2>1. /\ Note(trips) /\ Publish(T, Failing(trips)) /\ UNCHANGED <<now, paused, issued, edits>>
        /\ subject[s].attempt # None
    BY <1>4 DEF Accept
  <2>2. Sound(subject[s], now)
    BY <1>0
  <2>3. Timed(y, now) /\ Behind(y, now)
    BY <1>0, <2>1, <2>2, GrantedTimed
  <2> HIDE DEF y
  <2>4. y \in State
    BY <2>3 DEF Timed
  <2>5. S \in Table
    BY <1>0, <2>4 DEF Table
  <2>6. ASSUME NEW r \in Subject PROVE Timed(S[r], now) /\ Behind(S[r], now)
    <3>1. CASE r = s
      BY <1>0, <2>3, <3>1 DEF Table
    <3>2. CASE r # s
      BY <1>0, <3>2 DEF Table, Sound
    <3> QED BY <3>1, <3>2
  <2> HIDE DEF S
  <2>7. T \in Table /\ \A r \in Subject : Sound(T[r], now)
    BY <1>0, <2>5, <2>6, ReadySound
  <2> HIDE DEF T, trips
  <2> QED BY <2>1, <2>7, TripKeeps
<1> QED BY <1>1, <1>2, <1>3, <1>4 DEF Answer

\* Reauthentication by hand: with the client here another attempt, otherwise a
\* search for it.
LEMMA ReauthenticateSound ==
    ASSUME NEW t \in Instant, NEW z, Sound(z, t), z.here \/ z.grant # None
    PROVE  LET x == [z EXCEPT !.attempt = None]
               y == IF x.grant = None THEN x ELSE Renewing(x, "manual")
           IN Sound(IF x.here THEN begin_authentication(y, FALSE, FALSE, t) ELSE Seek(y, "manual", t), t)
<1> DEFINE x == [z EXCEPT !.attempt = None]
           y == IF x.grant = None THEN x ELSE Renewing(x, "manual")
<1>0. z \in State
  BY DEF Sound, Timed
<1>1. x \in State /\ x.here = z.here /\ x.grant = z.grant /\ x.attempt = None
  BY <1>0, DroppedFacts
<1> HIDE DEF x
<1>2. /\ y \in State /\ y.here = z.here /\ y.attempt = None
      /\ y.grant = None <=> z.grant = None
      /\ y.grant # None =>
            /\ y.grant.policy = z.grant.policy /\ y.grant.auth = z.grant.auth
            /\ y.grant.active = z.grant.active /\ y.grant.left = z.grant.left
  <2>1. CASE x.grant = None
    BY <1>1, <2>1
  <2>2. CASE x.grant # None
    BY <1>1, <2>2, RenewFacts
  <2> QED BY <2>1, <2>2
<1> HIDE DEF y
<1>3. CASE z.here
  <2>1. Sound(begin_authentication(y, FALSE, FALSE, t), t)
    BY <1>2, <1>3, BeginSound
  <2> QED BY <1>1, <1>3, <2>1 DEF x, y
<1>4. CASE ~z.here
  <2> DEFINE k == Seek(y, "manual", t)
  <2>1. z.grant # None /\ z.grant.left /\ z.grant.active <= t /\ ~Lapsed(z.grant, t)
    BY <1>4 DEF Sound, Timed, Met
  <2>2. /\ k \in State /\ k.here = y.here /\ k.attempt = y.attempt /\ k.due > t
        /\ k.grant # None
        /\ k.grant.policy = y.grant.policy /\ k.grant.auth = y.grant.auth
        /\ k.grant.active = y.grant.active /\ k.grant.left = y.grant.left
    BY <1>2, <2>1, SeekFacts
  <2> HIDE DEF k
  <2>3. /\ k.grant.policy = z.grant.policy /\ k.grant.auth = z.grant.auth
        /\ k.grant.active = z.grant.active /\ k.grant.left /\ k.attempt = None
    BY <1>2, <2>1, <2>2
  <2>4. ~Lapsed(k.grant, t)
    BY <2>1, <2>3, SameTimers
  <2>5. Timed(k, t)
    BY <2>1, <2>2, <2>3 DEF Timed
  <2>6. Behind(k, t)
    BY <2>3 DEF Behind
  <2>7. Met(k, t)
    BY <2>2, <2>4 DEF Met
  <2>8. Sound(k, t)
    BY <2>5, <2>6, <2>7 DEF Sound
  <2> QED BY <1>1, <1>4, <2>8 DEF x, y, k
<1> QED BY <1>3, <1>4, <1>0, Parts

\* The source of a subject is back.
LEMMA ReturnSound ==
    ASSUME NEW t \in Instant, NEW x, Sound(x, t)
    PROVE  Sound([x EXCEPT !.here = TRUE, !.heard = FALSE], t)
<1> DEFINE y == [x EXCEPT !.here = TRUE, !.heard = FALSE]
<1>0. x \in State
  BY DEF Sound, Timed
<1>1. /\ y \in State /\ y.here = TRUE /\ y.grant = x.grant /\ y.attempt = x.attempt /\ y.due = x.due
  BY <1>0 DEF State
<1> HIDE DEF y
<1>2. Timed(y, t)
  BY <1>1 DEF Sound, Timed
<1>3. Behind(y, t) /\ Met(y, t)
  BY <1>1 DEF Sound, Behind, Met
<1> QED BY <1>2, <1>3 DEF Sound, y

\* Reset and restart: no session, no attempt.
LEMMA ClearedSound ==
    ASSUME Clocked, NEW t
    PROVE  Cleared \in Table /\ \A s \in Subject : Sound(Cleared[s], t)
<1> DEFINE y(s) == [end_session(subject[s]) EXCEPT !.used = 0, !.heard = FALSE]
<1>1. ASSUME NEW s \in Subject
      PROVE  y(s) \in State /\ Sound(y(s), t)
  <2>1. subject[s] \in State
    BY DEF Clocked
  <2>2. end_session(subject[s]) \in State /\ end_session(subject[s]).grant = None
        /\ end_session(subject[s]).attempt = None
    BY <2>1, EndFacts
  <2>3. 0 \in 0..Budget
    BY AdvanceAssumption
  <2>4. y(s) \in State /\ y(s).grant = None /\ y(s).attempt = None
    BY <2>2, <2>3 DEF State
  <2> HIDE DEF y
  <2> QED BY <2>4, IdleSound
<1>2. Cleared = [s \in Subject |-> y(s)]
  BY DEF Cleared
<1> HIDE DEF y
<1> QED BY <1>1, <1>2 DEF Table

\* Edits and manual actions.
LEMMA EditsKeep ==
    ASSUME TInv,
           EditVlans \/ \E s \in Subject : Leave(s) \/ Return(s) \/ Restart(s) \/ Reauthenticate(s)
    PROVE  Clocked' /\ Guarded' /\ now' = now
<1>0. /\ now \in Instant /\ subject \in Table /\ \A r \in Subject : Sound(subject[r], now) /\ subject[r] \in State
      /\ edits \in 0..MaxEdits /\ Clocked
  BY DEF TInv, Clocked, Table
<1>1. Edit => edits' \in 0..MaxEdits
  BY <1>0, AdvanceAssumption DEF Edit
<1>2. CASE EditVlans
  <2> DEFINE S == [r \in Subject |-> Retired(subject[r])]
  <2>1. Publish(S, op) /\ UNCHANGED <<now, paused, issued, guarded>> /\ edits' \in 0..MaxEdits
    BY <1>1, <1>2 DEF EditVlans
  <2>2. \A r \in Subject : Sound(Retired(subject[r]), now)
    BY <1>0, RetiredSound
  <2>3. S \in Table /\ \A r \in Subject : Sound(S[r], now)
    BY <2>2 DEF Table, Sound, Timed
  <2> HIDE DEF S
  <2> QED BY <2>1, <2>3, EditKeeps
<1>3. ASSUME NEW s \in Subject, Leave(s) \/ Return(s) \/ Restart(s) \/ Reauthenticate(s)
      PROVE  \E y : /\ Publish([subject EXCEPT ![s] = y], op) /\ Sound(y, now) /\ Edit
                    /\ UNCHANGED <<now, paused, issued, guarded>>
  <2>1. CASE Leave(s)
    <3> DEFINE x == Retired(subject[s])
               y == [(IF x.grant = None THEN Fresh(x) ELSE [x EXCEPT !.grant.left = TRUE]) EXCEPT !.here = FALSE]
    <3>1. Sound(x, now) /\ x.attempt = None
      BY <1>0, RetiredSound
    <3>2. Publish([subject EXCEPT ![s] = y], op) /\ Edit /\ UNCHANGED <<now, paused, issued, guarded>>
      BY <2>1 DEF Leave
    <3> HIDE DEF x
    <3>3. Sound(y, now)
      BY <1>0, <3>1, LeaveSound
    <3> HIDE DEF y
    <3> QED BY <3>2, <3>3
  <2>2. CASE Return(s)
    <3> DEFINE y == [subject[s] EXCEPT !.here = TRUE, !.heard = FALSE]
    <3>1. [subject EXCEPT ![s].here = TRUE, ![s].heard = FALSE] = [subject EXCEPT ![s] = y]
      BY <1>0 DEF Table, State
    <3>2. Publish([subject EXCEPT ![s] = y], op) /\ Edit /\ UNCHANGED <<now, paused, issued, guarded>>
      BY <2>2, <3>1 DEF Return
    <3>3. Sound(y, now)
      BY <1>0, ReturnSound
    <3> HIDE DEF y
    <3> QED BY <3>2, <3>3
  <2>3. CASE Restart(s)
    <3> DEFINE x == end_session(subject[s])
               y == IF x.here THEN begin_authentication(x, FALSE, FALSE, now) ELSE x
    <3>1. Publish([subject EXCEPT ![s] = y], op) /\ Edit /\ UNCHANGED <<now, paused, issued, guarded>>
      BY <2>3 DEF Restart
    <3>2. x \in State /\ x.grant = None /\ x.attempt = None /\ x.here = subject[s].here
      BY <1>0, EndFacts
    <3> HIDE DEF x
    <3>3. x.here => Sound(begin_authentication(x, FALSE, FALSE, now), now)
      BY <1>0, <3>2, BeginSound
    <3>4. Sound(x, now)
      BY <3>2, IdleSound
    <3>5. Sound(y, now)
      BY <3>3, <3>4
    <3> HIDE DEF y
    <3> QED BY <3>1, <3>5
  <2>4. CASE Reauthenticate(s)
    <3> DEFINE x == [subject[s] EXCEPT !.attempt = None]
               z == IF x.grant = None THEN x ELSE Renewing(x, "manual")
               y == IF x.here THEN begin_authentication(z, FALSE, FALSE, now) ELSE Seek(z, "manual", now)
    <3>1. Publish([subject EXCEPT ![s] = y], op) /\ Edit /\ UNCHANGED <<now, paused, issued, guarded>>
      BY <2>4 DEF Reauthenticate
    <3>2. x.here \/ x.grant # None
      BY <2>4 DEF Reauthenticate
    <3>3. subject[s].here \/ subject[s].grant # None
      BY <1>0, <3>2, DroppedFacts
    <3>4. Sound(y, now)
      BY <1>0, <3>3, ReauthenticateSound
    <3> HIDE DEF y
    <3> QED BY <3>1, <3>4
  <2> QED BY <1>3, <2>1, <2>2, <2>3, <2>4
<1>4. ASSUME NEW s \in Subject, Leave(s) \/ Return(s) \/ Restart(s) \/ Reauthenticate(s)
      PROVE  Clocked' /\ Guarded' /\ now' = now
  <2>1. PICK y : /\ Publish([subject EXCEPT ![s] = y], op) /\ Sound(y, now) /\ Edit
                 /\ UNCHANGED <<now, paused, issued, guarded>>
    BY <1>3, <1>4
  <2> DEFINE S == [subject EXCEPT ![s] = y]
  <2>2. S \in Table /\ \A r \in Subject : Sound(S[r], now)
    BY <1>0, <2>1, OneSound
  <2>3. Publish(S, op)
    BY <2>1
  <2> HIDE DEF S
  <2> QED BY <1>1, <2>1, <2>2, <2>3, EditKeeps
<1> QED BY <1>2, <1>4

\* An import, a reboot of the switch, and a new process.
LEMMA ResetKeeps ==
    ASSUME TInv,
           Reload \/ \E status \in {"interrupted-on-reset", "interrupted-on-boot"} : Reset(status)
    PROVE  Clocked' /\ Guarded' /\ now' = 0
<1>0. /\ 0 \in Instant /\ edits \in 0..MaxEdits /\ issued \in Nat /\ paused \in BOOLEAN
      /\ Clocked /\ IInv
  BY AdvanceAssumption DEF TInv, IInv, Issued, Clocked, Instant
<1>1. Edit => edits' \in 0..MaxEdits
  BY <1>0, AdvanceAssumption DEF Edit
<1>2. Cleared \in Table /\ \A s \in Subject : Sound(Cleared[s], 0)
  BY <1>0, ClearedSound
<1>3. CASE Reload
  <2>1. /\ now' = 0 /\ subject' = Cleared /\ UNCHANGED <<paused, issued, guarded>>
        /\ edits' \in 0..MaxEdits
        /\ op'.id = 0 /\ op'.status = "none" /\ op'.target = 0 /\ op'.current = TRUE
    BY <1>1, <1>3 DEF Reload, NoOperation
  <2>2. Clocked'
    BY <1>0, <1>2, <2>1 DEF Clocked, Table
  <2>3. Guarded'
    BY <1>0, <2>1 DEF TInv, Guarded, GuardReported
  <2> QED BY <2>1, <2>2, <2>3
<1>4. ASSUME NEW status \in {"interrupted-on-reset", "interrupted-on-boot"}, Reset(status)
      PROVE  Clocked' /\ Guarded' /\ now' = 0
  <2> DEFINE o == Interrupted(status)
  <2>1. /\ now' = 0 /\ Publish(Cleared, o) /\ UNCHANGED <<paused, issued, guarded>>
        /\ edits' \in 0..MaxEdits
    BY <1>1, <1>4 DEF Reset
  <2>2. /\ o.id = op.id /\ o.target = op.target /\ o.current = FALSE
        /\ o.status = IF op.status = "waiting" THEN status ELSE op.status
        /\ o = [id |-> op.id, status |-> o.status, target |-> op.target, current |-> o.current]
    BY DEF Interrupted
  <2> HIDE DEF o
  <2>3. o.status \in Ended \cup {"none"} /\ o.status # "waiting"
    BY <1>0, <2>2 DEF IInv, Issued, Ended
  <2>4. Follows(o)
    BY <2>2, <2>3 DEF Follows
  <2>5. Clocked'
    BY <1>0, <1>2, <2>1, <2>2, <2>3, <2>4, PublishClocked
  <2>6. op' = o
    BY <2>1 DEF Publish
  <2>7. Guarded'
    BY <2>1, <2>2, <2>6 DEF TInv, Guarded, GuardReported
  <2> QED BY <2>1, <2>5, <2>7
<1> QED BY <1>3, <1>4

\* A cancelled operation, and the simulation stopped and started.
LEMMA CancelKeeps ==
    ASSUME TInv, Cancel \/ Pause \/ Resume \/ UNCHANGED vars
    PROVE  Clocked' /\ Guarded' /\ now' = now
<1>1. CASE Cancel
  <2>1. /\ op.status = "waiting" /\ Publish(subject, [op EXCEPT !.status = "canceled"])
        /\ UNCHANGED <<now, paused, issued, edits, guarded>>
    BY <1>1 DEF Cancel
  <2>2. /\ now \in Instant /\ subject \in Table /\ \A s \in Subject : Sound(subject[s], now)
        /\ now <= op.target
    BY <2>1 DEF TInv, Clocked, Table
  <2>3. "canceled" \in Ended \cup {"waiting"}
    BY DEF Ended
  <2> QED BY <2>1, <2>2, <2>3, StatusKeeps
<1>2. CASE Pause \/ Resume \/ UNCHANGED vars
  <2>1. UNCHANGED <<now, subject, op, issued, edits, guarded>> /\ paused' \in BOOLEAN
    BY <1>2 DEF TInv, Clocked, Pause, Resume, vars
  <2>2. Clocked'
    BY <2>1 DEF TInv, Clocked
  <2>3. Guarded'
    BY <2>1 DEF TInv, Guarded, GuardReported
  <2> QED BY <2>1, <2>2, <2>3
<1> QED BY <1>1, <1>2

\* The invariant holds at the start.
LEMMA InitTimed == Init => TInv
<1> SUFFICES ASSUME Init PROVE TInv
  OBVIOUS
<1>1. Clocked
  <2> DEFINE x == [here |-> TRUE, grant |-> None, attempt |-> None, asleep |-> FALSE,
                   retry |-> 0, due |-> 0, used |-> 0, heard |-> FALSE]
  <2>1. 0 \in Instant /\ 0 \in 0..MaxEdits /\ 0 \in 0..Budget /\ 0 \in 0..Horizon + Retry
        /\ 0 \in 0..Horizon + Discovery
    BY AdvanceAssumption DEF Instant
  <2>2. x \in State /\ x.grant = None /\ x.attempt = None
    BY <2>1 DEF State
  <2>3. subject = [s \in Subject |-> x] /\ now = 0 /\ paused \in BOOLEAN /\ edits = 0
        /\ op.status = "none" /\ op.target = 0 /\ op.current = TRUE
    BY DEF Init, NoOperation
  <2> HIDE DEF x
  <2>4. Sound(x, now)
    BY <2>2, IdleSound
  <2> QED BY <2>1, <2>2, <2>3, <2>4 DEF Clocked
<1>2. Guarded
  BY DEF Init, Guarded, GuardReported, NoOperation
<1> QED BY <1>1, <1>2, InitSettles DEF TInv

\* Every step keeps the timers, and none moves the clock but an advance: a new
\* one when no operation waits, or the one that waits.
LEMMA NextTimed ==
    ASSUME TInv, [Next]_vars
    PROVE  /\ TInv'
           /\ now' > now =>
                 /\ ~Pending(subject)
                 /\ op.status = "waiting" => op'.id = op.id /\ now' <= op.target
<1> DEFINE Good == /\ Clocked' /\ Guarded'
                   /\ now' > now =>
                         /\ ~Pending(subject)
                         /\ op.status = "waiting" => op'.id = op.id /\ now' <= op.target
<1>0. now \in Nat /\ ~(now > now) /\ ~(0 > now)
  BY AdvanceAssumption DEF TInv, Clocked, Instant
<1>1. IInv'
  BY NextSettles DEF TInv
<1>2. ASSUME NEW target \in now + 1..Horizon, Manual(target) \/ Automatic(target)
      PROVE  Good
  <2>1. PICK entries : Start(target, entries)
    BY <1>2 DEF Manual, Automatic
  <2>2. op.status # "waiting"
    BY <2>1 DEF Start, Owned
  <2> QED BY <2>1, <2>2, StartKeeps
<1>3. ASSUME Proceed
      PROVE  Good
  BY <1>3, ProceedKeeps
<1>4. ASSUME Cancel \/ Pause \/ Resume \/ UNCHANGED vars
      PROVE  Good
  BY <1>0, <1>4, CancelKeeps
<1>5. ASSUME Discover \/ \E s \in Subject : Answer(s)
      PROVE  Good
  BY <1>0, <1>5, AnswerKeeps
<1>6. ASSUME EditVlans \/ \E s \in Subject : Leave(s) \/ Return(s) \/ Restart(s) \/ Reauthenticate(s)
      PROVE  Good
  BY <1>0, <1>6, EditsKeep
<1>7. ASSUME Reload \/ \E status \in {"interrupted-on-reset", "interrupted-on-boot"} : Reset(status)
      PROVE  Good
  BY <1>0, <1>7, ResetKeeps
<1>8. Good
  <2> HIDE DEF Good
  <2> QED BY <1>2, <1>3, <1>4, <1>5, <1>6, <1>7 DEF Next
<1> QED BY <1>1, <1>8 DEF TInv

\* For any subjects, timers, budgets and targets: whatever advances, answers,
\* edits, resets and restarts happen in whatever order, no session is live at
\* its end and no renewal is passed over (process_session_deadlines).
THEOREM DeadlinesKept == Spec => []DeadlinesMet
<1>1. TInv => DeadlinesMet
  <2> SUFFICES ASSUME TInv PROVE DeadlinesMet
    OBVIOUS
  <2>0. MaxOps \in Nat /\ issued \in 0..MaxOps /\ op.id \in 0..issued
    BY AdvanceAssumption DEF TInv, IInv, Issued
  <2>1. TypeOK
    <3>1. op \in Operation
      <4>1. op.id \in 0..MaxOps
        BY <2>0
      <4> QED BY <4>1 DEF TInv, IInv, Issued, Clocked, Operation
    <3>2. guarded \subseteq 1..MaxOps
      <4>1. 1..issued \subseteq 1..MaxOps
        BY <2>0
      <4> QED BY <4>1 DEF TInv, Guarded
    <3> QED BY <3>1, <3>2 DEF TInv, IInv, Issued, Clocked, TypeOK
  <2>2. NoGrantOutlives
    BY DEF TInv, Clocked, Sound, Met, NoGrantOutlives
  <2>3. RenewedInTime
    BY DEF TInv, Clocked, Sound, Behind, Met, RenewedInTime
  <2> QED BY <2>1, <2>2, <2>3 DEF DeadlinesMet
<1>2. TInv /\ [Next]_vars => TInv'
  BY NextTimed
<1> QED BY <1>1, <1>2, InitTimed, PTL DEF Spec

\* For any budget of renewals: an advance that waits while it runs out is
\* reported as failed, never as completed by the call that continues it.
THEOREM GuardIsReported == Spec => []GuardReported
<1>1. TInv => GuardReported
  BY DEF TInv, Guarded
<1>2. TInv /\ [Next]_vars => TInv'
  BY NextTimed
<1> QED BY <1>1, <1>2, InitTimed, PTL DEF Spec

\* For any number of advances: the clock moves only while no exchange is
\* pending, and while an operation waits only for it, up to its target.
THEOREM TimeIsOwned == Spec => TimeOwned
<1> DEFINE A == now' > now =>
                  /\ ~Pending(subject)
                  /\ op.status = "waiting" => op'.id = op.id /\ now' <= op.target
<1>1. TInv /\ [Next]_vars => TInv' /\ [A]_vars
  BY NextTimed
<1> QED BY <1>1, InitTimed, PTL DEF Spec, TimeOwned

=============================================================================
