------------------------------ MODULE Advance ------------------------------
(***************************************************************************)
(* The simulated clock of switchlab/engine.py: Runtime.advance with the    *)
(* session timers it meets, the operation record of an advance that has to *)
(* wait for RADIUS exchanges, and the background calls that continue it.   *)
(*                                                                         *)
(* An advance goes from deadline to deadline.  At each it ends the grants  *)
(* whose time is over, starts renewals and first authentications, and lets *)
(* source activity in; as soon as an exchange is pending it stops there,   *)
(* and the clock stands until the exchanges are over and the advance is    *)
(* continued, cancelled or interrupted.                                    *)
(*                                                                         *)
(* The clock ticks one instant at a time here: nothing is due at instants  *)
(* the code skips.  Subjects are clients with a supplicant, fewer than may *)
(* be tried at once, on ports that stay up and admit several; whether a    *)
(* result is still current is the matter of Access, so that a late result  *)
(* is no step of this module.                                              *)
(***************************************************************************)
EXTENDS Integers

CONSTANTS
    Subject,     \* (port, address) pairs
    Policy,      \* timers a server grants
    None,
    Budget,      \* automatic renewals of a subject at one instant (64)
    Retry,       \* failed_cycle_retry_seconds
    Discovery,   \* discovery_seconds
    Horizon,     \* bound: the last instant
    MaxOps,      \* bound: advances that had to wait
    MaxEdits     \* bound: edits, manual actions, resets and restarts

ASSUME AdvanceAssumption ==
    /\ Policy \subseteq [lease : Nat, renew : BOOLEAN, idle : Nat]
    /\ None \notin [policy : Policy, auth : Nat, active : Nat, left : BOOLEAN,
                    renewing : {"no", "auto", "manual"}]
    /\ None \notin [auto : BOOLEAN, mab : BOOLEAN]
    /\ Budget \in Nat \ {0} /\ Retry \in Nat \ {0} /\ Discovery \in Nat \ {0}
    /\ Horizon \in Nat /\ MaxOps \in Nat /\ MaxEdits \in Nat

Instant == 0..Horizon

\* A session's timers: it was authenticated and last active at these instants;
\* a renewal of it may be under way.  left is history: the client left the port
\* since it was authenticated.
Grant ==
    [policy : Policy, auth : Instant, active : Instant, left : BOOLEAN,
     renewing : {"no", "auto", "manual"}]

Attempt == [auto : BOOLEAN, mab : BOOLEAN]

\* A subject: here while its source is attached; asleep until it is active
\* (waiting-activity); not tried before retry; sought until due (discovering);
\* used counts its automatic renewals at this instant; its job has been
\* observed at this instant when it is heard.
State ==
    [here : BOOLEAN, grant : Grant \cup {None}, attempt : Attempt \cup {None}, asleep : BOOLEAN,
     retry : 0..Horizon + Retry, due : 0..Horizon + Discovery, used : 0..Budget, heard : BOOLEAN]

Ended ==
    {"completed", "canceled", "failed-on-guard", "interrupted-on-reset", "interrupted-on-boot"}

\* advance_operation; current: it belongs to this epoch.
Operation ==
    [id : 0..MaxOps, status : Ended \cup {"none", "waiting"}, target : Instant, current : BOOLEAN]

NoOperation == [id |-> 0, status |-> "none", target |-> 0, current |-> TRUE]

VARIABLES
    now,        \* sim_ms
    subject,    \* radius_sessions, radius_attempts, radius_status, renewal_budget
    paused,     \* cfg.paused
    op,         \* advance_operation
    issued,     \* operations so far
    reply,      \* per operation: its status in the idempotency entry of its command
    edits,      \* edits so far
    guarded     \* history: operations that waited when the budget ran out

vars == <<now, subject, paused, op, issued, reply, edits, guarded>>

TypeOK ==
    /\ now \in Instant
    /\ subject \in [Subject -> State]
    /\ paused \in BOOLEAN
    /\ op \in Operation
    /\ issued \in 0..MaxOps
    /\ reply \in [1..MaxOps -> Ended \cup {"none", "waiting"}]
    /\ edits \in 0..MaxEdits
    /\ guarded \subseteq 1..MaxOps

-----------------------------------------------------------------------------
(***************************************************************************)
(* One subject at one instant                                              *)
(***************************************************************************)

\* session_deadlines: idle and termination end the grant, renewal renews it.
Lapsed(g, t) ==
    \/ g.active + g.policy.idle <= t
    \/ ~g.policy.renew /\ g.auth + g.policy.lease <= t

Due(g, t) == g.policy.renew /\ g.auth + g.policy.lease <= t

\* A new status replaces the old one.
Fresh(x) == [x EXCEPT !.asleep = FALSE, !.retry = 0, !.due = 0]

\* end_session, and the attempt to renew it is retired with it.
end_session(x) == [Fresh(x) EXCEPT !.grant = None, !.attempt = None]

\* Mutation: the budget is not looked at.
MutantSpent(x) == FALSE

\* reserve_renewal: the budget of this instant is spent.
Spent(x) == x.used >= Budget

\* begin_authentication, and for an automatic renewal reserve_renewal: without
\* budget the session ends and its subject waits.
begin_authentication(x, auto, mab, t) ==
    IF auto /\ Spent(x)
    THEN [end_session(x) EXCEPT !.retry = t + Retry]
    ELSE [Fresh(x) EXCEPT !.attempt = [auto |-> auto, mab |-> mab],
                          !.used = IF auto /\ @ < Budget THEN @ + 1 ELSE @]

Renewing(x, how) == [x EXCEPT !.grant.renewing = how]

\* The client is not on the port: it is sought before the grant ends.
Seek(x, how, t) == [Fresh(Renewing(x, how)) EXCEPT !.due = t + Discovery]

\* A renewal has to be started, sought, or given up.
Wanted(x, t) ==
    /\ x.grant # None
    /\ ~Lapsed(x.grant, t)
    /\ x.attempt = None
    /\ IF x.grant.renewing = "no" THEN Due(x.grant, t) ELSE x.due <= t

\* How a renewal that is wanted was asked for.
How(x) == IF x.grant.renewing = "no" THEN "auto" ELSE x.grant.renewing

\* process_session_deadlines for one session.
process(x, t) ==
    CASE x.grant # None /\ Lapsed(x.grant, t) -> [end_session(x) EXCEPT !.asleep = x.here]
      [] Wanted(x, t) /\ x.here ->
            begin_authentication(Renewing(x, How(x)), How(x) = "auto", FALSE, t)
      [] Wanted(x, t) /\ ~x.here ->
            IF x.grant.renewing = "no" THEN Seek(x, "auto", t) ELSE end_session(x)
      [] OTHER -> x

\* Its renewal is refused for want of budget.
Trips(x, t) == Wanted(x, t) /\ x.here /\ How(x) = "auto" /\ Spent(x)

\* prepare_authentication for one subject.
prepare(x, t) ==
    IF x.here /\ x.grant = None /\ x.attempt = None /\ ~x.asleep /\ x.retry <= t
    THEN begin_authentication(x, FALSE, FALSE, t) ELSE x

\* observe: activity of an admitted source, or of one that is waited for.
observe(x, t) ==
    LET y == [x EXCEPT !.heard = TRUE]
    IN CASE x.grant # None -> [y EXCEPT !.grant.active = t]
         [] x.grant = None /\ x.asleep -> begin_authentication(y, FALSE, FALSE, t)
         [] OTHER -> y

-----------------------------------------------------------------------------
(***************************************************************************)
(* Runtime.advance                                                         *)
(***************************************************************************)

Pending(S) == \E s \in Subject : S[s].attempt # None

Processed(S, t) == [s \in Subject |-> process(S[s], t)]
Prepared(S, t) == [s \in Subject |-> prepare(S[s], t)]
AnyTrips(S, t) == \E s \in Subject : Trips(S[s], t)

\* The jobs of an instant are observed once, in a fixed order, until an exchange
\* starts; those after it stay due.
Observed(S, t, seen) ==
    LET active == {s \in seen : S[s].here /\ ~S[s].heard}
        wake == {s \in active : S[s].asleep}
        first == IF wake = {} THEN {} ELSE {CHOOSE s \in wake : TRUE}
    IN [s \in Subject |-> IF s \in (active \ wake) \cup first THEN observe(S[s], t) ELSE S[s]]

\* reach_time: a later instant has a new budget, and jobs are due again.
Reach(S, t) ==
    IF t > now THEN [s \in Subject |-> [S[s] EXCEPT !.used = 0, !.heard = FALSE]] ELSE S

\* The instant t of an advance; w is where the clock stands, the subjects, and
\* whether a budget ran out.
Ticks(w, t) ==
    LET S == Reach(w.subject, t)
        ready == Prepared(Processed(S, t), t)
        ends == IF Pending(ready) THEN {ready} ELSE {Observed(ready, t, seen) : seen \in SUBSET Subject}
    IN {[at |-> t, subject |-> T, tripped |-> w.tripped \/ AnyTrips(S, t)] : T \in ends}

\* Where an advance may end: at its target, or at the first instant with an
\* exchange pending.
advance(target) ==
    LET start == [at |-> now, subject |-> subject, tripped |-> FALSE]
        run[t \in now..target] ==
            IF t = now THEN Ticks(start, t)
            ELSE UNION {IF Pending(w.subject) THEN {w} ELSE Ticks(w, t) : w \in run[t - 1]}
    IN run[target]

-----------------------------------------------------------------------------
(***************************************************************************)
(* Commands                                                                *)
(***************************************************************************)

\* _execute: the idempotency entry of an advance follows its operation.
Publish(S, o) ==
    /\ subject' = S
    /\ op' = o
    /\ reply' = [i \in 1..MaxOps |-> IF i = o.id /\ reply[i] # "none" THEN o.status ELSE reply[i]]

\* Budgets that run out while an operation waits.
Note(tripped) == guarded' = IF tripped /\ op.status = "waiting" THEN guarded \cup {op.id} ELSE guarded

\* reserve_renewal fails the operation that waits.
Failing(tripped) ==
    IF tripped /\ op.status = "waiting" THEN [op EXCEPT !.status = "failed-on-guard"] ELSE op

Pause ==
    /\ paused' = TRUE
    /\ UNCHANGED <<now, subject, op, issued, reply, edits, guarded>>

\* Mutation: the timeline is owned while exchanges are pending.
MutantOwned == op.status = "waiting" /\ Pending(subject)

Owned == op.status = "waiting"

Resume ==
    /\ ~Owned
    /\ paused' = FALSE
    /\ UNCHANGED <<now, subject, op, issued, reply, edits, guarded>>

\* advance: completed at once, or with an operation that waits; entries: what is
\* kept for a retry, nothing unless the command has an idempotency key.
Start(target, entries) ==
    /\ ~Owned
    /\ \E done \in advance(target) :
          /\ now' = done.at
          /\ subject' = done.subject
          /\ IF Pending(done.subject)
             THEN /\ issued < MaxOps
                  /\ issued' = issued + 1
                  /\ op' = [id |-> issued', status |-> "waiting", target |-> target, current |-> TRUE]
                  /\ \E e \in entries : reply' = [reply EXCEPT ![issued'] = e]
             ELSE UNCHANGED <<issued, op, reply>>
    /\ UNCHANGED <<paused, edits, guarded>>

Manual(target) == paused /\ Start(target, {"none", "waiting"})

\* Mutation: an advance goes on before sessions are serviced.
MutantSettled == TRUE

\* A turn of the background services sessions first and does not let anything in
\* between, so that nothing is left to discover when it turns to the clock.
Settled == Prepared(Processed(subject, now), now) = subject

\* The background's advance, skipped while exchanges are pending.
Automatic(target) == ~paused /\ ~Pending(subject) /\ Settled /\ Start(target, {"none"})

\* continue_advance.
Continue ==
    /\ op.status = "waiting" /\ op.current /\ ~Pending(subject) /\ Settled
    /\ \E done \in advance(op.target) :
          /\ now' = done.at
          /\ Note(done.tripped)
          /\ Publish(done.subject,
                     [op EXCEPT !.status = IF Pending(done.subject) THEN "waiting" ELSE "completed"])
    /\ UNCHANGED <<paused, issued, edits>>

\* advance-fail: the rest of the advance is too much work.
Fail ==
    /\ op.status = "waiting" /\ op.current /\ ~Pending(subject) /\ Settled
    /\ Publish(subject, [op EXCEPT !.status = "failed-on-guard"])
    /\ UNCHANGED <<now, paused, issued, edits, guarded>>

\* advance-cancel.
Cancel ==
    /\ op.status = "waiting"
    /\ Publish(subject, [op EXCEPT !.status = "canceled"])
    /\ UNCHANGED <<now, paused, issued, edits, guarded>>

-----------------------------------------------------------------------------
(***************************************************************************)
(* Exchanges                                                               *)
(***************************************************************************)

\* radius-discover, from service_authentication.
Discover ==
    LET next == Prepared(Processed(subject, now), now)
    IN /\ ~Settled
       /\ Note(AnyTrips(subject, now))
       /\ Publish(next, Failing(AnyTrips(subject, now)))
       /\ UNCHANGED <<now, paused, issued, edits>>

\* A grant under the timers p; activity counts on from the session it replaces.
Granted(x, p) ==
    [Fresh(x) EXCEPT
        !.attempt = None,
        !.grant = [policy |-> p, auth |-> now, left |-> FALSE, renewing |-> "no",
                   active |-> IF x.grant = None THEN now ELSE x.grant.active]]

\* Mutation: timers that are due at once are left for later.
MutantAccept(s, p) ==
    /\ subject[s].attempt # None
    /\ Publish([subject EXCEPT ![s] = Granted(@, p)], op)
    /\ UNCHANGED <<now, paused, issued, edits, guarded>>

\* radius-result of an accept: the deadlines of all sessions are processed.
Accept(s, p) ==
    LET S == [subject EXCEPT ![s] = Granted(@, p)]
    IN /\ subject[s].attempt # None
       /\ Note(AnyTrips(S, now))
       /\ Publish(Processed(S, now), Failing(AnyTrips(S, now)))
       /\ UNCHANGED <<now, paused, issued, edits>>

\* A reject, a failed or an unanswered exchange ends the session.
Reject(s) ==
    /\ subject[s].attempt # None
    /\ Publish([subject EXCEPT ![s] = [end_session(@) EXCEPT !.retry = now + Retry]], op)
    /\ UNCHANGED <<now, paused, issued, edits, guarded>>

\* A reject that falls back to MAB: another exchange, from the same budget.
FallBack(s) ==
    LET x == [subject[s] EXCEPT !.attempt = None]
        tripped == subject[s].attempt.auto /\ Spent(x)
    IN /\ subject[s].attempt # None /\ ~subject[s].attempt.mab
       /\ Note(tripped)
       /\ Publish([subject EXCEPT ![s] = begin_authentication(x, @.attempt.auto, TRUE, now)],
                  Failing(tripped))
       /\ UNCHANGED <<now, paused, issued, edits>>

-----------------------------------------------------------------------------
(***************************************************************************)
(* Edits, resets and restarts                                              *)
(***************************************************************************)

Edit == edits < MaxEdits /\ edits' = edits + 1

\* reconcile_authentication retires an attempt; its grant is no longer being
\* renewed.
Retired(x) ==
    IF x.attempt = None THEN x
    ELSE [Fresh(IF x.grant = None THEN x ELSE Renewing(x, "no")) EXCEPT !.attempt = None]

\* A VLAN is created or deleted: every attempt is retired.
EditVlans ==
    /\ Edit
    /\ Publish([s \in Subject |-> Retired(subject[s])], op)
    /\ UNCHANGED <<now, paused, issued, guarded>>

\* The source leaves the port, which stays up; what was said of a subject
\* without a session no longer holds.
Leave(s) ==
    LET x == Retired(subject[s])
    IN /\ Edit
       /\ x.here
       /\ Publish([subject EXCEPT ![s] =
             [(IF x.grant = None THEN Fresh(x) ELSE [x EXCEPT !.grant.left = TRUE]) EXCEPT !.here = FALSE]], op)
       /\ UNCHANGED <<now, paused, issued, guarded>>

Return(s) ==
    /\ Edit
    /\ ~subject[s].here
    /\ Publish([subject EXCEPT ![s].here = TRUE, ![s].heard = FALSE], op)
    /\ UNCHANGED <<now, paused, issued, guarded>>

\* radius-session-action and source-authentication: restart.
Restart(s) ==
    LET x == end_session(subject[s])
    IN /\ Edit
       /\ Publish([subject EXCEPT ![s] =
             IF x.here THEN begin_authentication(x, FALSE, FALSE, now) ELSE x], op)
       /\ UNCHANGED <<now, paused, issued, guarded>>

\* The same: reauthenticate.
Reauthenticate(s) ==
    LET x == [subject[s] EXCEPT !.attempt = None]
        y == IF x.grant = None THEN x ELSE Renewing(x, "manual")
    IN /\ Edit
       /\ x.here \/ x.grant # None
       /\ Publish([subject EXCEPT ![s] =
             IF x.here THEN begin_authentication(y, FALSE, FALSE, now) ELSE Seek(y, "manual", now)], op)
       /\ UNCHANGED <<now, paused, issued, guarded>>

\* Mutation: the operation goes on waiting.
MutantInterrupted(status) == [op EXCEPT !.current = FALSE]

\* reset_operational.
Interrupted(status) ==
    [id |-> op.id, status |-> IF op.status = "waiting" THEN status ELSE op.status,
     target |-> op.target, current |-> FALSE]

Cleared == [s \in Subject |-> [end_session(subject[s]) EXCEPT !.used = 0, !.heard = FALSE]]

\* An import resets the simulation; a reboot of the switch does too.
Reset(status) ==
    /\ Edit
    /\ now' = 0
    /\ Publish(Cleared, Interrupted(status))
    /\ UNCHANGED <<paused, issued, guarded>>

\* Engine.__init__: operations do not survive the process.
Restored(r) == IF r = "waiting" THEN "interrupted-on-boot" ELSE r

\* The process ends and is started again.
Reload ==
    /\ Edit
    /\ now' = 0
    /\ subject' = Cleared
    /\ op' = NoOperation
    /\ reply' = [i \in 1..MaxOps |-> Restored(reply[i])]
    /\ UNCHANGED <<paused, issued, guarded>>

-----------------------------------------------------------------------------

Init ==
    /\ now = 0
    /\ subject = [s \in Subject |->
          [here |-> TRUE, grant |-> None, attempt |-> None, asleep |-> FALSE,
           retry |-> 0, due |-> 0, used |-> 0, heard |-> FALSE]]
    /\ paused \in BOOLEAN
    /\ op = NoOperation
    /\ issued = 0
    /\ reply = [i \in 1..MaxOps |-> "none"]
    /\ edits = 0
    /\ guarded = {}

\* The background goes on with an advance.
Proceed == Fail \/ Continue

Answer(s) == Reject(s) \/ FallBack(s) \/ (\E p \in Policy : Accept(s, p))

Next ==
    \/ Pause
    \/ Resume
    \/ \E target \in now + 1..Horizon : Manual(target) \/ Automatic(target)
    \/ Proceed
    \/ Cancel
    \/ Discover
    \/ \E s \in Subject :
          Answer(s) \/ Leave(s) \/ Return(s) \/ Restart(s) \/ Reauthenticate(s)
    \/ EditVlans
    \/ \E status \in {"interrupted-on-reset", "interrupted-on-boot"} : Reset(status)
    \/ Reload

Spec == Init /\ [][Next]_vars

\* The background loop runs and every exchange has a deadline.
FairSpec == Spec /\ WF_vars(Proceed) /\ WF_vars(Discover) /\ \A s \in Subject : WF_vars(Answer(s))

-----------------------------------------------------------------------------
(***************************************************************************)
(* Properties                                                              *)
(***************************************************************************)

\* No session is live at or after the instant at which its idle or session
\* timeout ends it, however the clock gets there: process_session_deadlines
\* runs at every deadline the clock meets and after every accept.
NoGrantOutlives ==
    \A s \in Subject : subject[s].grant # None => ~Lapsed(subject[s].grant, now)

\* The clock does not pass a renewal: a session is past it only when its client
\* has left meanwhile, and a search for a client has a result when it is due.
RenewedInTime ==
    \A s \in Subject : LET x == subject[s] IN x.grant # None =>
        /\ x.grant.policy.renew /\ x.grant.auth + x.grant.policy.lease < now => x.grant.left
        /\ x.grant.renewing # "no" /\ x.attempt = None => x.due > now

\* In every (well-typed) state the deadlines behind the clock have had effect.
DeadlinesMet == TypeOK /\ NoGrantOutlives /\ RenewedInTime

\* What a retried advance command is told agrees with the operation: only the
\* current operation, on its own timeline, is ever reported as waiting, through
\* resets, reboots, restarts and later advances.
OperationsSettle ==
    /\ op.status = "waiting" => op.current
    /\ \A i \in 1..MaxOps :
          /\ reply[i] = "waiting" => op.id = i
          /\ op.id = i /\ reply[i] # "none" => reply[i] = op.status

\* Time moves only while no exchange is pending; while an operation waits, only
\* for that operation and not past its target.
TimeOwned ==
    [][now' > now =>
         /\ ~Pending(subject)
         /\ op.status = "waiting" => op'.id = op.id /\ now' <= op.target]_vars

\* An advance that waits comes to an end, zero session timeouts included.
AdvanceEnds == op.status = "waiting" ~> op.status # "waiting"

\* An advance that waits while the budget of renewals runs out is reported as
\* failed.  advance-continue itself would overwrite the report of reserve_renewal:
\* that it never has to is due to the order of the background's calls.
GuardReported == op.id \in guarded => op.status = "failed-on-guard"

=============================================================================
