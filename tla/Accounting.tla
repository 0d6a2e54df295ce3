----------------------------- MODULE Accounting -----------------------------
(***************************************************************************)
(* RADIUS accounting in switchlab/engine.py and radius.py: the durable     *)
(* outbox of Start, Interim, Stop, On and Off records and the tasks that   *)
(* deliver them.                                                           *)
(*                                                                         *)
(* Commands append records (queue_accounting) and are committed before     *)
(* they are published.  The background loop calls service_accounting,      *)
(* which prunes expired records and starts a delivery task for the head of *)
(* every session; On and Off records, which belong to the switch, wait for *)
(* everything older and hold back everything newer.  A task commits an     *)
(* event before each datagram, waits for a verified answer, retries, and   *)
(* in the end removes its record with an accounting-result command.        *)
(*                                                                         *)
(* The outbox is appended to with increasing numbers, so it is represented *)
(* by the set of its records; a record is known by its number.  Contents   *)
(* are abstract.  What the code decides by their size is a choice here: a  *)
(* record may be too large for a packet, then it takes no number; it may   *)
(* find no room in the 8 MiB of the outbox, then it takes one and is       *)
(* dropped; and Engine.__init__ may find a stored outbox too large, then   *)
(* there is no Restart.                                                    *)
(***************************************************************************)
EXTENDS Integers, FiniteSets

CONSTANTS
    Session,       \* accounting segments
    Nas,           \* the owner of On and Off records, "nas-lifecycle"
    Settings,      \* accounting settings: targets, secrets and retry policy
    Off,           \* settings with accounting disabled
    Limit,         \* records in the outbox at most (1024)
    MaxTasks,      \* deliveries at once (8)
    Tries,         \* attempts over all targets of a delivery
    MaxSequence,   \* bound: records ever numbered
    MaxUpsets      \* bound: changes of the clocks and rolled back commits
                   \* that disturb a delivery

ASSUME AccountingAssumption ==
    /\ Nas \notin Session
    /\ Off \notin Settings
    /\ Limit \in Nat /\ MaxTasks \in Nat \ {0} /\ Tries \in Nat \ {0}
    /\ MaxSequence \in Nat /\ MaxUpsets \in Nat

Owner == Session \cup {Nas}
Number == 1..MaxSequence

\* A queued record with the delivery policy and targets it captured.
Record == [n : Number, owner : Owner, settings : Settings]

\* A delivery task with the attempts it has left: about to make one, waiting
\* for an answer to it, or at its result; or it is over, and not yet reaped.
None == [phase |-> "none", left |-> 0]
Done == [phase |-> "done", left |-> 0]
Over == [phase |-> "result", left |-> 0]
Active == [phase : {"begin"}, left : 1..Tries]
            \cup [phase : {"sent"}, left : 0..Tries - 1] \cup {Over}

VARIABLES
    outbox,        \* accounting_outbox
    sequence,      \* accounting_sequence
    sessions,      \* live sessions
    settings,      \* accounting settings in force
    startup,       \* accounting settings a reboot or restart restores
    stored,        \* outbox, sequence and startup settings in the store
    expired,       \* numbers of the records the clocks call expired
    upsets,        \* disturbances so far
    task,          \* _accounting_tasks, by number
    servicing,     \* service_accounting: "idle", or waiting to "prune"
    stage,         \* of the process: "running", "draining" or "closed"
    fault,         \* store.fault_reason is latched
    begun,         \* history: sessions that ever began
    heard          \* history: per owner the number last put on the wire

published == <<outbox, sequence, sessions, settings, startup>>
vars == <<published, stored, expired, upsets, task, servicing, stage, fault, begun, heard>>

Stored == [outbox : SUBSET Record, sequence : Nat, startup : Settings \cup {Off}]

TypeOK ==
    /\ outbox \subseteq Record /\ sequence \in 0..MaxSequence
    /\ sessions \subseteq begun /\ begun \subseteq Session
    /\ settings \in Settings \cup {Off} /\ startup \in Settings \cup {Off}
    /\ stored \in Stored
    /\ expired \subseteq Number /\ upsets \in 0..MaxUpsets
    /\ task \in [Number -> Active \cup {None, Done}]
    /\ servicing \in {"idle", "prune"}
    /\ stage \in {"running", "draining", "closed"}
    /\ fault \in BOOLEAN
    /\ heard \in [Owner -> 0..MaxSequence]

Numbers(box) == {r.n : r \in box}

-----------------------------------------------------------------------------
(***************************************************************************)
(* Appending records                                                       *)
(***************************************************************************)

\* Owners of records a command queues: those of S in some order, less the
\* ones whose attributes do not fit.
Listings(S) ==
    UNION {{f \in [1..k -> S] : \A i, j \in 1..k : f[i] = f[j] => i = j} : k \in 0..Cardinality(S)}

\* Mutation: room is looked for once per command.
mutant_queue_accounting(box, top, owners, small, policy) ==
    {[n |-> top + i, owner |-> owners[i], settings |-> policy] :
        i \in {j \in small : policy # Off /\ Cardinality(box) < Limit}}

\* queue_accounting for several owners: each takes a number, and is dropped
\* all the same when the outbox is full.  It has bytes left for the records
\* at the places in small, and must have room for one more record as well.
queue_accounting(box, top, owners, small, policy) ==
    {[n |-> top + i, owner |-> owners[i], settings |-> policy] :
        i \in {j \in small : /\ policy # Off
                             /\ Cardinality(box) + Cardinality({h \in small : h <= j}) <= Limit}}

\* Numbers taken, whether or not the records found room.
Taken(k, policy) == IF policy = Off THEN 0 ELSE k

-----------------------------------------------------------------------------
(***************************************************************************)
(* Records that may be sent                                                *)
(***************************************************************************)

\* accounting_current: queued, not expired and under the settings in force.
accounting_current(n, box, policy) ==
    \E r \in box : r.n = n /\ r.n \notin expired /\ r.settings = policy

\* Mutation: On and Off records are ordinary records of one more session.
MutantHeads(box) == {r \in box : \A q \in box : q.owner = r.owner => r.n <= q.n}

\* service_accounting: the records before the first On or Off record, or that
\* record when it is the oldest; of these the first of every session.
Heads(box) ==
    LET lifecycle == {r \in box : r.owner = Nas}
        earlier == {r \in box : \A q \in lifecycle : r.n < q.n}
        records == IF earlier # {} THEN earlier
                   ELSE {r \in lifecycle : \A q \in lifecycle : r.n <= q.n}
    IN {r \in records : \A q \in records : q.owner = r.owner => r.n <= q.n}

\* The table of tasks without the finished ones.
Reaped == [n \in Number |-> IF task[n] = Done THEN None ELSE task[n]]

\* Mutation: only tasks whose record has expired are cancelled.
MutantCancelled(table, box, policy) ==
    [n \in Number |-> IF table[n] \in Active /\ n \in expired THEN Done ELSE table[n]]

\* _cancel_inactive_authentication: the task of a record that is not current
\* is cancelled, which ends it where it waits.
Cancelled(table, box, policy) ==
    [n \in Number |-> IF table[n] \in Active /\ ~accounting_current(n, box, policy)
                      THEN Done ELSE table[n]]

\* The heads that get a task, oldest first, while there is room.
Started(table, box, policy) ==
    LET startable == {r \in Heads(box) : table[r.n] = None /\ accounting_current(r.n, box, policy)}
        busy == {n \in Number : table[n] # None}
    IN {r \in startable : Cardinality({q \in startable : q.n < r.n}) + Cardinality(busy) < MaxTasks}

\* The table once they have it.
StartHeads(table, box, policy) ==
    [n \in Number |-> IF n \in Numbers(Started(table, box, policy))
                      THEN [phase |-> "begin", left |-> Tries] ELSE table[n]]

-----------------------------------------------------------------------------
(***************************************************************************)
(* Commands: applied to a copy, committed, then published                  *)
(***************************************************************************)

\* Engine._execute takes commands until a fault or close_authentication.
Serving == ~fault /\ stage # "closed"

Snapshot(box, top, boot) == [outbox |-> box, sequence |-> top, startup |-> boot]

\* The commit succeeds.
Publish(box, top, live, policy, boot) ==
    /\ outbox' = box
    /\ sequence' = top
    /\ sessions' = live
    /\ settings' = policy
    /\ startup' = boot
    /\ stored' = Snapshot(box, top, boot)
    /\ expired' = expired \cap Numbers(box)
    /\ UNCHANGED fault

\* The outcome is unknown, or the rollback failed: nothing is published, the
\* fault is latched and every task is cancelled.
Uncertain(box, top, boot) ==
    /\ fault' = TRUE
    /\ stored' \in {stored, Snapshot(box, top, boot)}
    /\ task' = [n \in Number |-> IF task[n] \in Active THEN Done ELSE task[n]]
    /\ UNCHANGED <<published, expired>>

\* A command of the API, of SNMP or of an authentication task.  A rollback
\* leaves everything as it was.
Command(box, top, live, policy, boot) ==
    /\ Serving
    /\ top <= MaxSequence
    /\ \/ /\ Publish(box, top, live, policy, boot)
          /\ task' = Cancelled(task, box, policy)
       \/ Uncertain(box, top, boot)
    /\ UNCHANGED <<upsets, servicing, stage, heard>>

\* One record for some of the sessions S, which may not fit in a packet.
Append(S, live) ==
    \E k \in 0..1 : \E owners \in [1..k -> S], small \in SUBSET (1..k) :
        LET more == queue_accounting(outbox, sequence, owners, small, settings)
        IN Command(outbox \cup more, sequence + Taken(k, settings), live, settings, startup)

\* radius-result grants a session: Start.  Authentication tasks still run
\* while the outbox is drained at shutdown.
Authorize(s) ==
    /\ s \notin begun
    /\ begun' = begun \cup {s}
    /\ Append({s}, sessions \cup {s})

\* end_session: Stop.  The SNMP adapter serves until the drain is over.
EndSession(s) ==
    /\ s \in sessions
    /\ Append({s}, sessions \ {s})
    /\ UNCHANGED begun

\* accounting_tick: Interim.
Interim(s) ==
    /\ stage = "running" /\ s \in sessions
    /\ Append({s}, sessions)
    /\ UNCHANGED begun

\* Mutation: the records of the old settings stay queued.
MutantKept(policy) == outbox

\* reconcile_accounting: other settings cancel what is queued.
Kept(policy) == IF policy = settings THEN outbox ELSE {}

\* Settings or targets are edited: each live session starts a new record.
Edit(policy) ==
    /\ stage = "running" /\ policy # settings
    /\ \E owners \in Listings(sessions) : \E small \in SUBSET DOMAIN owners :
          LET k == Cardinality(DOMAIN owners)
              box == Kept(policy)
              more == queue_accounting(box, sequence, owners, small, policy)
          IN Command(box \cup more, sequence + Taken(k, policy), sessions, policy, startup)
    /\ UNCHANGED begun

\* save-startup.
Save ==
    /\ stage = "running" /\ startup # settings
    /\ Command(outbox, sequence, sessions, settings, settings)
    /\ UNCHANGED begun

\* An On or Off record, where the outbox has bytes left for it.
Lifecycle(box, top, small, policy) ==
    queue_accounting(box, top, [i \in 1..1 |-> Nas], small, policy)

\* Stop for every session, then an Off record, or none where off is empty.
Ended(owners, small, off) ==
    LET stops == queue_accounting(outbox, sequence, owners, small, settings)
        top == sequence + Taken(Cardinality(DOMAIN owners), settings)
    IN outbox \cup stops \cup Lifecycle(outbox \cup stops, top, off, settings)

\* import: the sessions end, the switch stays up.
Import ==
    /\ stage = "running"
    /\ \E owners \in Listings(sessions) : \E small \in SUBSET DOMAIN owners :
          LET k == Cardinality(DOMAIN owners)
          IN Command(Ended(owners, small, {}), sequence + Taken(k, settings), {}, settings, startup)
    /\ UNCHANGED begun

\* reboot: Stop and Off under the old settings, then the startup settings,
\* which cancel all of that when they differ, and On.
Reboot ==
    /\ stage = "running"
    /\ \E owners \in Listings(sessions) :
       \E small \in SUBSET DOMAIN owners, off, on \in SUBSET (1..1) :
          LET k == Cardinality(DOMAIN owners)
              box == IF startup = settings THEN Ended(owners, small, off) ELSE {}
              top == sequence + Taken(k + 1, settings)
          IN Command(box \cup Lifecycle(box, top, on, startup), top + Taken(1, startup), {}, startup, startup)
    /\ UNCHANGED begun

-----------------------------------------------------------------------------
(***************************************************************************)
(* Deliveries                                                              *)
(***************************************************************************)

\* A delivery finds that its record is not current any more: it ends without
\* a result.
Abandon(n) ==
    /\ task[n] \in Active
    /\ ~Serving \/ ~accounting_current(n, outbox, settings)
    /\ task' = [task EXCEPT ![n] = Done]
    /\ UNCHANGED <<published, stored, expired, upsets, servicing, stage, fault, begun, heard>>

\* An event or the result cannot be committed: the delivery ends, and the
\* record is delivered again although a collector may have it.
RolledBack(n) ==
    /\ task[n] \in Active /\ upsets < MaxUpsets
    /\ upsets' = upsets + 1
    /\ task' = [task EXCEPT ![n] = Done]
    /\ UNCHANGED <<published, stored, expired, servicing, stage, fault, begun, heard>>

\* After an attempt failed, with k left.
Again(k) == IF k > 0 THEN [phase |-> "begin", left |-> k] ELSE Over

\* No socket for the target, or it cannot be reached: its attempts are lost.
Unreachable(n) ==
    /\ task[n].phase = "begin" /\ Serving
    /\ \E k \in 0..task[n].left - 1 : task' = [task EXCEPT ![n] = Again(k)]
    /\ UNCHANGED <<published, stored, expired, upsets, servicing, stage, fault, begun, heard>>

\* The attempt is committed, the record checked again and the datagram sent,
\* with no await between the last two.
Attempt(n) ==
    /\ task[n].phase = "begin" /\ Serving
    /\ accounting_current(n, outbox, settings)
    /\ \/ /\ Publish(outbox, sequence, sessions, settings, startup)
          /\ task' = [Cancelled(task, outbox, settings) EXCEPT
                         ![n] = [phase |-> "sent", left |-> task[n].left - 1]]
          /\ \E r \in outbox : r.n = n /\ heard' = [heard EXCEPT ![r.owner] = n]
       \/ Uncertain(outbox, sequence, startup) /\ UNCHANGED heard
    /\ UNCHANGED <<upsets, servicing, stage, begun>>

\* A verified answer arrives while the record is current.
Answer(n) ==
    /\ task[n].phase = "sent" /\ accounting_current(n, outbox, settings) /\ Serving
    /\ task' = [task EXCEPT ![n] = Over]
    /\ UNCHANGED <<published, stored, expired, upsets, servicing, stage, fault, begun, heard>>

\* No answer in time: another attempt, or the delivery failed.
Silence(n) ==
    /\ task[n].phase = "sent" /\ Serving
    /\ task' = [task EXCEPT ![n] = Again(task[n].left)]
    /\ UNCHANGED <<published, stored, expired, upsets, servicing, stage, fault, begun, heard>>

Without(n) == {r \in outbox : r.n # n}

\* accounting-result: delivered or exhausted, the record leaves the outbox.
Result(n) ==
    /\ task[n] = Over /\ Serving
    /\ accounting_current(n, outbox, settings)
    /\ \/ /\ Publish(Without(n), sequence, sessions, settings, startup)
          /\ task' = [Cancelled(task, Without(n), settings) EXCEPT ![n] = Done]
       \/ Uncertain(Without(n), sequence, startup)
    /\ UNCHANGED <<upsets, servicing, stage, begun, heard>>

-----------------------------------------------------------------------------
(***************************************************************************)
(* The background loop                                                     *)
(***************************************************************************)

\* service_accounting up to its first await: finished tasks are reaped and
\* stale ones cancelled; then heads are started, after a prune if need be.
Service ==
    /\ servicing = "idle" /\ stage # "closed"
    /\ LET table == IF fault THEN [n \in Number |-> IF Reaped[n] \in Active THEN Done ELSE Reaped[n]]
                    ELSE Cancelled(Reaped, outbox, settings)
           prune == expired \cap Numbers(outbox) # {}
       IN /\ servicing' = IF ~fault /\ prune THEN "prune" ELSE "idle"
          /\ task' = IF fault \/ prune THEN table ELSE StartHeads(table, outbox, settings)
    /\ UNCHANGED <<published, stored, expired, upsets, stage, fault, begun, heard>>

\* Mutation: the check of the wall clock is missing where records are dropped.
MutantUnexpired == outbox

Unexpired == {r \in outbox : r.n \notin expired}

\* accounting-prune, and the heads that are left are started.
Prune ==
    /\ servicing = "prune" /\ Serving
    /\ LET table == Cancelled(task, Unexpired, settings)
       IN \/ /\ Publish(Unexpired, sequence, sessions, settings, startup)
             /\ task' = StartHeads(table, Unexpired, settings)
          \/ Uncertain(Unexpired, sequence, startup)
    /\ servicing' = "idle"
    /\ UNCHANGED <<upsets, stage, begun, heard>>

\* The prune is rolled back or refused: the pass ends, the loop goes on.
PruneFails ==
    /\ servicing = "prune"
    /\ IF fault THEN UNCHANGED upsets ELSE upsets < MaxUpsets /\ upsets' = upsets + 1
    /\ servicing' = "idle"
    /\ UNCHANGED <<published, stored, expired, task, stage, fault, begun, heard>>

\* Real time passes, the wall clock is set: records expire, or are no longer
\* before their generation.  Nobody looks when nothing is served.
ClockChanges ==
    /\ Serving /\ upsets < MaxUpsets
    /\ upsets' = upsets + 1
    /\ \E S \in SUBSET Numbers(outbox) : S # expired /\ expired' = S
    /\ UNCHANGED <<published, stored, task, servicing, stage, fault, begun, heard>>

-----------------------------------------------------------------------------
(***************************************************************************)
(* Shutdown and restart                                                    *)
(***************************************************************************)

\* close_accounting: the background loop is gone, radius-shutdown queues Stop
\* and Off records, and the outbox is drained for a while; when the commit
\* fails the rest of the shutdown is skipped.
Shutdown ==
    /\ stage = "running" /\ ~fault
    /\ \E owners \in Listings(sessions) : \E small \in SUBSET DOMAIN owners, off \in SUBSET (1..1) :
          LET k == Cardinality(DOMAIN owners)
              box == Ended(owners, small, off)
              top == sequence + Taken(k + 1, settings)
          IN /\ top <= MaxSequence
             /\ \/ /\ Publish(box, top, {}, settings, startup)
                   /\ task' = Cancelled(task, box, settings)
                   /\ stage' = "draining"
                \/ Uncertain(box, top, startup) /\ stage' = "closed"
    /\ servicing' = "idle"
    /\ UNCHANGED <<upsets, begun, heard>>

\* The drain ends, or a step of the shutdown raised and the rest is skipped.
Stop ==
    /\ stage # "closed"
    /\ stage' = "closed"
    /\ servicing' = "idle"
    /\ task' = [n \in Number |-> None]
    /\ UNCHANGED <<published, stored, expired, upsets, fault, begun, heard>>

\* Engine.__init__: records of other settings are dropped.
Restored == {r \in stored.outbox : r.settings = stored.startup}

\* The process starts again, after a crash at any moment: records of other
\* settings are dropped, sessions are gone, and On is queued.  Without the
\* kernel's boot the records are expired.  A longer outbox is refused, and so
\* may be any whose JSON the loader finds longer than 8 MiB: no process runs.
Restart ==
    /\ Cardinality(stored.outbox) <= Limit
    /\ \E on \in SUBSET (1..1) :
       LET box == Restored \cup Lifecycle(Restored, stored.sequence, on, stored.startup)
           top == stored.sequence + Taken(1, stored.startup)
       IN /\ top <= MaxSequence
          /\ outbox' = box
          /\ sequence' = top
          /\ stored' = Snapshot(box, top, stored.startup)
          /\ expired' \in {expired \cap Numbers(box), Numbers(Restored)}
    /\ settings' = stored.startup
    /\ startup' = stored.startup
    /\ sessions' = {}
    /\ task' = [n \in Number |-> None]
    /\ servicing' = "idle"
    /\ stage' = "running"
    /\ fault' = FALSE
    /\ UNCHANGED <<upsets, begun, heard>>

-----------------------------------------------------------------------------

Init ==
    /\ outbox = {} /\ sequence = 0
    /\ sessions = {} /\ begun = {}
    /\ settings = Off /\ startup = Off
    /\ stored = Snapshot({}, 0, Off)
    /\ expired = {} /\ upsets = 0
    /\ task = [n \in Number |-> None]
    /\ servicing = "idle" /\ stage = "running" /\ fault = FALSE
    /\ heard = [o \in Owner |-> 0]

Deliver(n) ==
    Abandon(n) \/ Unreachable(n) \/ Attempt(n) \/ Answer(n) \/ Silence(n) \/ Result(n)

Next ==
    \/ \E s \in Session : Authorize(s) \/ EndSession(s) \/ Interim(s)
    \/ \E policy \in Settings \cup {Off} : Edit(policy)
    \/ Save \/ Import \/ Reboot
    \/ \E n \in Number : Deliver(n) \/ RolledBack(n)
    \/ Service \/ Prune \/ PruneFails \/ ClockChanges
    \/ Shutdown \/ Stop \/ Restart

Spec == Init /\ [][Next]_vars

\* The event loop runs every task and the background loop, and a datagram's
\* wait is bounded by the response timeout.  Nothing else is promised: no
\* collector has to answer.
FairSpec ==
    /\ Spec
    /\ WF_vars(Service) /\ WF_vars(Prune)
    /\ \A n \in Number : WF_vars(Deliver(n))

-----------------------------------------------------------------------------
(***************************************************************************)
(* Properties                                                              *)
(***************************************************************************)

Queue == INSTANCE AccountingQueue
           WITH queue <- {[n |-> r.n, owner |-> r.owner] : r \in outbox},
                top <- sequence,
                last <- heard

\* Refinement: whatever is retried, dropped, cancelled, pruned or lost in a
\* crash, service_accounting and accounting_delivery put on the wire only the
\* oldest record of a session, and no record crosses an On or Off record.
ImplementsQueue == Queue!QueueSpec

\* The same, read off the wire: whatever waits is no older than the last
\* record its session sent, and nothing was sent on the wrong side of an On or
\* Off record.
WireOrder == Queue!SessionsInOrder /\ Queue!BarriersHold

\* Two deliveries never overlap for one session, and a delivery of an On or
\* Off record is alone: each answers for a record that is still queued.
DeliveriesExclusive ==
    /\ \A n \in Number : task[n] \in Active => n \in Numbers(outbox)
    /\ \A q, r \in outbox :
          task[q.n] \in Active /\ task[r.n] \in Active /\ q # r =>
              q.owner # r.owner /\ Nas \notin {q.owner, r.owner}

\* A record captured under one secret and set of targets is never queued once
\* others are in force, not after an edit, a reboot or a restart whose startup
\* configuration differs (reconcile_accounting, Engine.__init__).
QueuedForSettings == \A r \in outbox : r.settings = settings

\* However many records one command queues (queue_accounting), there are never
\* more of them than the limit, neither published nor stored: the count that
\* Engine.__init__ repeats never refuses a store this program wrote.  Nothing
\* is said of the bytes, of which the two places have different measures.
RecordsBounded == Cardinality(outbox) <= Limit /\ Cardinality(stored.outbox) <= Limit

\* There are never more delivery tasks than slots, the finished ones that
\* service_accounting has not reaped included.
TasksBounded == Cardinality({n \in Number : task[n] # None}) <= MaxTasks

\* The counts of the records and of their deliveries keep their limits.
WithinLimits == RecordsBounded /\ TasksBounded

\* Every queued record is delivered, exhausted, expired or cancelled, or the
\* process stops: no record blocks the ones behind it for ever.
RecordsEnd ==
    \A n \in Number :
        n \in Numbers(outbox) ~> (n \notin Numbers(outbox) \/ fault \/ stage = "closed")

=============================================================================
