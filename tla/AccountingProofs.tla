-------------------------- MODULE AccountingProofs --------------------------
(***************************************************************************)
(* Accounting implements AccountingQueue, for every number of sessions,    *)
(* settings, slots and attempts.                                           *)
(*                                                                         *)
(* A step of the refinement is either the transmission of an eligible      *)
(* record or a change of the queue that only adds greater numbers.  That   *)
(* the record an Attempt sends is eligible at that moment, though          *)
(* service_accounting chose it long before, needs the inductive invariant: *)
(* numbers identify records and grow, what a crash may bring back from the *)
(* store is queued or newer than anything queued, and every active task is *)
(* for a record that is still ready to be sent.                            *)
(***************************************************************************)
EXTENDS Accounting, FiniteSetTheorems, TLAPS

\* Numbers identify records.
Unique(box) == \A q, r \in box : q.n = r.n => q = r

\* Everything that must precede r has left the queue.
Ready(r, box) ==
    \A q \in box : q.n < r.n => q.owner # r.owner /\ q.owner # Nas /\ r.owner # Nas

\* Active tasks are for queued records that are ready.
TasksReady(table, box) ==
    /\ \A n \in Number : table[n] \in Active => n \in Numbers(box)
    /\ \A r \in box : table[r.n] \in Active => Ready(r, box)

\* A queue that may follow the present one.
Grows(box, top) ==
    /\ box \subseteq Record
    /\ top \in 0..MaxSequence /\ sequence <= top
    /\ Unique(box)
    /\ \A r \in box : r \in outbox \/ (sequence < r.n /\ r.n <= top)

Numbered == Unique(outbox) /\ \A r \in outbox : r.n <= sequence

StoreFollows ==
    /\ Grows(stored.outbox, stored.sequence)
    /\ ~fault => stored = Snapshot(outbox, sequence, startup)

IInv == TypeOK /\ Numbered /\ StoreFollows /\ TasksReady(task, outbox) /\ QueuedForSettings

-----------------------------------------------------------------------------
(***************************************************************************)
(* Operators                                                               *)
(***************************************************************************)

\* What queue_accounting appends: increasing new numbers under the policy.
LEMMA QueuedRecords ==
    ASSUME NEW box, NEW top \in Nat, NEW k \in Nat, NEW owners \in [1..k -> Owner], NEW small \in SUBSET (1..k),
           NEW policy \in Settings \cup {Off},
           NEW r \in queue_accounting(box, top, owners, small, policy),
           top + Taken(k, policy) <= MaxSequence
    PROVE  /\ policy # Off
           /\ r \in Record /\ r.settings = policy
           /\ \E i \in 1..k : r = [n |-> top + i, owner |-> owners[i], settings |-> policy]
           /\ top < r.n /\ r.n <= top + Taken(k, policy)
<1>1. PICK i \in 1..k : /\ r = [n |-> top + i, owner |-> owners[i], settings |-> policy]
                        /\ policy # Off
  BY DEF queue_accounting
<1>2. Taken(k, policy) = k
  BY <1>1 DEF Taken
<1>3. r.n = top + i /\ r.owner = owners[i] /\ r.settings = policy /\ owners[i] \in Owner
  BY <1>1
<1>4. MaxSequence \in Nat
  BY AccountingAssumption
<1>5. top + i \in Number /\ policy \in Settings
  BY <1>1, <1>2, <1>4 DEF Number
<1>6. r \in Record
  BY <1>1, <1>3, <1>5 DEF Record
<1> QED BY <1>1, <1>2, <1>3, <1>6

\* Appending to a queue that may follow gives one that may follow.
LEMMA GrowMore ==
    ASSUME TypeOK, NEW box, NEW top, Grows(box, top),
           \A r \in box : r.n <= top,
           NEW k \in Nat, NEW owners \in [1..k -> Owner], NEW small \in SUBSET (1..k),
           NEW policy \in Settings \cup {Off},
           NEW room, top + Taken(k, policy) <= MaxSequence
    PROVE  LET more == queue_accounting(room, top, owners, small, policy)
           IN /\ Grows(box \cup more, top + Taken(k, policy))
              /\ \A r \in more : r.settings = policy
              /\ \A r \in box \cup more : r.n <= top + Taken(k, policy)
<1> DEFINE more == queue_accounting(room, top, owners, small, policy)
           next == top + Taken(k, policy)
<1>1. top \in Nat /\ MaxSequence \in Nat /\ sequence \in Nat /\ sequence <= top /\ box \subseteq Record
  BY AccountingAssumption DEF Grows, TypeOK
<1>2. Taken(k, policy) \in Nat
  BY DEF Taken
<1>3. \A r \in more : /\ r \in Record /\ r.settings = policy /\ top < r.n /\ r.n <= next
                      /\ \E i \in 1..k : r = [n |-> top + i, owner |-> owners[i], settings |-> policy]
  BY <1>1, QueuedRecords
<1>4. \A q, r \in more : q.n = r.n => q = r
  <2> SUFFICES ASSUME NEW q \in more, NEW r \in more, q.n = r.n PROVE q = r
    OBVIOUS
  <2>1. PICK i \in 1..k : q = [n |-> top + i, owner |-> owners[i], settings |-> policy]
    BY <1>3
  <2>2. PICK j \in 1..k : r = [n |-> top + j, owner |-> owners[j], settings |-> policy]
    BY <1>3
  <2>3. top + i = top + j
    BY <2>1, <2>2
  <2>4. i = j
    BY <2>3, <1>1
  <2> QED BY <2>1, <2>2, <2>4
<1>5. \A r \in box : r.n \in Nat
  BY <1>1 DEF Record, Number
<1>6. \A r \in more : r.n \in Nat
  BY <1>3 DEF Record, Number
<1>7. Unique(box \cup more)
  BY <1>1, <1>3, <1>4, <1>5, <1>6 DEF Unique, Grows
<1>8. Grows(box \cup more, next)
  BY <1>1, <1>2, <1>3, <1>5, <1>6, <1>7 DEF Grows
<1>9. \A r \in box \cup more : r.n <= next
  BY <1>1, <1>2, <1>3, <1>5, <1>6
<1> QED BY <1>3, <1>8, <1>9

\* The queue as it is, and any part of it, may follow.
LEMMA GrowNothing ==
    ASSUME IInv, NEW box \in SUBSET outbox
    PROVE  Grows(box, sequence) /\ \A r \in box : r.n <= sequence
BY DEF IInv, TypeOK, Numbered, Grows, Unique

\* A listing names its owners at 1..k.
LEMMA ListingShape ==
    ASSUME TypeOK, NEW owners \in Listings(sessions)
    PROVE  /\ Cardinality(DOMAIN owners) \in Nat
           /\ owners \in [1..Cardinality(DOMAIN owners) -> Owner]
           /\ DOMAIN owners = 1..Cardinality(DOMAIN owners)
<1>1. PICK k \in 0..Cardinality(sessions) : owners \in [1..k -> sessions]
  BY DEF Listings
<1>2. k \in Nat /\ DOMAIN owners = 1..k
  BY <1>1
<1>3. Cardinality(1..k) = k
  BY <1>2, FS_Interval
<1>4. sessions \subseteq Owner
  BY DEF TypeOK, Owner
<1>5. owners \in [1..k -> Owner]
  BY <1>1, <1>4
<1> QED BY <1>2, <1>3, <1>5

\* Cancelling leaves tasks only for queued records, which stay ready: what
\* joined the queue is newer.
LEMMA CancelledReady ==
    ASSUME IInv, NEW box, NEW top, Grows(box, top), NEW policy,
           NEW table \in [Number -> Active \cup {None, Done}],
           \A n \in Number : table[n] \in Active => task[n] \in Active
    PROVE  /\ TasksReady(Cancelled(table, box, policy), box)
           /\ Cancelled(table, box, policy) \in [Number -> Active \cup {None, Done}]
           /\ \A n \in Number : Cancelled(table, box, policy)[n] \in Active => task[n] \in Active
<1> DEFINE after == Cancelled(table, box, policy)
<1>0. Done \notin Active
  BY DEF Done, Active, Over
<1>1. \A n \in Number : after[n] \in Active => table[n] \in Active /\ accounting_current(n, box, policy)
  BY <1>0 DEF Cancelled
<1>2. \A n \in Number : after[n] \in Active => task[n] \in Active /\ n \in Numbers(box)
  BY <1>1 DEF accounting_current, Numbers
<1>3. ASSUME NEW r \in box, after[r.n] \in Active PROVE Ready(r, box)
  <2>1. r.n \in Number /\ sequence \in Nat
    BY DEF Grows, Record, IInv, TypeOK
  <2>2. task[r.n] \in Active
    BY <1>2, <1>3, <2>1
  <2>3. PICK o \in outbox : o.n = r.n
    BY <2>1, <2>2 DEF IInv, TasksReady, Numbers
  <2>4. r.n <= sequence
    BY <2>3 DEF IInv, Numbered
  <2>5. r \in outbox
    BY <2>1, <2>4 DEF Grows, Number
  <2>6. Ready(r, outbox)
    BY <2>2, <2>5 DEF IInv, TasksReady
  <2>7. ASSUME NEW q \in box, q.n < r.n PROVE q \in outbox
    <3>1. q.n \in Nat /\ r.n \in Nat
      BY <2>1 DEF Grows, Record, Number
    <3> QED BY <3>1, <2>1, <2>4, <2>7 DEF Grows
  <2> QED BY <2>6, <2>7 DEF Ready
<1>4. after \in [Number -> Active \cup {None, Done}]
  BY DEF Cancelled
<1> QED BY <1>2, <1>3, <1>4 DEF TasksReady

\* The heads of service_accounting are ready to be sent.
LEMMA HeadsReady ==
    ASSUME NEW box \in SUBSET Record, NEW r \in Heads(box)
    PROVE  r \in box /\ Ready(r, box)
<1>0. \A q \in box : q.n \in Nat
  BY DEF Record, Number
<1> DEFINE lifecycle == {q \in box : q.owner = Nas}
           earlier == {q \in box : \A l \in lifecycle : q.n < l.n}
<1>1. CASE earlier # {}
  <2>1. r \in earlier /\ \A q \in earlier : q.owner = r.owner => r.n <= q.n
    BY <1>1 DEF Heads
  <2>2. ASSUME NEW q \in box, q.n < r.n PROVE q \in earlier
    BY <2>1, <2>2, <1>0
  <2> QED BY <1>0, <2>1, <2>2 DEF Ready
<1>2. CASE earlier = {}
  <2>1. r \in lifecycle /\ \A l \in lifecycle : r.n <= l.n
    BY <1>2 DEF Heads
  <2>2. ASSUME NEW q \in box, q.n < r.n PROVE FALSE
    <3>1. PICK l \in lifecycle : ~(q.n < l.n)
      BY <1>2
    <3> QED BY <3>1, <2>1, <2>2, <1>0
  <2> QED BY <2>1, <2>2 DEF Ready
<1> QED BY <1>1, <1>2

\* Starting heads keeps every active task ready.
LEMMA StartReady ==
    ASSUME NEW box \in SUBSET Record, Unique(box), NEW policy,
           NEW table \in [Number -> Active \cup {None, Done}], TasksReady(table, box)
    PROVE  /\ TasksReady(StartHeads(table, box, policy), box)
           /\ StartHeads(table, box, policy) \in [Number -> Active \cup {None, Done}]
<1> DEFINE after == StartHeads(table, box, policy)
           started == Started(table, box, policy)
<1>0. Tries \in Nat \ {0}
  BY AccountingAssumption
<1>1. [phase |-> "begin", left |-> Tries] \in Active
  BY <1>0 DEF Active
<1>2. after \in [Number -> Active \cup {None, Done}]
  BY <1>1 DEF StartHeads
<1>3. started \subseteq Heads(box)
  BY DEF Started
<1>4. ASSUME NEW r \in box, r.n \in Numbers(started) PROVE Ready(r, box)
  <2>1. PICK h \in started : h.n = r.n
    BY <1>4 DEF Numbers
  <2>2. h \in box /\ Ready(h, box)
    BY <1>3, HeadsReady
  <2>3. h = r
    BY <2>1, <2>2 DEF Unique
  <2> QED BY <2>2, <2>3
<1>5. ASSUME NEW n \in Number, after[n] \in Active PROVE n \in Numbers(box)
  <2>1. CASE n \in Numbers(started)
    BY <2>1, <1>3, HeadsReady DEF Numbers
  <2>2. CASE n \notin Numbers(started)
    BY <2>2, <1>5 DEF StartHeads, TasksReady
  <2> QED BY <2>1, <2>2
<1>6. ASSUME NEW r \in box, after[r.n] \in Active PROVE Ready(r, box)
  <2>1. CASE r.n \in Numbers(started)
    BY <2>1, <1>4
  <2>2. CASE r.n \notin Numbers(started)
    <3>1. r.n \in Number
      BY DEF Record
    <3> QED BY <2>2, <1>6, <3>1 DEF StartHeads, TasksReady
  <2> QED BY <2>1, <2>2
<1> QED BY <1>2, <1>5, <1>6 DEF TasksReady

-----------------------------------------------------------------------------
(***************************************************************************)
(* Steps                                                                   *)
(***************************************************************************)

Policies == Settings \cup {Off}
Tables == [Number -> Active \cup {None, Done}]

\* The part of TypeOK that the outbox has nothing to do with.
Around ==
    /\ begun \subseteq Session
    /\ upsets \in 0..MaxUpsets
    /\ servicing \in {"idle", "prune"}
    /\ stage \in {"running", "draining", "closed"}
    /\ heard \in [Owner -> 0..MaxSequence]

\* A step of the queue's specification, in terms of the outbox.
Moves ==
    \/ Grows(outbox', sequence') /\ heard' = heard
    \/ /\ UNCHANGED <<outbox, sequence>>
       /\ \E r \in outbox : Ready(r, outbox) /\ heard' = [heard EXCEPT ![r.owner] = r.n]

\* Nothing about the queue changes.
LEMMA QuietKeeps ==
    ASSUME IInv, UNCHANGED <<published, stored, fault>>, Around', begun \subseteq begun',
           expired' \subseteq Number, task' \in Tables, TasksReady(task', outbox)
    PROVE  IInv' /\ Grows(outbox', sequence')
<1>1. /\ outbox' = outbox /\ sequence' = sequence /\ sessions' = sessions
      /\ settings' = settings /\ startup' = startup /\ stored' = stored /\ fault' = fault
  BY DEF published
<1>2. TypeOK'
  BY <1>1 DEF IInv, TypeOK, Around, Tables
<1>3. Numbered' /\ StoreFollows' /\ QueuedForSettings'
  BY <1>1 DEF IInv, Numbered, StoreFollows, QueuedForSettings, Grows
<1>4. TasksReady(task, outbox)'
  BY <1>1 DEF TasksReady
<1>5. Grows(outbox', sequence')
  BY <1>1, GrowNothing
<1> QED BY <1>2, <1>3, <1>4, <1>5 DEF IInv

\* A command that is committed and published.
LEMMA PublishKeeps ==
    ASSUME IInv, ~fault, NEW box, NEW top, NEW live, NEW policy \in Policies, NEW boot \in Policies,
           Publish(box, top, live, policy, boot), live \subseteq begun', Around',
           Grows(box, top), \A r \in box : r.n <= top, \A r \in box : r.settings = policy,
           task' \in Tables, TasksReady(task', box)
    PROVE  IInv' /\ Grows(outbox', sequence')
<1>1. /\ outbox' = box /\ sequence' = top /\ sessions' = live
      /\ settings' = policy /\ startup' = boot /\ fault' = fault
      /\ stored' = [outbox |-> box, sequence |-> top, startup |-> boot]
      /\ expired' \subseteq expired
  BY DEF Publish, Snapshot
<1>2. box \in SUBSET Record /\ top \in 0..MaxSequence /\ top \in Nat
  BY DEF Grows
<1>3. stored' \in Stored
  BY <1>1, <1>2 DEF Stored, Policies
<1>4. TypeOK'
  BY <1>1, <1>2, <1>3 DEF IInv, TypeOK, Around, Tables, Policies
<1>5. Numbered'
  BY <1>1 DEF Numbered, Grows
<1>6. StoreFollows'
  BY <1>1, <1>2 DEF StoreFollows, Grows, Snapshot
<1>7. TasksReady(task, outbox)' /\ QueuedForSettings'
  BY <1>1 DEF TasksReady, QueuedForSettings
<1> QED BY <1>1, <1>4, <1>5, <1>6, <1>7 DEF IInv

\* A command whose outcome is unknown.
LEMMA UncertainKeeps ==
    ASSUME IInv, ~fault, NEW box, NEW top, NEW boot \in Policies,
           Uncertain(box, top, boot), Around', begun \subseteq begun', Grows(box, top)
    PROVE  IInv' /\ Grows(outbox', sequence')
<1>1. /\ outbox' = outbox /\ sequence' = sequence /\ sessions' = sessions
      /\ settings' = settings /\ startup' = startup /\ expired' = expired /\ fault' = TRUE
      /\ stored' = stored \/ stored' = [outbox |-> box, sequence |-> top, startup |-> boot]
  BY DEF Uncertain, published, Snapshot
<1>2. box \in SUBSET Record /\ top \in 0..MaxSequence /\ top \in Nat
  BY DEF Grows
<1>3. stored' \in Stored
  BY <1>1, <1>2 DEF Stored, Policies, IInv, TypeOK
<1>4. /\ task' \in Tables
      /\ \A n \in Number : task'[n] \notin Active
  <2>1. Done \notin Active
    BY DEF Done, Active, Over
  <2> QED BY <2>1 DEF Uncertain, Tables, IInv, TypeOK
<1>5. TypeOK'
  BY <1>1, <1>3, <1>4 DEF IInv, TypeOK, Around, Tables
<1>6. Numbered' /\ QueuedForSettings'
  BY <1>1 DEF IInv, Numbered, QueuedForSettings
<1>7. Grows(stored'.outbox, stored'.sequence)
  BY <1>1 DEF IInv, StoreFollows
<1>8. StoreFollows'
  BY <1>1, <1>7 DEF StoreFollows, Grows
<1>9. TasksReady(task, outbox)'
  <2>1. \A r \in outbox : r.n \in Number
    BY DEF IInv, TypeOK, Record
  <2> QED BY <1>1, <1>4, <2>1 DEF TasksReady
<1>10. Grows(outbox', sequence')
  BY <1>1, GrowNothing
<1> QED BY <1>5, <1>6, <1>8, <1>9, <1>10 DEF IInv

\* A command of the API, of SNMP or of an authentication task.
LEMMA CommandKeeps ==
    ASSUME IInv, NEW box, NEW top, NEW live, NEW policy \in Policies, NEW boot \in Policies,
           Command(box, top, live, policy, boot), live \subseteq begun', begun \subseteq begun', begun' \subseteq Session,
           Grows(box, top), \A r \in box : r.n <= top, \A r \in box : r.settings = policy
    PROVE  IInv' /\ Moves
<1>1. Around' /\ heard' = heard /\ ~fault
  BY DEF Command, Around, IInv, TypeOK, Serving
<1>2. CASE Publish(box, top, live, policy, boot) /\ task' = Cancelled(task, box, policy)
  <2>1. task' \in Tables /\ TasksReady(task', box)
    BY <1>2, CancelledReady DEF IInv, TypeOK, Tables
  <2> QED BY <1>1, <1>2, <2>1, PublishKeeps DEF Moves
<1>3. CASE Uncertain(box, top, boot)
  BY <1>1, <1>3, UncertainKeeps DEF Moves
<1> QED BY <1>2, <1>3 DEF Command

\* Records that join the queue as it is.
LEMMA OutboxGrows ==
    ASSUME IInv, NEW k \in Nat, NEW owners \in [1..k -> Owner], NEW small \in SUBSET (1..k),
           sequence + Taken(k, settings) <= MaxSequence
    PROVE  LET box == outbox \cup queue_accounting(outbox, sequence, owners, small, settings)
               top == sequence + Taken(k, settings)
           IN /\ Grows(box, top)
              /\ \A r \in box : r.n <= top
              /\ \A r \in box : r.settings = settings
<1> DEFINE more == queue_accounting(outbox, sequence, owners, small, settings)
<1>1. TypeOK /\ settings \in Settings \cup {Off}
  BY DEF IInv, TypeOK
<1>2. Grows(outbox, sequence) /\ \A r \in outbox : r.n <= sequence
  BY GrowNothing
<1>3. /\ Grows(outbox \cup more, sequence + Taken(k, settings))
      /\ \A r \in more : r.settings = settings
      /\ \A r \in outbox \cup more : r.n <= sequence + Taken(k, settings)
  BY <1>1, <1>2, GrowMore
<1>4. \A r \in outbox : r.settings = settings
  BY DEF IInv, QueuedForSettings
<1> QED BY <1>3, <1>4

\* One record at most for a session.
LEMMA AppendKeeps ==
    ASSUME IInv, NEW s \in Session, NEW live, Append({s}, live),
           live \subseteq begun', begun \subseteq begun', begun' \subseteq Session
    PROVE  IInv' /\ Moves
<1>0. PICK k \in 0..1 : \E owners \in [1..k -> {s}], small \in SUBSET (1..k) :
        Command(outbox \cup queue_accounting(outbox, sequence, owners, small, settings),
                sequence + Taken(k, settings), live, settings, startup)
  BY DEF Append
<1>1. PICK owners \in [1..k -> {s}], small \in SUBSET (1..k) :
        Command(outbox \cup queue_accounting(outbox, sequence, owners, small, settings),
                sequence + Taken(k, settings), live, settings, startup)
  BY <1>0
<1>2. k \in Nat /\ owners \in [1..k -> Owner]
  BY DEF Owner
<1>3. sequence + Taken(k, settings) <= MaxSequence
  BY <1>1 DEF Command
<1>4. settings \in Policies /\ startup \in Policies
  BY DEF IInv, TypeOK, Policies
<1> DEFINE box == outbox \cup queue_accounting(outbox, sequence, owners, small, settings)
<1>5. /\ Grows(box, sequence + Taken(k, settings))
      /\ \A r \in box : r.n <= sequence + Taken(k, settings)
      /\ \A r \in box : r.settings = settings
  BY <1>2, <1>3, OutboxGrows
<1> QED BY <1>1, <1>4, <1>5, CommandKeeps

\* An On or Off record.
LEMMA LifecycleGrows ==
    ASSUME TypeOK, NEW box, NEW top \in Nat, Grows(box, top), \A r \in box : r.n <= top,
           NEW small \in SUBSET (1..1), NEW policy \in Policies, top + Taken(1, policy) <= MaxSequence
    PROVE  LET more == Lifecycle(box, top, small, policy)
           IN /\ Grows(box \cup more, top + Taken(1, policy))
              /\ \A r \in more : r.settings = policy
              /\ \A r \in box \cup more : r.n <= top + Taken(1, policy)
<1> DEFINE nas == [i \in 1..1 |-> Nas]
<1>1. nas \in [1..1 -> Owner] /\ policy \in Settings \cup {Off}
  BY DEF Owner, Policies
<1>2. Lifecycle(box, top, small, policy) = queue_accounting(box, top, nas, small, policy)
  BY DEF Lifecycle
<1> DEFINE more == queue_accounting(box, top, nas, small, policy)
<1> HIDE DEF nas
<1>3. /\ Grows(box \cup more, top + Taken(1, policy))
      /\ \A r \in more : r.settings = policy
      /\ \A r \in box \cup more : r.n <= top + Taken(1, policy)
  <2>1. 1 \in Nat
    OBVIOUS
  <2> QED BY <1>1, <2>1, GrowMore
<1> HIDE DEF more
<1> QED BY <1>2, <1>3 DEF more

\* Stop records, and an Off record where one is queued.
LEMMA EndedGrows ==
    ASSUME IInv, NEW owners \in Listings(sessions), NEW small \in SUBSET DOMAIN owners, NEW off \in SUBSET (1..1),
           NEW k, k = Cardinality(DOMAIN owners), NEW taken \in {k, k + 1}, taken = k => off = {},
           sequence + Taken(taken, settings) <= MaxSequence
    PROVE  LET top == sequence + Taken(taken, settings)
           IN /\ Grows(Ended(owners, small, off), top)
              /\ \A r \in Ended(owners, small, off) : r.n <= top
              /\ \A r \in Ended(owners, small, off) : r.settings = settings
<1>1. k \in Nat /\ owners \in [1..k -> Owner] /\ small \in SUBSET (1..k)
  BY ListingShape DEF IInv
<1>2. settings \in Policies /\ sequence \in Nat /\ MaxSequence \in Nat
  BY AccountingAssumption DEF IInv, TypeOK, Policies
<1> DEFINE stops == queue_accounting(outbox, sequence, owners, small, settings)
           top == sequence + Taken(k, settings)
           last == Lifecycle(outbox \cup stops, top, off, settings)
<1>3. top <= MaxSequence /\ top \in Nat
  BY <1>1, <1>2 DEF Taken
<1>4. /\ Grows(outbox \cup stops, top)
      /\ \A r \in outbox \cup stops : r.n <= top
      /\ \A r \in outbox \cup stops : r.settings = settings
  BY <1>1, <1>3, OutboxGrows
<1>5. TypeOK
  BY DEF IInv
<1>0. Ended(owners, small, off) = outbox \cup stops \cup last
  BY DEF Ended
<1>6. CASE taken = k
  <2>1. last = {}
    BY <1>6 DEF Lifecycle, queue_accounting
  <2> HIDE DEF stops, last
  <2> QED BY <1>0, <1>4, <1>6, <2>1
<1>7. CASE taken = k + 1
  <2>1. sequence + Taken(taken, settings) = top + Taken(1, settings)
    BY <1>1, <1>2, <1>7 DEF Taken
  <2>2. /\ Grows(outbox \cup stops \cup last, top + Taken(1, settings))
        /\ \A r \in last : r.settings = settings
        /\ \A r \in outbox \cup stops \cup last : r.n <= top + Taken(1, settings)
    <3> HIDE DEF stops, top
    <3> QED BY <1>2, <1>3, <1>4, <1>5, <2>1, LifecycleGrows
  <2> HIDE DEF stops, last
  <2> QED BY <1>0, <1>4, <2>1, <2>2
<1> QED BY <1>6, <1>7

\* Sessions begin, report and end.
LEMMA SessionsKeep ==
    ASSUME IInv, NEW s \in Session, Authorize(s) \/ EndSession(s) \/ Interim(s)
    PROVE  IInv' /\ Moves
<1>0. sessions \subseteq begun /\ begun \subseteq Session
  BY DEF IInv, TypeOK
<1>1. CASE Authorize(s)
  BY <1>0, <1>1, AppendKeeps DEF Authorize
<1>2. CASE EndSession(s)
  <2>1. Append({s}, sessions \ {s}) /\ begun' = begun
    BY <1>2 DEF EndSession
  <2> QED BY <1>0, <2>1, AppendKeeps
<1>3. CASE Interim(s)
  BY <1>0, <1>3, AppendKeeps DEF Interim
<1> QED BY <1>1, <1>2, <1>3

\* Other settings: what is queued goes, late Start records join.
LEMMA EditKeeps ==
    ASSUME IInv, NEW policy \in Policies, Edit(policy)
    PROVE  IInv' /\ Moves
<1>0. PICK owners \in Listings(sessions) : \E small \in SUBSET DOMAIN owners :
        LET k == Cardinality(DOMAIN owners)
            box == Kept(policy)
        IN Command(box \cup queue_accounting(box, sequence, owners, small, policy),
                   sequence + Taken(k, policy), sessions, policy, startup)
  BY DEF Edit
<1>1. PICK small \in SUBSET DOMAIN owners :
        LET k == Cardinality(DOMAIN owners)
            box == Kept(policy)
        IN Command(box \cup queue_accounting(box, sequence, owners, small, policy),
                   sequence + Taken(k, policy), sessions, policy, startup)
  BY <1>0
<1> DEFINE k == Cardinality(DOMAIN owners)
           box == Kept(policy)
           more == queue_accounting(box, sequence, owners, small, policy)
<1>2. Command(box \cup more, sequence + Taken(k, policy), sessions, policy, startup)
  BY <1>1
<1>3. k \in Nat /\ owners \in [1..k -> Owner] /\ small \in SUBSET (1..k)
  BY ListingShape DEF IInv
<1>4. box = {}
  BY DEF Edit, Kept
<1>5. Grows(box, sequence) /\ \A r \in box : r.n <= sequence
  BY <1>4, GrowNothing
<1>6. sequence + Taken(k, policy) <= MaxSequence
  BY <1>2 DEF Command
<1>7. TypeOK /\ startup \in Policies /\ begun' = begun /\ sessions \subseteq begun /\ begun \subseteq Session
  BY DEF IInv, TypeOK, Policies, Edit
<1>8. /\ Grows(box \cup more, sequence + Taken(k, policy))
      /\ \A r \in more : r.settings = policy
      /\ \A r \in box \cup more : r.n <= sequence + Taken(k, policy)
  <2> HIDE DEF k, box
  <2> QED BY <1>3, <1>5, <1>6, <1>7, GrowMore DEF Policies
<1>9. \A r \in box \cup more : r.settings = policy
  BY <1>4, <1>8
<1> HIDE DEF k, box, more
<1> QED BY <1>2, <1>7, <1>8, <1>9, CommandKeeps

\* The settings are saved.
LEMMA SaveKeeps == IInv /\ Save => IInv' /\ Moves
<1> SUFFICES ASSUME IInv, Save PROVE IInv' /\ Moves
  OBVIOUS
<1>1. Command(outbox, sequence, sessions, settings, settings)
  BY DEF Save
<1>2. settings \in Policies /\ begun' = begun /\ sessions \subseteq begun /\ begun \subseteq Session
  BY DEF IInv, TypeOK, Policies, Save
<1>3. Grows(outbox, sequence) /\ \A r \in outbox : r.n <= sequence
  BY GrowNothing
<1>4. \A r \in outbox : r.settings = settings
  BY DEF IInv, QueuedForSettings
<1> QED BY <1>1, <1>2, <1>3, <1>4, CommandKeeps

\* A configuration is imported.
LEMMA ImportKeeps == IInv /\ Import => IInv' /\ Moves
<1> SUFFICES ASSUME IInv, Import PROVE IInv' /\ Moves
  OBVIOUS
<1>0. PICK owners \in Listings(sessions) : \E small \in SUBSET DOMAIN owners :
        LET k == Cardinality(DOMAIN owners)
        IN Command(Ended(owners, small, {}), sequence + Taken(k, settings), {}, settings, startup)
  BY DEF Import
<1>1. PICK small \in SUBSET DOMAIN owners :
        LET k == Cardinality(DOMAIN owners)
        IN Command(Ended(owners, small, {}), sequence + Taken(k, settings), {}, settings, startup)
  BY <1>0
<1> DEFINE k == Cardinality(DOMAIN owners)
           box == Ended(owners, small, {})
           top == sequence + Taken(k, settings)
<1>2. Command(box, top, {}, settings, startup)
  BY <1>1
<1>3. settings \in Policies /\ startup \in Policies /\ begun' = begun /\ begun \subseteq Session
  BY DEF IInv, TypeOK, Policies, Import
<1>4. sequence + Taken(k, settings) <= MaxSequence
  BY <1>2 DEF Command
<1>5. Grows(box, top) /\ (\A r \in box : r.n <= top) /\ (\A r \in box : r.settings = settings)
  <2>1. {} \in SUBSET (1..1)
    OBVIOUS
  <2> QED BY <1>4, <2>1, EndedGrows
<1>6. {} \subseteq begun' /\ begun \subseteq begun' /\ begun' \subseteq Session
  BY <1>3
<1> HIDE DEF box, top
<1> QED BY <1>2, <1>3, <1>5, <1>6, CommandKeeps

\* Stop and Off, which other startup settings cancel, and On.
LEMMA RebootKeeps == IInv /\ Reboot => IInv' /\ Moves
<1> SUFFICES ASSUME IInv, Reboot PROVE IInv' /\ Moves
  OBVIOUS
<1> DEFINE k(owners) == Cardinality(DOMAIN owners)
           kept(owners, small, off) == IF startup = settings THEN Ended(owners, small, off) ELSE {}
           top(owners) == sequence + Taken(k(owners) + 1, settings)
<1>1. PICK owners \in Listings(sessions) :
        \E small \in SUBSET DOMAIN owners, off, on \in SUBSET (1..1) :
           Command(kept(owners, small, off) \cup Lifecycle(kept(owners, small, off), top(owners), on, startup),
                   top(owners) + Taken(1, startup), {}, startup, startup)
  BY DEF Reboot
<1>a. PICK small \in SUBSET DOMAIN owners, off \in SUBSET (1..1), on \in SUBSET (1..1) :
        Command(kept(owners, small, off) \cup Lifecycle(kept(owners, small, off), top(owners), on, startup),
                top(owners) + Taken(1, startup), {}, startup, startup)
  BY <1>1
<1> DEFINE box == kept(owners, small, off)
           more == Lifecycle(box, top(owners), on, startup)
<1>b. Command(box \cup more, top(owners) + Taken(1, startup), {}, startup, startup)
  BY <1>a
<1>2. TypeOK /\ settings \in Policies /\ startup \in Policies /\ begun' = begun /\ begun \subseteq Session
  BY DEF IInv, TypeOK, Policies, Reboot
<1>3. k(owners) \in Nat /\ sequence \in Nat /\ MaxSequence \in Nat
  BY <1>2, ListingShape, AccountingAssumption DEF TypeOK
<1>4. top(owners) + Taken(1, startup) <= MaxSequence
  BY <1>b DEF Command
<1>5. top(owners) \in Nat /\ sequence <= top(owners) /\ top(owners) <= MaxSequence
  BY <1>3, <1>4 DEF Taken
<1>6. /\ Grows(box, top(owners))
      /\ \A r \in box : r.n <= top(owners)
      /\ \A r \in box : r.settings = startup
  <2>1. CASE startup = settings
    <3>1. k(owners) + 1 # k(owners)
      BY <1>3
    <3>2. /\ Grows(Ended(owners, small, off), top(owners))
          /\ \A r \in Ended(owners, small, off) : r.n <= top(owners)
          /\ \A r \in Ended(owners, small, off) : r.settings = settings
      BY <1>5, <3>1, EndedGrows
    <3> QED BY <2>1, <3>2
  <2>2. CASE startup # settings
    BY <2>2, <1>3, <1>5 DEF Grows, Unique
  <2> QED BY <2>1, <2>2
<1>7. /\ Grows(box \cup more, top(owners) + Taken(1, startup))
      /\ \A r \in more : r.settings = startup
      /\ \A r \in box \cup more : r.n <= top(owners) + Taken(1, startup)
  <2> HIDE DEF kept, box, top
  <2> QED BY <1>2, <1>4, <1>5, <1>6, LifecycleGrows
<1>8. \A r \in box \cup more : r.settings = startup
  BY <1>6, <1>7
<1> HIDE DEF kept, box, top, more
<1> QED BY <1>b, <1>2, <1>7, <1>8, CommandKeeps

-----------------------------------------------------------------------------

\* A task moves on or ends; no other one starts.
LEMMA TaskReady ==
    ASSUME IInv, NEW n \in Number, task[n] \in Active, NEW v \in Active \cup {None, Done}
    PROVE  /\ [task EXCEPT ![n] = v] \in Tables
           /\ TasksReady([task EXCEPT ![n] = v], outbox)
<1>1. task \in Tables
  BY DEF IInv, TypeOK, Tables
<1>2. \A r \in outbox : r.n \in Number
  BY DEF IInv, TypeOK, Record
<1> QED BY <1>1, <1>2 DEF IInv, TasksReady, Tables

\* What the phases say of the attempts left.
LEMMA Phases ==
    ASSUME IInv, NEW n \in Number
    PROVE  /\ task[n].phase = "begin" => task[n] \in Active /\ task[n].left \in 1..Tries
           /\ task[n].phase = "sent" => task[n] \in Active /\ task[n].left \in 0..Tries - 1
           /\ task[n] = Over => task[n] \in Active
           /\ \A k \in 0..Tries : Again(k) \in Active
<1>1. task[n] \in Active \cup {None, Done}
  BY DEF IInv, TypeOK
<1>2. None.phase = "none" /\ Done.phase = "done" /\ Over.phase = "result"
  BY DEF None, Done, Over
<1>3. Tries \in Nat
  BY AccountingAssumption
<1> QED BY <1>1, <1>2, <1>3 DEF Active, Again

\* Steps of a delivery that neither send nor end with a result.
LEMMA QuietDeliveries ==
    ASSUME IInv, NEW n \in Number,
           Abandon(n) \/ RolledBack(n) \/ Unreachable(n) \/ Answer(n) \/ Silence(n)
    PROVE  IInv' /\ Moves
<1>1. \E v \in Active \cup {None, Done} : task' = [task EXCEPT ![n] = v] /\ task[n] \in Active
  <2>0. Tries \in Nat
    BY AccountingAssumption
  <2>1. CASE Abandon(n) \/ RolledBack(n)
    BY <2>1 DEF Abandon, RolledBack
  <2>2. CASE Unreachable(n)
    <3>1. task[n] \in Active /\ task[n].left \in 1..Tries
      BY <2>2, Phases DEF Unreachable
    <3>2. PICK k \in 0..task[n].left - 1 : task' = [task EXCEPT ![n] = Again(k)]
      BY <2>2 DEF Unreachable
    <3>3. k \in 0..Tries
      BY <2>0, <3>1
    <3>4. Again(k) \in Active
      BY <3>3, Phases
    <3> QED BY <3>1, <3>2, <3>4
  <2>3. CASE Answer(n)
    BY <2>3, Phases DEF Answer, Active
  <2>4. CASE Silence(n)
    <3>1. task[n] \in Active /\ task[n].left \in 0..Tries
      BY <2>0, <2>4, Phases DEF Silence
    <3>2. Again(task[n].left) \in Active
      BY <3>1, Phases
    <3> QED BY <2>4, <3>1, <3>2 DEF Silence
  <2> QED BY <2>1, <2>2, <2>3, <2>4
<1>2. task' \in Tables /\ TasksReady(task', outbox)
  BY <1>1, TaskReady
<1>3. /\ UNCHANGED <<published, stored, fault, expired, servicing, stage, begun, heard>>
      /\ upsets' \in 0..MaxUpsets
  <2>1. MaxUpsets \in Nat /\ upsets \in 0..MaxUpsets
    BY AccountingAssumption DEF IInv, TypeOK
  <2> QED BY <2>1 DEF Abandon, RolledBack, Unreachable, Answer, Silence
<1>4. Around' /\ expired' \subseteq Number /\ begun \subseteq begun' /\ heard' = heard
  BY <1>3 DEF Around, IInv, TypeOK
<1> QED BY <1>2, <1>3, <1>4, QuietKeeps DEF Moves

\* The record on the wire is ready.
LEMMA AttemptKeeps ==
    ASSUME IInv, NEW n \in Number, Attempt(n)
    PROVE  IInv' /\ Moves
<1>0. task[n] \in Active /\ task[n].left \in 1..Tries /\ ~fault /\ Tries \in Nat
  BY Phases, AccountingAssumption DEF Attempt, Serving
<1>1. /\ settings \in Policies /\ startup \in Policies /\ begun' = begun
      /\ upsets' = upsets /\ servicing' = servicing /\ stage' = stage
      /\ sessions \subseteq begun /\ task \in Tables
  BY DEF IInv, TypeOK, Policies, Attempt, Tables
<1>2. Grows(outbox, sequence) /\ (\A r \in outbox : r.n <= sequence) /\ (\A r \in outbox : r.settings = settings)
  BY GrowNothing DEF IInv, QueuedForSettings
<1>3. CASE Uncertain(outbox, sequence, startup) /\ UNCHANGED heard
  <2>1. Around'
    BY <1>1, <1>3 DEF Around, IInv, TypeOK
  <2> QED BY <1>0, <1>1, <1>2, <1>3, <2>1, UncertainKeeps DEF Moves
<1>4. CASE /\ Publish(outbox, sequence, sessions, settings, startup)
           /\ task' = [Cancelled(task, outbox, settings) EXCEPT
                         ![n] = [phase |-> "sent", left |-> task[n].left - 1]]
           /\ \E r \in outbox : r.n = n /\ heard' = [heard EXCEPT ![r.owner] = n]
  <2> DEFINE after == Cancelled(task, outbox, settings)
             sent == [phase |-> "sent", left |-> task[n].left - 1]
  <2>1. sent \in Active
    BY <1>0 DEF Active
  <2>2. TasksReady(after, outbox) /\ after \in Tables
    BY <1>1, <1>2, CancelledReady DEF Tables
  <2>3. \A q \in outbox : q.n \in Number
    BY DEF IInv, TypeOK, Record
  <2>4. n \in Numbers(outbox) /\ \A r \in outbox : r.n = n => Ready(r, outbox)
    BY <1>0 DEF IInv, TasksReady
  <2>5. task' \in Tables
    BY <1>4, <2>1, <2>2 DEF Tables
  <2>6. TasksReady(task', outbox)
    <3> HIDE DEF after, sent
    <3>1. task' = [after EXCEPT ![n] = sent]
      BY <1>4 DEF after, sent
    <3> QED BY <3>1, <2>2, <2>3, <2>4 DEF TasksReady, Tables
  <2>7. PICK r \in outbox : r.n = n /\ heard' = [heard EXCEPT ![r.owner] = n]
    BY <1>4
  <2>8. Ready(r, outbox) /\ r.owner \in Owner /\ n \in 0..MaxSequence
    BY <2>4, <2>7 DEF IInv, TypeOK, Record, Number
  <2>9. Around'
    BY <1>1, <2>7, <2>8 DEF Around, IInv, TypeOK
  <2>10. IInv'
    BY <1>0, <1>1, <1>2, <1>4, <2>5, <2>6, <2>9, PublishKeeps
  <2>11. UNCHANGED <<outbox, sequence>>
    BY <1>4 DEF Publish
  <2> QED BY <2>7, <2>8, <2>10, <2>11 DEF Moves
<1> QED BY <1>3, <1>4 DEF Attempt

\* A delivery ends with its result, and the record leaves.
LEMMA ResultKeeps ==
    ASSUME IInv, NEW n \in Number, Result(n)
    PROVE  IInv' /\ Moves
<1>0. ~fault /\ Around' /\ heard' = heard /\ begun' = begun
  BY DEF Result, Serving, Around, IInv, TypeOK
<1>1. settings \in Policies /\ startup \in Policies /\ sessions \subseteq begun /\ task \in Tables
  BY DEF IInv, TypeOK, Policies, Tables
<1>2. Without(n) \in SUBSET outbox
  BY DEF Without
<1>3. /\ Grows(Without(n), sequence) /\ (\A r \in Without(n) : r.n <= sequence)
      /\ (\A r \in Without(n) : r.settings = settings)
  BY <1>2, GrowNothing DEF IInv, QueuedForSettings
<1>4. CASE Uncertain(Without(n), sequence, startup)
  BY <1>0, <1>1, <1>3, <1>4, UncertainKeeps DEF Moves
<1>5. CASE /\ Publish(Without(n), sequence, sessions, settings, startup)
           /\ task' = [Cancelled(task, Without(n), settings) EXCEPT ![n] = Done]
  <2> DEFINE after == Cancelled(task, Without(n), settings)
  <2>1. TasksReady(after, Without(n)) /\ after \in Tables
    BY <1>1, <1>3, CancelledReady DEF Tables
  <2>2. Done \notin Active
    BY DEF Done, Active, Over
  <2>3. \A r \in Without(n) : r.n \in Number
    BY <1>2 DEF IInv, TypeOK, Record
  <2>4. task' \in Tables /\ TasksReady(task', Without(n))
    <3> HIDE DEF after
    <3>1. task' = [after EXCEPT ![n] = Done]
      BY <1>5 DEF after
    <3> QED BY <3>1, <2>1, <2>2, <2>3 DEF TasksReady, Tables
  <2> QED BY <1>0, <1>1, <1>3, <1>5, <2>4, PublishKeeps DEF Moves
<1> QED BY <1>4, <1>5 DEF Result

-----------------------------------------------------------------------------

\* The background loop: what is left runs on, heads are started.
LEMMA ServiceKeeps == IInv /\ Service => IInv' /\ Moves
<1> SUFFICES ASSUME IInv, Service PROVE IInv' /\ Moves
  OBVIOUS
<1> DEFINE broken == [n \in Number |-> IF Reaped[n] \in Active THEN Done ELSE Reaped[n]]
           table == IF fault THEN broken ELSE Cancelled(Reaped, outbox, settings)
           prune == expired \cap Numbers(outbox) # {}
<1>0. /\ task' = IF fault \/ prune THEN table ELSE StartHeads(table, outbox, settings)
      /\ servicing' \in {"idle", "prune"}
      /\ UNCHANGED <<published, stored, expired, upsets, stage, fault, begun, heard>>
  BY DEF Service
<1>1. None \notin Active /\ Done \notin Active
  BY DEF None, Done, Active, Over
<1>2. Reaped \in Tables /\ \A n \in Number : Reaped[n] \in Active => task[n] \in Active
  BY <1>1 DEF Reaped, Tables, IInv, TypeOK
<1>3. Grows(outbox, sequence) /\ outbox \in SUBSET Record /\ Unique(outbox)
  BY GrowNothing DEF Grows
<1>4. broken \in Tables /\ TasksReady(broken, outbox)
  <2>1. \A r \in outbox : r.n \in Number
    BY <1>3 DEF Record
  <2> QED BY <1>1, <1>2, <2>1 DEF Tables, TasksReady
<1>5. /\ Cancelled(Reaped, outbox, settings) \in Tables
      /\ TasksReady(Cancelled(Reaped, outbox, settings), outbox)
  BY <1>2, <1>3, CancelledReady DEF Tables
<1>6. table \in Tables /\ TasksReady(table, outbox)
  BY <1>4, <1>5
<1>7. /\ StartHeads(table, outbox, settings) \in Tables
      /\ TasksReady(StartHeads(table, outbox, settings), outbox)
  <2> HIDE DEF table
  <2> QED BY <1>3, <1>6, StartReady DEF Tables
<1>8. task' \in Tables /\ TasksReady(task', outbox)
  <2> HIDE DEF table, prune
  <2> QED BY <1>0, <1>6, <1>7
<1>9. Around' /\ expired' \subseteq Number /\ begun \subseteq begun' /\ heard' = heard
  BY <1>0 DEF Around, IInv, TypeOK
<1> QED BY <1>0, <1>8, <1>9, QuietKeeps DEF Moves

\* Expired records leave.
LEMMA PruneKeeps == IInv /\ Prune => IInv' /\ Moves
<1> SUFFICES ASSUME IInv, Prune PROVE IInv' /\ Moves
  OBVIOUS
<1>0. ~fault /\ Around' /\ heard' = heard /\ begun' = begun
  BY DEF Prune, Serving, Around, IInv, TypeOK
<1>1. settings \in Policies /\ startup \in Policies /\ sessions \subseteq begun /\ task \in Tables
  BY DEF IInv, TypeOK, Policies, Tables
<1>2. Unexpired \in SUBSET outbox
  BY DEF Unexpired
<1>3. /\ Grows(Unexpired, sequence) /\ (\A r \in Unexpired : r.n <= sequence)
      /\ (\A r \in Unexpired : r.settings = settings)
  BY <1>2, GrowNothing DEF IInv, QueuedForSettings
<1> DEFINE table == Cancelled(task, Unexpired, settings)
<1>4. CASE Uncertain(Unexpired, sequence, startup)
  BY <1>0, <1>1, <1>3, <1>4, UncertainKeeps DEF Moves
<1>5. CASE /\ Publish(Unexpired, sequence, sessions, settings, startup)
           /\ task' = StartHeads(table, Unexpired, settings)
  <2>1. TasksReady(table, Unexpired) /\ table \in Tables
    BY <1>1, <1>3, CancelledReady DEF Tables
  <2>2. Unexpired \in SUBSET Record /\ Unique(Unexpired)
    BY <1>3 DEF Grows
  <2>3. task' \in Tables /\ TasksReady(task', Unexpired)
    <3> HIDE DEF table
    <3> QED BY <1>5, <2>1, <2>2, StartReady DEF Tables
  <2> QED BY <1>0, <1>1, <1>3, <1>5, <2>3, PublishKeeps DEF Moves
<1> QED BY <1>4, <1>5 DEF Prune

\* Steps of the background loop and of the clocks that leave the queue alone.
LEMMA QuietLoop ==
    ASSUME IInv, PruneFails \/ ClockChanges
    PROVE  IInv' /\ Moves
<1>0. MaxUpsets \in Nat /\ upsets \in 0..MaxUpsets
  BY AccountingAssumption DEF IInv, TypeOK
<1>1. /\ UNCHANGED <<published, stored, task, stage, fault, begun, heard>>
      /\ upsets' \in 0..MaxUpsets /\ servicing' \in {"idle", "prune"}
  BY <1>0 DEF PruneFails, ClockChanges, IInv, TypeOK
<1>2. \A r \in outbox : r.n \in Number
  BY DEF IInv, TypeOK, Record
<1>3. expired' \subseteq Number
  BY <1>2 DEF PruneFails, ClockChanges, IInv, TypeOK, Numbers
<1>4. Around' /\ task' \in Tables /\ TasksReady(task', outbox)
  BY <1>1 DEF Around, Tables, IInv, TypeOK
<1> QED BY <1>1, <1>3, <1>4, QuietKeeps DEF Moves

\* radius-shutdown queues the Off record.
LEMMA ShutdownKeeps == IInv /\ Shutdown => IInv' /\ Moves
<1> SUFFICES ASSUME IInv, Shutdown PROVE IInv' /\ Moves
  OBVIOUS
<1> DEFINE k(owners) == Cardinality(DOMAIN owners)
           top(owners) == sequence + Taken(k(owners) + 1, settings)
<1>a. PICK owners \in Listings(sessions) : \E small \in SUBSET DOMAIN owners, off \in SUBSET (1..1) :
        /\ top(owners) <= MaxSequence
        /\ \/ /\ Publish(Ended(owners, small, off), top(owners), {}, settings, startup)
              /\ task' = Cancelled(task, Ended(owners, small, off), settings)
              /\ stage' = "draining"
           \/ Uncertain(Ended(owners, small, off), top(owners), startup) /\ stage' = "closed"
  BY DEF Shutdown
<1>0. PICK small \in SUBSET DOMAIN owners, off \in SUBSET (1..1) :
        /\ top(owners) <= MaxSequence
        /\ \/ /\ Publish(Ended(owners, small, off), top(owners), {}, settings, startup)
              /\ task' = Cancelled(task, Ended(owners, small, off), settings)
              /\ stage' = "draining"
           \/ Uncertain(Ended(owners, small, off), top(owners), startup) /\ stage' = "closed"
  BY <1>a
<1> DEFINE box == Ended(owners, small, off)
<1>1. ~fault /\ heard' = heard /\ begun' = begun /\ Around'
  BY <1>0 DEF Shutdown, Around, IInv, TypeOK
<1>2. settings \in Policies /\ startup \in Policies /\ task \in Tables
  BY DEF IInv, TypeOK, Policies, Tables
<1>3. /\ Grows(box, top(owners)) /\ (\A r \in box : r.n <= top(owners))
      /\ (\A r \in box : r.settings = settings)
  <2>1. k(owners) + 1 # k(owners)
    BY ListingShape DEF IInv
  <2> QED BY <1>0, <2>1, EndedGrows
<1> HIDE DEF box, top
<1>4. CASE Uncertain(box, top(owners), startup)
  BY <1>1, <1>2, <1>3, <1>4, UncertainKeeps DEF Moves
<1>5. CASE /\ Publish(box, top(owners), {}, settings, startup)
           /\ task' = Cancelled(task, box, settings)
  <2>1. task' \in Tables /\ TasksReady(task', box)
    BY <1>2, <1>3, <1>5, CancelledReady DEF Tables
  <2> QED BY <1>1, <1>2, <1>3, <1>5, <2>1, PublishKeeps DEF Moves
<1> QED BY <1>0, <1>4, <1>5 DEF box

\* The process stops.
LEMMA StopKeeps == IInv /\ Stop => IInv' /\ Moves
<1> SUFFICES ASSUME IInv, Stop PROVE IInv' /\ Moves
  OBVIOUS
<1>1. None \notin Active
  BY DEF None, Active, Over
<1>2. \A r \in outbox : r.n \in Number
  BY DEF IInv, TypeOK, Record
<1>3. /\ UNCHANGED <<published, stored, expired, upsets, fault, begun, heard>>
      /\ stage' = "closed" /\ servicing' = "idle" /\ task' = [n \in Number |-> None]
  BY DEF Stop
<1>4. task' \in Tables /\ TasksReady(task', outbox)
  BY <1>1, <1>2, <1>3 DEF Tables, TasksReady
<1>5. Around' /\ expired' \subseteq Number /\ begun \subseteq begun'
  BY <1>3 DEF Around, IInv, TypeOK
<1> QED BY <1>3, <1>4, <1>5, QuietKeeps DEF Moves

\* The new process finds what was published or what the last command of the
\* old one had stored: nothing that was sent is older.
LEMMA RestartKeeps == IInv /\ Restart => IInv' /\ Moves
<1> SUFFICES ASSUME IInv, Restart PROVE IInv' /\ Moves
  OBVIOUS
<1> DEFINE on(small) == Lifecycle(Restored, stored.sequence, small, stored.startup)
           top == stored.sequence + Taken(1, stored.startup)
<1>0. PICK small \in SUBSET (1..1) :
         /\ top <= MaxSequence
         /\ outbox' = Restored \cup on(small)
         /\ sequence' = top
         /\ stored' = Snapshot(Restored \cup on(small), top, stored.startup)
         /\ expired' \in {expired \cap Numbers(Restored \cup on(small)), Numbers(Restored)}
  BY DEF Restart
<1> DEFINE box == Restored \cup on(small)
<1>1. /\ top <= MaxSequence /\ outbox' = box /\ sequence' = top
      /\ stored' = Snapshot(box, top, stored.startup)
      /\ expired' \in {expired \cap Numbers(box), Numbers(Restored)}
      /\ settings' = stored.startup /\ startup' = stored.startup /\ sessions' = {}
      /\ task' = [n \in Number |-> None] /\ servicing' = "idle" /\ stage' = "running" /\ fault' = FALSE
      /\ UNCHANGED <<upsets, begun, heard>>
  BY <1>0 DEF Restart
<1>2. TypeOK /\ stored.startup \in Policies /\ stored.sequence \in 0..MaxSequence /\ stored.sequence \in Nat
  BY DEF IInv, TypeOK, Stored, Policies, StoreFollows, Grows
<1>3. Grows(stored.outbox, stored.sequence) /\ Restored \subseteq stored.outbox
  BY DEF IInv, StoreFollows, Restored
<1>4. Grows(Restored, stored.sequence)
  BY <1>3 DEF Grows, Unique
<1>5. \A r \in Restored : r.n <= stored.sequence
  <2>1. sequence \in Nat /\ sequence <= stored.sequence /\ \A r \in Restored : r.n \in Nat
    BY <1>2, <1>4 DEF Grows, Record, Number, TypeOK
  <2> QED BY <1>2, <1>4, <2>1 DEF Grows, IInv, Numbered
<1>7. /\ Grows(box, top)
      /\ \A r \in on(small) : r.settings = stored.startup
      /\ \A r \in box : r.n <= top
  BY <1>1, <1>2, <1>4, <1>5, LifecycleGrows
<1>8. \A r \in box : r.settings = stored.startup
  BY <1>7 DEF Restored
<1> HIDE DEF box, top, on
<1>9. box \in SUBSET Record /\ top \in 0..MaxSequence /\ top \in Nat
  BY <1>7 DEF Grows
<1>10. None \notin Active
  BY DEF None, Active, Over
<1>11. stored' = [outbox |-> box, sequence |-> top, startup |-> stored.startup] /\ stored' \in Stored
  BY <1>1, <1>2, <1>9 DEF Snapshot, Stored, Policies
<1>12. expired' \subseteq Number
  <2>1. \A r \in Restored : r.n \in Number
    BY <1>4 DEF Grows, Record
  <2> QED BY <1>1, <1>2, <2>1 DEF TypeOK, Numbers
<1>13. TypeOK'
  BY <1>1, <1>2, <1>9, <1>11, <1>12 DEF TypeOK, Policies
<1>14. Numbered' /\ QueuedForSettings'
  BY <1>1, <1>7, <1>8 DEF Numbered, QueuedForSettings, Grows
<1>15. StoreFollows'
  BY <1>1, <1>7, <1>9, <1>11 DEF StoreFollows, Grows, Snapshot
<1>16. TasksReady(task, outbox)'
  <2>1. \A r \in box : r.n \in Number
    BY <1>9 DEF Record
  <2> QED BY <1>1, <1>10, <2>1 DEF TasksReady
<1> QED BY <1>1, <1>7, <1>13, <1>14, <1>15, <1>16 DEF IInv, Moves

-----------------------------------------------------------------------------
(***************************************************************************)
(* Theorems                                                                *)
(***************************************************************************)

\* The invariant holds at the start.
LEMMA Initially == Init => IInv
<1> SUFFICES ASSUME Init PROVE IInv
  OBVIOUS
<1>1. None \notin Active /\ MaxSequence \in Nat /\ MaxUpsets \in Nat
  BY AccountingAssumption DEF None, Active, Over
<1>2. stored = [outbox |-> {}, sequence |-> 0, startup |-> Off]
  BY DEF Init, Snapshot
<1>3. stored \in Stored
  BY <1>2 DEF Stored
<1>4. TypeOK
  <2>1. fault \in BOOLEAN /\ task \in [Number -> Active \cup {None, Done}]
    BY DEF Init
  <2>2. sequence \in 0..MaxSequence /\ upsets \in 0..MaxUpsets /\ heard \in [Owner -> 0..MaxSequence]
    BY <1>1 DEF Init
  <2> QED BY <1>3, <2>1, <2>2 DEF Init, TypeOK
<1>5. Numbered /\ QueuedForSettings
  BY DEF Init, Numbered, QueuedForSettings, Unique
<1>6. StoreFollows
  BY <1>1, <1>2 DEF Init, StoreFollows, Grows, Unique, Snapshot
<1>7. TasksReady(task, outbox)
  BY <1>1 DEF Init, TasksReady
<1> QED BY <1>4, <1>5, <1>6, <1>7 DEF IInv

\* Every step keeps the invariant and is a step of the abstract queue.
LEMMA Step == IInv /\ [Next]_vars => IInv' /\ (Moves \/ UNCHANGED vars)
<1> SUFFICES ASSUME IInv, [Next]_vars PROVE IInv' /\ (Moves \/ UNCHANGED vars)
  OBVIOUS
<1>1. CASE \E s \in Session : Authorize(s) \/ EndSession(s) \/ Interim(s)
  BY <1>1, SessionsKeep
<1>2. CASE \E policy \in Settings \cup {Off} : Edit(policy)
  BY <1>2, EditKeeps DEF Policies
<1>3. CASE Save \/ Import \/ Reboot
  BY <1>3, SaveKeeps, ImportKeeps, RebootKeeps
<1>4. CASE \E n \in Number : Deliver(n) \/ RolledBack(n)
  BY <1>4, QuietDeliveries, AttemptKeeps, ResultKeeps DEF Deliver
<1>5. CASE Service \/ Prune \/ PruneFails \/ ClockChanges
  BY <1>5, ServiceKeeps, PruneKeeps, QuietLoop
<1>6. CASE Shutdown \/ Stop \/ Restart
  BY <1>6, ShutdownKeeps, StopKeeps, RestartKeeps
<1>7. CASE UNCHANGED vars
  BY <1>7 DEF vars, published, IInv, TypeOK, Numbered, StoreFollows, Grows, TasksReady, QueuedForSettings
<1> QED BY <1>1, <1>2, <1>3, <1>4, <1>5, <1>6, <1>7 DEF Next

\* The invariant holds in every reachable state.
LEMMA Invariance == Spec => []IInv
<1>1. IInv /\ [Next]_vars => IInv'
  BY Step
<1> QED BY <1>1, Initially, PTL DEF Spec

\* Type correctness of the outbox, its store and its tasks.
THEOREM TypeCorrect == Spec => []TypeOK
<1>1. IInv => TypeOK
  BY DEF IInv
<1> QED BY <1>1, Invariance, PTL

\* No record waits under settings that are not in force, whatever was edited,
\* rebooted or lost in a crash before.
THEOREM SettingsMatch == Spec => []QueuedForSettings
<1>1. IInv => QueuedForSettings
  BY DEF IInv
<1> QED BY <1>1, Invariance, PTL

\* Deliveries of one session never overlap, and On and Off are sent alone.
THEOREM Exclusive == Spec => []DeliveriesExclusive
<1>1. IInv => DeliveriesExclusive
  <2> SUFFICES ASSUME IInv PROVE DeliveriesExclusive
    OBVIOUS
  <2>1. \A n \in Number : task[n] \in Active => n \in Numbers(outbox)
    BY DEF IInv, TasksReady
  <2>2. ASSUME NEW q \in outbox, NEW r \in outbox, task[q.n] \in Active, task[r.n] \in Active, q # r
        PROVE  q.owner # r.owner /\ Nas \notin {q.owner, r.owner}
    <3>1. q.n \in Nat /\ r.n \in Nat
      BY DEF IInv, TypeOK, Record, Number
    <3>2. q.n # r.n
      BY <2>2 DEF IInv, Numbered, Unique
    <3>3. Ready(q, outbox) /\ Ready(r, outbox)
      BY <2>2 DEF IInv, TasksReady
    <3>4. CASE q.n < r.n
      BY <3>3, <3>4 DEF Ready
    <3>5. CASE r.n < q.n
      BY <3>3, <3>5 DEF Ready
    <3> QED BY <3>1, <3>2, <3>4, <3>5
  <2> QED BY <2>1, <2>2 DEF DeliveriesExclusive
<1> QED BY <1>1, Invariance, PTL

\* A step of the outbox is a step of the abstract queue.
LEMMA MovesMap ==
    ASSUME IInv, IInv', Moves
    PROVE  Queue!QueueNext
<1> DEFINE flat(r) == [n |-> r.n, owner |-> r.owner]
           queue == {flat(r) : r \in outbox}
<1>0. \A r \in outbox : r.n \in Nat /\ r.owner \in Queue!Owner
  BY DEF IInv, TypeOK, Record, Number, Owner, Queue!Owner
<1>1. CASE Grows(outbox', sequence') /\ heard' = heard
  <2>1. \A r \in outbox' : r.n \in Nat /\ r.owner \in Queue!Owner
    BY <1>1 DEF Grows, Record, Number, Owner, Queue!Owner
  <2>2. queue' \subseteq [n : Nat, owner : Queue!Owner]
    BY <2>1
  <2>3. ASSUME NEW x \in queue' PROVE x \in queue \/ (sequence < x.n /\ x.n <= sequence')
    <3>1. PICK r \in outbox' : x = flat(r)
      BY <2>3
    <3>2. r \in outbox \/ (sequence < r.n /\ r.n <= sequence')
      BY <1>1 DEF Grows
    <3> QED BY <3>1, <3>2
  <2>4. sequence' \in Nat /\ sequence <= sequence'
    BY <1>1 DEF Grows
  <2> QED BY <1>1, <2>2, <2>3, <2>4 DEF Queue!QueueNext, Queue!Change
<1>2. CASE /\ UNCHANGED <<outbox, sequence>>
           /\ \E r \in outbox : Ready(r, outbox) /\ heard' = [heard EXCEPT ![r.owner] = r.n]
  <2>1. PICK r \in outbox : Ready(r, outbox) /\ heard' = [heard EXCEPT ![r.owner] = r.n]
    BY <1>2
  <2>2. flat(r) \in queue /\ flat(r).n = r.n /\ flat(r).owner = r.owner
    OBVIOUS
  <2>3. ASSUME NEW x \in queue, x.n < r.n PROVE x.owner # r.owner /\ Nas \notin {x.owner, r.owner}
    <3>1. PICK q \in outbox : x = flat(q)
      BY <2>3
    <3> QED BY <2>1, <2>3, <3>1 DEF Ready
  <2>4. Queue!Eligible(flat(r))
    BY <2>2, <2>3 DEF Queue!Eligible
  <2>5. queue' = queue /\ sequence' = sequence
    BY <1>2
  <2>6. Queue!Transmit(flat(r))
    BY <2>1, <2>2, <2>4, <2>5 DEF Queue!Transmit
  <2> QED BY <2>2, <2>6 DEF Queue!QueueNext
<1> QED BY <1>1, <1>2 DEF Moves

\* The outbox, its delivery tasks and its store implement the abstract queue:
\* crashes, retries, expiry and edits of the settings never reorder a session
\* or move a record across an On or Off record.
THEOREM Refinement == Spec => ImplementsQueue
<1>1. Init => Queue!QueueInit
  BY DEF Init, Queue!QueueInit, Owner, Queue!Owner
<1>2. IInv /\ IInv' /\ [Next]_vars => [Queue!QueueNext]_(Queue!queueVars)
  <2> SUFFICES ASSUME IInv, IInv', [Next]_vars PROVE [Queue!QueueNext]_(Queue!queueVars)
    OBVIOUS
  <2>1. CASE Moves
    BY <2>1, MovesMap
  <2>2. CASE UNCHANGED vars
    BY <2>2 DEF vars, published, Queue!queueVars
  <2> QED BY <2>1, <2>2, Step
<1> QED BY <1>1, <1>2, Invariance, PTL DEF Spec, ImplementsQueue, Queue!QueueSpec

-----------------------------------------------------------------------------
(***************************************************************************)
(* What the abstract queue promises                                        *)
(***************************************************************************)

\* Of a queue q, the greatest number t given out and what each owner last sent:
\* besides the order itself, nothing queued or sent is beyond t, so that what
\* joins is newer than what was sent.
Ordered(q, t, sent) ==
    /\ q \subseteq [n : Nat, owner : Owner] /\ t \in Nat /\ sent \in [Owner -> Nat]
    /\ \A r \in q : r.n <= t
    /\ \A o \in Owner : sent[o] <= t
    /\ \A r \in q : sent[r.owner] <= r.n /\ sent[Nas] <= r.n
    /\ \A r \in q : r.owner = Nas => \A o \in Owner : sent[o] <= r.n

\* A record on the wire is the first of its session, and on the right side of
\* every On and Off record.
LEMMA SentInOrder ==
    ASSUME NEW q, NEW t, NEW sent, Ordered(q, t, sent), NEW r \in q,
           \A x \in q : x.n < r.n => x.owner # r.owner /\ x.owner # Nas /\ r.owner # Nas
    PROVE  Ordered(q, t, [sent EXCEPT ![r.owner] = r.n])
<1> DEFINE now == [sent EXCEPT ![r.owner] = r.n]
<1>1. r.n \in Nat /\ r.owner \in Owner /\ r.n <= t /\ Nas \in Owner
  BY DEF Ordered, Owner
<1>2. /\ q \subseteq [n : Nat, owner : Owner] /\ t \in Nat /\ now \in [Owner -> Nat]
      /\ \A x \in q : x.n <= t
  BY <1>1 DEF Ordered
<1>3. \A o \in Owner : now[o] <= t
  BY <1>1 DEF Ordered
<1>4. \A x \in q : now[x.owner] <= x.n /\ now[Nas] <= x.n
  BY <1>1 DEF Ordered
<1>5. \A x \in q : x.owner = Nas => \A o \in Owner : now[o] <= x.n
  BY <1>1 DEF Ordered
<1> HIDE DEF now
<1>6. Ordered(q, t, now)
  BY <1>2, <1>3, <1>4, <1>5 DEF Ordered
<1> QED BY <1>6 DEF now

\* What joins is numbered above everything that was sent.
LEMMA JoinedInOrder ==
    ASSUME NEW q, NEW t, NEW sent, Ordered(q, t, sent),
           NEW p \in SUBSET [n : Nat, owner : Owner], NEW u \in Nat, t <= u,
           \A r \in p : r \in q \/ (t < r.n /\ r.n <= u)
    PROVE  Ordered(p, u, sent)
<1>1. /\ t \in Nat /\ sent \in [Owner -> Nat] /\ Nas \in Owner
      /\ \A o \in Owner : sent[o] <= t /\ sent[o] \in Nat
      /\ \A r \in p : r.n \in Nat /\ r.owner \in Owner
  BY DEF Ordered, Owner
<1>2. \A r \in p : r.n <= u /\ sent[r.owner] <= r.n /\ sent[Nas] <= r.n
  BY <1>1 DEF Ordered
<1>3. \A o \in Owner : sent[o] <= u
  BY <1>1
<1>4. \A r \in p : r.owner = Nas => \A o \in Owner : sent[o] <= r.n
  BY <1>1 DEF Ordered
<1> QED BY <1>1, <1>2, <1>3, <1>4 DEF Ordered

\* Steps of the abstract queue.
LEMMA QueueStep ==
    LET flat == {[n |-> r.n, owner |-> r.owner] : r \in outbox}
        kept == Ordered(flat, sequence, heard)
    IN kept /\ [Queue!QueueNext]_(Queue!queueVars) => kept'
<1> DEFINE flat == {[n |-> r.n, owner |-> r.owner] : r \in outbox}
           kept == Ordered(flat, sequence, heard)
<1> SUFFICES ASSUME kept, [Queue!QueueNext]_(Queue!queueVars) PROVE kept'
  OBVIOUS
<1>0. Queue!Owner = Owner
  BY DEF Owner, Queue!Owner
<1>1. CASE Queue!Change
  <2>1. /\ flat' \in SUBSET [n : Nat, owner : Owner] /\ sequence' \in Nat /\ sequence <= sequence'
        /\ \A r \in flat' : r \in flat \/ (sequence < r.n /\ r.n <= sequence')
        /\ heard' = heard
    BY <1>0, <1>1 DEF Queue!Change
  <2> HIDE DEF flat
  <2> QED BY <2>1, JoinedInOrder
<1>2. ASSUME NEW r \in flat, Queue!Transmit(r) PROVE kept'
  <2>1. /\ \A x \in flat : x.n < r.n => x.owner # r.owner /\ x.owner # Nas /\ r.owner # Nas
        /\ heard' = [heard EXCEPT ![r.owner] = r.n] /\ flat' = flat /\ sequence' = sequence
    BY <1>2 DEF Queue!Transmit, Queue!Eligible
  <2> HIDE DEF flat
  <2> QED BY <2>1, SentInOrder
<1>3. CASE UNCHANGED Queue!queueVars
  <2>1. flat' = flat /\ sequence' = sequence /\ heard' = heard
    BY <1>3 DEF Queue!queueVars
  <2> HIDE DEF flat
  <2> QED BY <2>1
<1> QED BY <1>1, <1>2, <1>3 DEF Queue!QueueNext

\* What the collectors see of a session never goes back, and On and Off
\* records separate what is older from what is newer, however records are
\* dropped: the promise the outbox of engine.py makes.
THEOREM QueueOrder == Queue!QueueSpec => []WireOrder
<1> DEFINE flat == {[n |-> r.n, owner |-> r.owner] : r \in outbox}
           kept == Ordered(flat, sequence, heard)
<1>0. Queue!Owner = Owner /\ Nas \in Owner
  BY DEF Owner, Queue!Owner
<1>1. Queue!QueueInit => kept
  <2> SUFFICES ASSUME Queue!QueueInit PROVE kept
    OBVIOUS
  <2>1. sequence \in Nat /\ flat \subseteq [n : 1..sequence, owner : Owner] /\ heard = [o \in Owner |-> 0]
    BY <1>0 DEF Queue!QueueInit
  <2> HIDE DEF flat
  <2> QED BY <1>0, <2>1 DEF Ordered
<1>2. kept => WireOrder
  <2> SUFFICES ASSUME kept PROVE WireOrder
    OBVIOUS
  <2>1. /\ \A r \in flat : heard[r.owner] <= r.n /\ heard[Nas] <= r.n
        /\ \A r \in flat : r.owner = Nas => \A o \in Owner : heard[o] <= r.n
    BY DEF Ordered
  <2> QED BY <1>0, <2>1 DEF WireOrder, Queue!SessionsInOrder, Queue!BarriersHold
<1>3. kept /\ [Queue!QueueNext]_(Queue!queueVars) => kept'
  BY QueueStep
<1> HIDE DEF kept
<1> QED BY <1>1, <1>2, <1>3, PTL DEF Queue!QueueSpec

\* What the collectors see is in order.
THEOREM OrderOnTheWire == Spec => []WireOrder
BY Refinement, QueueOrder, PTL DEF ImplementsQueue

-----------------------------------------------------------------------------
(***************************************************************************)
(* Limits                                                                  *)
(***************************************************************************)

Fits(box) == IsFiniteSet(box) /\ Cardinality(box) <= Limit

\* A part of a queue that fits, fits.
LEMMA PartFits ==
    ASSUME NEW box, Fits(box), NEW part \in SUBSET box
    PROVE  Fits(part)
<1>1. IsFiniteSet(part) /\ Cardinality(part) <= Cardinality(box)
  BY FS_Subset DEF Fits
<1>2. Cardinality(part) \in Nat /\ Cardinality(box) \in Nat /\ Limit \in Nat
  BY <1>1, FS_CardinalityType, AccountingAssumption DEF Fits
<1> QED BY <1>1, <1>2 DEF Fits

\* A set of numbers up to a bound that is not empty has a greatest one.
LEMMA Greatest ==
    ASSUME NEW bound \in Nat, NEW places \in SUBSET (1..bound), places # {}
    PROVE  \E i \in places : \A j \in places : j <= i
<1> DEFINE back == {m \in Nat : bound - m \in places}
           less == OpToRel(<, Nat)
<1>1. back # {} /\ back \subseteq Nat
  <2>1. PICK i \in places : TRUE
    OBVIOUS
  <2>2. bound - i \in Nat /\ bound - (bound - i) = i
    OBVIOUS
  <2> QED BY <2>2
<1>2. \E x \in back : \A y \in back : ~(<<y, x>> \in less)
  <2> HIDE DEF back, less
  <2>1. IsWellFoundedOn(less, Nat)
    BY NatLessThanWellFounded DEF less
  <2> QED BY <1>1, <2>1, WFMin
<1>3. PICK x \in back : \A y \in back : ~(<<y, x>> \in less)
  BY <1>2
<1>4. \A y \in back : ~(y < x)
  BY <1>3 DEF OpToRel
<1>5. ASSUME NEW j \in places PROVE j <= bound - x
  <2>1. bound - j \in Nat /\ bound - (bound - j) = j
    OBVIOUS
  <2>2. ~(bound - j < x)
    BY <1>4, <2>1
  <2> QED BY <2>2
<1> QED BY <1>5

\* However many owners a command names, and whichever of their records have the
\* bytes, queue_accounting fills the queue at most: the last record that joins
\* is counted with the ones before it.
LEMMA QueueFits ==
    ASSUME NEW box, Fits(box), NEW top, NEW owners, NEW k \in Nat, NEW small \in SUBSET (1..k), NEW policy
    PROVE  Fits(box \cup queue_accounting(box, top, owners, small, policy))
<1> DEFINE record(i) == [n |-> top + i, owner |-> owners[i], settings |-> policy]
           before(j) == {h \in small : h <= j}
           places == {j \in small : policy # Off /\ Cardinality(box) + Cardinality(before(j)) <= Limit}
           more == queue_accounting(box, top, owners, small, policy)
           f == [j \in places |-> record(j)]
<1>1. Cardinality(box) \in Nat /\ Limit \in Nat /\ IsFiniteSet(box) /\ Cardinality(box) <= Limit
  BY FS_CardinalityType, AccountingAssumption DEF Fits
<1>2. IsFiniteSet(small)
  <2>1. IsFiniteSet(1..k)
    BY FS_Interval
  <2> QED BY <2>1, FS_Subset
<1>3. \A j \in small : IsFiniteSet(before(j)) /\ Cardinality(before(j)) \in Nat
  BY <1>2, FS_Subset, FS_CardinalityType
<1>4. IsFiniteSet(places) /\ Cardinality(places) \in Nat /\ Cardinality(box) + Cardinality(places) <= Limit
  <2>1. CASE places = {}
    <3> HIDE DEF places
    <3>1. IsFiniteSet({}) /\ Cardinality({}) = 0
      BY FS_EmptySet
    <3>2. IsFiniteSet(places) /\ Cardinality(places) = 0
      BY <2>1, <3>1
    <3> QED BY <1>1, <3>2
  <2>2. CASE places # {}
    <3>1. places \in SUBSET (1..k)
      OBVIOUS
    <3>2. PICK i \in places : \A j \in places : j <= i
      <4> HIDE DEF places
      <4> QED BY <2>2, <3>1, Greatest
    <3>3. i \in small /\ Cardinality(box) + Cardinality(before(i)) <= Limit
      BY <3>2
    <3>4. places \in SUBSET before(i)
      BY <3>2
    <3> HIDE DEF places, before
    <3>5. IsFiniteSet(places) /\ Cardinality(places) <= Cardinality(before(i))
      BY <1>3, <3>3, <3>4, FS_Subset
    <3>6. Cardinality(places) \in Nat /\ Cardinality(before(i)) \in Nat
      BY <1>3, <3>3, <3>5, FS_CardinalityType
    <3> QED BY <1>1, <3>3, <3>5, <3>6
  <2> QED BY <2>1, <2>2
<1>5. more = {record(i) : i \in places}
  BY DEF queue_accounting
<1>6. f \in Surjection(places, more)
  <2> HIDE DEF places, more
  <2> QED BY <1>5 DEF Surjection
<1>7. IsFiniteSet(more) /\ Cardinality(more) <= Cardinality(places)
  <2> HIDE DEF f, places, more
  <2> QED BY <1>4, <1>6, FS_Surjection
<1> HIDE DEF places, f, more
<1>8. /\ IsFiniteSet(box \cup more)
      /\ Cardinality(box \cup more) = Cardinality(box) + Cardinality(more) - Cardinality(box \cap more)
  BY <1>1, <1>7, FS_Union
<1>9. Cardinality(box \cap more) \in Nat /\ Cardinality(more) \in Nat
  BY <1>1, <1>7, FS_Intersection, FS_CardinalityType
<1>10. Cardinality(box \cup more) <= Limit
  BY <1>1, <1>4, <1>7, <1>8, <1>9
<1> QED BY <1>8, <1>10 DEF Fits, more

\* The same for an On or Off record.
LEMMA LifecycleFits ==
    ASSUME NEW box, Fits(box), NEW top, NEW small \in SUBSET (1..1), NEW policy
    PROVE  Fits(box \cup Lifecycle(box, top, small, policy))
<1>1. 1 \in Nat
  OBVIOUS
<1> QED BY <1>1, QueueFits DEF Lifecycle

\* Stop records, and Off after them, fill the queue at most.
LEMMA EndedFits ==
    ASSUME TypeOK, Fits(outbox), NEW owners \in Listings(sessions), NEW small \in SUBSET DOMAIN owners,
           NEW off \in SUBSET (1..1)
    PROVE  Fits(Ended(owners, small, off))
<1> DEFINE k == Cardinality(DOMAIN owners)
           stops == queue_accounting(outbox, sequence, owners, small, settings)
           top == sequence + Taken(k, settings)
           last == Lifecycle(outbox \cup stops, top, off, settings)
<1>1. k \in Nat /\ small \in SUBSET (1..k)
  BY ListingShape
<1>2. Fits(outbox \cup stops)
  <2> HIDE DEF k
  <2> QED BY <1>1, QueueFits
<1>3. Fits((outbox \cup stops) \cup last)
  <2> HIDE DEF stops, top
  <2> QED BY <1>2, LifecycleFits
<1>4. Ended(owners, small, off) = (outbox \cup stops) \cup last
  BY DEF Ended
<1> HIDE DEF stops, last
<1> QED BY <1>3, <1>4

\* Queues that fit are stored and published.
LEMMA CommandFits ==
    ASSUME Fits(outbox), Fits(stored.outbox), NEW box, Fits(box), NEW top, NEW live, NEW policy, NEW boot,
           Publish(box, top, live, policy, boot) \/ Uncertain(box, top, boot)
    PROVE  Fits(outbox') /\ Fits(stored'.outbox)
BY DEF Publish, Uncertain, Snapshot, published

\* A set of queued records that is not empty has a newest one.
LEMMA Newest ==
    ASSUME NEW box \in SUBSET Record, box # {}
    PROVE  \E r \in box : \A q \in box : q.n <= r.n
<1>1. MaxSequence \in Nat
  BY AccountingAssumption
<1>2. Numbers(box) \in SUBSET (1..MaxSequence) /\ Numbers(box) # {}
  BY DEF Numbers, Record, Number
<1>3. PICK i \in Numbers(box) : \A j \in Numbers(box) : j <= i
  BY <1>1, <1>2, Greatest
<1> QED BY <1>3 DEF Numbers

\* Of a set of records, those with fewer than m older ones are at most m.
LEMMA OldestFew ==
    ASSUME NEW box \in SUBSET Record, Unique(box), IsFiniteSet(box), NEW m \in Nat, NEW b \in Nat,
           b <= m
    PROVE  LET few == {r \in box : Cardinality({q \in box : q.n < r.n}) + b < m}
           IN IsFiniteSet(few) /\ Cardinality(few) + b <= m
<1> DEFINE few == {r \in box : Cardinality({q \in box : q.n < r.n}) + b < m}
<1>1. IsFiniteSet(few)
  <2>1. few \in SUBSET box
    OBVIOUS
  <2> HIDE DEF few
  <2> QED BY <2>1, FS_Subset
<1>2. CASE few = {}
  <2>1. Cardinality(few) = 0
    BY <1>2, FS_EmptySet
  <2> QED BY <1>1, <2>1
<1>3. CASE few # {}
  <2>1. PICK r \in few : \A q \in few : q.n <= r.n
    BY <1>3, Newest
  <2> DEFINE older == {q \in box : q.n < r.n}
  <2>2. Cardinality(older) + b < m
    BY <2>1
  <2>3. IsFiniteSet(older) /\ Cardinality(older) \in Nat
    <3>1. older \in SUBSET box
      OBVIOUS
    <3> HIDE DEF older
    <3> QED BY <3>1, FS_Subset, FS_CardinalityType
  <2>4. few \subseteq older \cup {r}
    <3> SUFFICES ASSUME NEW q \in few, q \notin older PROVE q = r
      OBVIOUS
    <3>1. q \in box /\ r \in box /\ q.n \in Nat /\ r.n \in Nat
      BY DEF Record, Number
    <3>2. q.n = r.n
      BY <2>1, <3>1
    <3> QED BY <3>1, <3>2 DEF Unique
  <2> HIDE DEF older, few
  <2>5. /\ IsFiniteSet(older \cup {r})
        /\ \/ Cardinality(older \cup {r}) = Cardinality(older)
           \/ Cardinality(older \cup {r}) = Cardinality(older) + 1
    BY <2>3, FS_AddElement
  <2>6. Cardinality(few) <= Cardinality(older \cup {r})
    BY <2>4, <2>5, FS_Subset
  <2>7. Cardinality(few) \in Nat
    BY <1>1, FS_CardinalityType
  <2>8. Cardinality(few) + b <= m
    BY <2>2, <2>3, <2>5, <2>6, <2>7
  <2> QED BY <1>1, <2>8 DEF few
<1> QED BY <1>1, <1>2, <1>3

\* The slots a table of tasks occupies.
Busy(table) == {n \in Number : table[n] # None}

\* Slots are finitely many, and those of fewer tasks are fewer.
LEMMA BusyCount ==
    ASSUME NEW table, NEW after, Busy(after) \subseteq Busy(table)
    PROVE  /\ IsFiniteSet(Busy(table)) /\ Cardinality(Busy(table)) \in Nat
           /\ Cardinality(Busy(after)) \in Nat /\ Cardinality(Busy(after)) <= Cardinality(Busy(table))
<1>0. 1 \in Int /\ MaxSequence \in Int
  BY AccountingAssumption
<1>1. IsFiniteSet(Number)
  BY <1>0, FS_Interval DEF Number
<1>2. Busy(table) \in SUBSET Number
  BY DEF Busy
<1>3. IsFiniteSet(Busy(table))
  BY <1>1, <1>2, FS_Subset
<1>4. IsFiniteSet(Busy(after)) /\ Cardinality(Busy(after)) <= Cardinality(Busy(table))
  BY <1>3, FS_Subset
<1> QED BY <1>3, <1>4, FS_CardinalityType

\* Cancelled tasks keep their slots until they are reaped.
LEMMA CancelledBusy ==
    ASSUME NEW table, NEW box, NEW policy
    PROVE  Busy(Cancelled(table, box, policy)) = Busy(table)
<1>1. None \notin Active /\ Done # None
  BY DEF None, Active, Over, Done
<1> QED BY <1>1 DEF Busy, Cancelled

\* service_accounting starts no more deliveries than there are free slots.
LEMMA StartBounded ==
    ASSUME NEW box \in SUBSET Record, Unique(box), Fits(box), NEW policy, NEW table,
           Cardinality(Busy(table)) <= MaxTasks
    PROVE  Cardinality(Busy(StartHeads(table, box, policy))) <= MaxTasks
<1> DEFINE startable == {r \in Heads(box) : table[r.n] = None /\ accounting_current(r.n, box, policy)}
           started == Started(table, box, policy)
           after == StartHeads(table, box, policy)
           b == Cardinality(Busy(table))
           f == [r \in started |-> r.n]
<1>0. MaxTasks \in Nat /\ b \in Nat /\ IsFiniteSet(Busy(table)) /\ b <= MaxTasks
  BY AccountingAssumption, BusyCount
<1>1. startable \in SUBSET box
  BY HeadsReady
<1>2. Unique(startable) /\ startable \in SUBSET Record
  BY <1>1 DEF Unique
<1>3. IsFiniteSet(startable)
  <2> HIDE DEF startable
  <2> QED BY <1>1, FS_Subset DEF Fits
<1>4. started = {r \in startable : Cardinality({q \in startable : q.n < r.n}) + b < MaxTasks}
  BY DEF Started, Busy
<1> HIDE DEF startable, b
<1>5. IsFiniteSet(started) /\ Cardinality(started) + b <= MaxTasks
  <2> HIDE DEF started
  <2> QED BY <1>0, <1>2, <1>3, <1>4, OldestFew
<1>6. f \in Surjection(started, Numbers(started))
  <2> HIDE DEF started
  <2> QED BY DEF Surjection, Numbers
<1> HIDE DEF f, started
<1>7. IsFiniteSet(Numbers(started)) /\ Cardinality(Numbers(started)) <= Cardinality(started)
  BY <1>5, <1>6, FS_Surjection
<1>8. Busy(after) \subseteq Busy(table) \cup Numbers(started)
  BY DEF StartHeads, Busy, started
<1> HIDE DEF after
<1>9. /\ IsFiniteSet(Busy(table) \cup Numbers(started))
      /\ Cardinality(Busy(table) \cup Numbers(started)) =
            b + Cardinality(Numbers(started)) - Cardinality(Busy(table) \cap Numbers(started))
  BY <1>0, <1>7, FS_Union DEF b
<1>10. Cardinality(Busy(after)) <= Cardinality(Busy(table) \cup Numbers(started))
  BY <1>8, <1>9, FS_Subset
<1>11. /\ Cardinality(Busy(after)) \in Nat /\ Cardinality(Numbers(started)) \in Nat
       /\ Cardinality(started) \in Nat /\ Cardinality(Busy(table) \cap Numbers(started)) \in Nat
  <2>1. Cardinality(Busy(after)) \in Nat
    BY BusyCount
  <2>2. IsFiniteSet(Busy(table) \cap Numbers(started))
    BY <1>0, FS_Intersection
  <2> QED BY <1>5, <1>7, <2>1, <2>2, FS_CardinalityType
<1>12. Cardinality(Busy(after)) <= MaxTasks
  BY <1>0, <1>5, <1>7, <1>9, <1>10, <1>11
<1> QED BY <1>12 DEF after

\* Every set of records kept anywhere fits and no slot is taken twice.
Counted == Fits(outbox) /\ Fits(stored.outbox) /\ Cardinality(Busy(task)) <= MaxTasks

\* Tasks that only move on or end leave the slots within the limit.
LEMMA SlotsKept ==
    ASSUME Counted, Busy(task') \subseteq Busy(task)
    PROVE  Cardinality(Busy(task')) <= MaxTasks
<1>1. /\ Cardinality(Busy(task)) \in Nat /\ Cardinality(Busy(task')) \in Nat
      /\ Cardinality(Busy(task')) <= Cardinality(Busy(task))
  BY BusyCount
<1>2. MaxTasks \in Nat /\ Cardinality(Busy(task)) <= MaxTasks
  BY AccountingAssumption DEF Counted
<1> QED BY <1>1, <1>2

\* After an uncertain commit every task is ended where it was.
LEMMA UncertainBusy ==
    ASSUME NEW box, NEW top, NEW boot, Uncertain(box, top, boot)
    PROVE  Busy(task') \subseteq Busy(task)
<1>1. None \notin Active
  BY DEF None, Active, Over
<1> QED BY <1>1 DEF Busy, Uncertain

\* A command whose queue fits keeps the limits.
LEMMA CommandCounts ==
    ASSUME Counted, NEW box, Fits(box), NEW top, NEW live, NEW policy, NEW boot,
           \/ /\ Publish(box, top, live, policy, boot)
              /\ task' = Cancelled(task, box, policy)
           \/ Uncertain(box, top, boot)
    PROVE  Counted'
<1>1. Fits(outbox') /\ Fits(stored'.outbox)
  BY CommandFits DEF Counted
<1>2. Busy(task') \subseteq Busy(task)
  BY CancelledBusy, UncertainBusy
<1>3. Cardinality(Busy(task')) <= MaxTasks
  BY <1>2, SlotsKept
<1> QED BY <1>1, <1>3 DEF Counted

\* A step that leaves queue and store alone and starts no task.
LEMMA QuietCounts ==
    ASSUME Counted, UNCHANGED <<outbox, stored>>, Busy(task') \subseteq Busy(task)
    PROVE  Counted'
<1>1. Cardinality(Busy(task')) <= MaxTasks
  BY SlotsKept
<1> QED BY <1>1 DEF Counted

\* Commands: one record, one for each session, or with On and Off.
LEMMA CommandsCount ==
    ASSUME IInv, Counted,
           \/ \E s \in Session : Authorize(s) \/ EndSession(s) \/ Interim(s)
           \/ \E policy \in Settings \cup {Off} : Edit(policy)
           \/ Save \/ Import \/ Reboot
    PROVE  Counted'
<1>0. TypeOK /\ Fits(outbox)
  BY DEF IInv, Counted
<1>1. ASSUME NEW s, NEW live, Append({s}, live) PROVE Counted'
  <2>1. PICK k \in 0..1 : \E owners \in [1..k -> {s}], small \in SUBSET (1..k) :
          LET more == queue_accounting(outbox, sequence, owners, small, settings)
          IN Command(outbox \cup more, sequence + Taken(k, settings), live, settings, startup)
    BY <1>1 DEF Append
  <2>2. ASSUME NEW owners, NEW small \in SUBSET (1..k)
        PROVE  Fits(outbox \cup queue_accounting(outbox, sequence, owners, small, settings))
    <3>1. k \in Nat
      OBVIOUS
    <3> QED BY <1>0, <3>1, QueueFits
  <2> QED BY <2>1, <2>2, CommandCounts DEF Command
<1>2. ASSUME NEW policy \in Settings \cup {Off}, Edit(policy) PROVE Counted'
  <2>0. PICK owners \in Listings(sessions) : \E small \in SUBSET DOMAIN owners :
          LET k == Cardinality(DOMAIN owners)
              box == Kept(policy)
              more == queue_accounting(box, sequence, owners, small, policy)
          IN Command(box \cup more, sequence + Taken(k, policy), sessions, policy, startup)
    BY <1>2 DEF Edit
  <2>1. PICK small \in SUBSET DOMAIN owners :
          LET k == Cardinality(DOMAIN owners)
              box == Kept(policy)
              more == queue_accounting(box, sequence, owners, small, policy)
          IN Command(box \cup more, sequence + Taken(k, policy), sessions, policy, startup)
    BY <2>0
  <2> DEFINE k == Cardinality(DOMAIN owners)
  <2>2. k \in Nat /\ small \in SUBSET (1..k)
    BY <1>0, ListingShape
  <2>3. Kept(policy) \in SUBSET outbox
    BY DEF Kept
  <2>4. Fits(Kept(policy))
    BY <1>0, <2>3, PartFits
  <2> HIDE DEF k
  <2>5. Fits(Kept(policy) \cup queue_accounting(Kept(policy), sequence, owners, small, policy))
    BY <2>2, <2>4, QueueFits
  <2> QED BY <2>1, <2>5, CommandCounts DEF Command, k
<1>3. CASE Save
  BY <1>0, <1>3, CommandCounts DEF Save, Command
<1>4. CASE Import
  <2>1. PICK owners \in Listings(sessions) : \E small \in SUBSET DOMAIN owners :
          LET k == Cardinality(DOMAIN owners)
          IN Command(Ended(owners, small, {}), sequence + Taken(k, settings), {}, settings, startup)
    BY <1>4 DEF Import
  <2>2. {} \in SUBSET (1..1)
    OBVIOUS
  <2>3. \A small \in SUBSET DOMAIN owners : Fits(Ended(owners, small, {}))
    BY <1>0, <2>2, EndedFits
  <2> QED BY <2>1, <2>3, CommandCounts DEF Command
<1>5. CASE Reboot
  <2> DEFINE kept(owners, small, off) == IF startup = settings THEN Ended(owners, small, off) ELSE {}
             top(owners) == sequence + Taken(Cardinality(DOMAIN owners) + 1, settings)
  <2>1. PICK owners \in Listings(sessions) :
          \E small \in SUBSET DOMAIN owners, off, on \in SUBSET (1..1) :
             Command(kept(owners, small, off) \cup Lifecycle(kept(owners, small, off), top(owners), on, startup),
                     top(owners) + Taken(1, startup), {}, startup, startup)
    BY <1>5 DEF Reboot
  <2>2. PICK small \in SUBSET DOMAIN owners, off \in SUBSET (1..1), on \in SUBSET (1..1) :
          Command(kept(owners, small, off) \cup Lifecycle(kept(owners, small, off), top(owners), on, startup),
                  top(owners) + Taken(1, startup), {}, startup, startup)
    BY <2>1
  <2> DEFINE box == kept(owners, small, off)
             more == Lifecycle(box, top(owners), on, startup)
  <2>3. Fits(Ended(owners, small, off)) /\ Fits({})
    BY <1>0, EndedFits, PartFits
  <2>4. Fits(box)
    BY <2>3
  <2>5. Fits(box \cup more)
    <3> HIDE DEF box, kept, top
    <3> QED BY <2>4, LifecycleFits
  <2>6. Command(box \cup more, top(owners) + Taken(1, startup), {}, startup, startup)
    BY <2>2
  <2> HIDE DEF box, top, more, kept
  <2> QED BY <2>5, <2>6, CommandCounts DEF Command
<1> QED BY <1>1, <1>2, <1>3, <1>4, <1>5 DEF Authorize, EndSession, Interim

\* Deliveries keep their slot until service_accounting reaps them.
LEMMA DeliveriesCount ==
    ASSUME IInv, Counted, NEW n \in Number, Deliver(n) \/ RolledBack(n)
    PROVE  Counted'
<1>0. None \notin Active /\ task \in Tables /\ Fits(outbox) /\ None.phase = "none"
  BY DEF None, Active, Over, IInv, TypeOK, Tables, Counted
<1>1. CASE Abandon(n) \/ RolledBack(n) \/ Unreachable(n) \/ Answer(n) \/ Silence(n)
  <2>1. task[n] # None
    BY <1>0, <1>1 DEF Abandon, RolledBack, Unreachable, Answer, Silence
  <2>2. UNCHANGED <<outbox, stored>> /\ \E v : task' = [task EXCEPT ![n] = v]
    BY <1>1 DEF Abandon, RolledBack, Unreachable, Answer, Silence, published
  <2>3. Busy(task') \subseteq Busy(task)
    BY <1>0, <2>1, <2>2 DEF Busy, Tables
  <2> QED BY <2>2, <2>3, QuietCounts
<1>2. ASSUME NEW box, Fits(box), task[n] # None,
             \/ /\ Publish(box, sequence, sessions, settings, startup)
                /\ \E v : task' = [Cancelled(task, box, settings) EXCEPT ![n] = v]
             \/ Uncertain(box, sequence, startup)
      PROVE  Counted'
  <2>1. Fits(outbox') /\ Fits(stored'.outbox)
    BY <1>2, CommandFits DEF Counted
  <2>2. ASSUME NEW v, task' = [Cancelled(task, box, settings) EXCEPT ![n] = v]
        PROVE  Busy(task') \subseteq Busy(task)
    <3> DEFINE after == Cancelled(task, box, settings)
    <3>1. Busy(after) = Busy(task) /\ DOMAIN after = Number
      BY CancelledBusy DEF Cancelled
    <3> HIDE DEF after
    <3>2. task' = [after EXCEPT ![n] = v]
      BY <2>2 DEF after
    <3> QED BY <1>2, <3>1, <3>2 DEF Busy
  <2>3. Busy(task') \subseteq Busy(task)
    BY <1>2, <2>2, UncertainBusy
  <2>4. Cardinality(Busy(task')) <= MaxTasks
    BY <2>3, SlotsKept
  <2> QED BY <2>1, <2>4 DEF Counted
<1>3. CASE Attempt(n)
  <2>1. task[n] # None
    BY <1>0, <1>3 DEF Attempt
  <2> QED BY <1>0, <1>2, <1>3, <2>1 DEF Attempt
<1>4. CASE Result(n)
  <2>1. task[n] # None
    BY <1>4 DEF Result, Over, None
  <2>2. Without(n) \in SUBSET outbox
    BY DEF Without
  <2>3. Fits(Without(n))
    BY <1>0, <2>2, PartFits
  <2> QED BY <1>2, <1>4, <2>1, <2>3 DEF Result
<1> QED BY <1>1, <1>3, <1>4 DEF Deliver

\* The background loop starts tasks in free slots only.
LEMMA LoopCounts ==
    ASSUME IInv, Counted, Service \/ Prune \/ PruneFails \/ ClockChanges
    PROVE  Counted'
<1>0. /\ None \notin Active /\ Done # None /\ Fits(outbox)
      /\ outbox \in SUBSET Record /\ Unique(outbox) /\ MaxTasks \in Nat
      /\ Cardinality(Busy(task)) <= MaxTasks
  BY AccountingAssumption DEF None, Done, Active, Over, IInv, TypeOK, Numbered, Counted
<1>1. CASE PruneFails \/ ClockChanges
  BY <1>1, QuietCounts DEF PruneFails, ClockChanges, published
<1>2. CASE Service
  <2> DEFINE table == IF fault THEN [n \in Number |-> IF Reaped[n] \in Active THEN Done ELSE Reaped[n]]
                      ELSE Cancelled(Reaped, outbox, settings)
  <2>1. Busy(Reaped) \subseteq Busy(task)
    BY DEF Busy, Reaped
  <2>2. Busy([n \in Number |-> IF Reaped[n] \in Active THEN Done ELSE Reaped[n]]) \subseteq Busy(Reaped)
    BY <1>0 DEF Busy
  <2>3. Busy(table) \subseteq Busy(task)
    BY <2>1, <2>2, CancelledBusy
  <2>4. /\ UNCHANGED <<outbox, stored>>
        /\ task' = table \/ task' = StartHeads(table, outbox, settings)
    BY <1>2 DEF Service, published
  <2> HIDE DEF table
  <2>5. Cardinality(Busy(table)) <= MaxTasks
    <3>1. /\ Cardinality(Busy(task)) \in Nat /\ Cardinality(Busy(table)) \in Nat
          /\ Cardinality(Busy(table)) <= Cardinality(Busy(task))
      BY <2>3, BusyCount
    <3> QED BY <1>0, <3>1
  <2>6. Cardinality(Busy(StartHeads(table, outbox, settings))) <= MaxTasks
    BY <1>0, <2>5, StartBounded
  <2>7. Cardinality(Busy(task')) <= MaxTasks
    BY <2>4, <2>5, <2>6
  <2> QED BY <2>4, <2>7 DEF Counted
<1>3. CASE Prune
  <2> DEFINE table == Cancelled(task, Unexpired, settings)
  <2>1. Unexpired \in SUBSET outbox
    BY DEF Unexpired
  <2>2. Fits(Unexpired) /\ Unique(Unexpired) /\ Unexpired \in SUBSET Record
    BY <1>0, <2>1, PartFits DEF Unique
  <2>3. \/ /\ Publish(Unexpired, sequence, sessions, settings, startup)
           /\ task' = StartHeads(table, Unexpired, settings)
        \/ Uncertain(Unexpired, sequence, startup)
    BY <1>3 DEF Prune
  <2>4. Fits(outbox') /\ Fits(stored'.outbox)
    BY <2>2, <2>3, CommandFits DEF Counted
  <2>5. Cardinality(Busy(table)) <= MaxTasks
    BY <1>0, CancelledBusy
  <2> HIDE DEF table
  <2>6. Cardinality(Busy(StartHeads(table, Unexpired, settings))) <= MaxTasks
    BY <2>2, <2>5, StartBounded
  <2>7. Cardinality(Busy(task')) <= MaxTasks
    BY <2>3, <2>6, UncertainBusy, SlotsKept
  <2> QED BY <2>4, <2>7 DEF Counted
<1> QED BY <1>1, <1>2, <1>3

\* Shutdown fills the queue at most; a restart begins with what was stored.
LEMMA EndsCount ==
    ASSUME IInv, Counted, Shutdown \/ Stop \/ Restart
    PROVE  Counted'
<1>0. TypeOK /\ Fits(outbox) /\ Fits(stored.outbox)
  BY DEF IInv, Counted
<1>1. Busy([n \in Number |-> None]) = {}
  BY DEF Busy
<1>2. CASE Shutdown
  <2>1. PICK owners \in Listings(sessions) : \E small \in SUBSET DOMAIN owners, off \in SUBSET (1..1) :
          LET k == Cardinality(DOMAIN owners)
              box == Ended(owners, small, off)
              top == sequence + Taken(k + 1, settings)
          IN \/ /\ Publish(box, top, {}, settings, startup)
                /\ task' = Cancelled(task, box, settings)
             \/ Uncertain(box, top, startup)
    BY <1>2 DEF Shutdown
  <2>2. \A small \in SUBSET DOMAIN owners, off \in SUBSET (1..1) : Fits(Ended(owners, small, off))
    BY <1>0, EndedFits
  <2> QED BY <2>1, <2>2, CommandCounts
<1>3. CASE Stop
  <2>1. UNCHANGED <<outbox, stored>> /\ Busy(task') \subseteq Busy(task)
    BY <1>1, <1>3 DEF Stop, published
  <2> QED BY <2>1, QuietCounts
<1>4. CASE Restart
  <2> DEFINE on(small) == Lifecycle(Restored, stored.sequence, small, stored.startup)
  <2>1. Restored \in SUBSET stored.outbox
    BY DEF Restored
  <2>2. Fits(Restored)
    BY <1>0, <2>1, PartFits
  <2>3. \A small \in SUBSET (1..1) : Fits(Restored \cup on(small))
    BY <2>2, LifecycleFits
  <2> HIDE DEF on
  <2>4. \E small \in SUBSET (1..1) : outbox' = Restored \cup on(small) /\ stored'.outbox = Restored \cup on(small)
    BY <1>4 DEF Restart, Snapshot, on
  <2>5. Busy(task') \subseteq Busy(task)
    BY <1>1, <1>4 DEF Restart
  <2>6. Cardinality(Busy(task')) <= MaxTasks
    BY <2>5, SlotsKept
  <2> QED BY <2>3, <2>4, <2>6 DEF Counted
<1> QED BY <1>2, <1>3, <1>4

\* For any number of sessions that one command ends, whatever sizes records
\* have, through commits of unknown outcome and crashes, neither the outbox nor
\* its stored image has more records than queue_accounting and Engine.__init__
\* admit, and no more deliveries run, or wait to be reaped, than there are
\* slots.  The bytes that both places count as well are no part of this.
THEOREM LimitsHold == Spec => []WithinLimits
<1>1. Init => Counted
  <2> SUFFICES ASSUME Init PROVE Counted
    OBVIOUS
  <2>1. outbox = {} /\ stored.outbox = {} /\ Busy(task) = {}
    BY DEF Init, Snapshot, Busy
  <2>2. Limit \in Nat /\ MaxTasks \in Nat
    BY AccountingAssumption
  <2> QED BY <2>1, <2>2, FS_EmptySet DEF Counted, Fits
<1>2. ASSUME IInv, Counted, [Next]_vars PROVE Counted'
  <2>1. CASE UNCHANGED vars
    BY <1>2, <2>1, QuietCounts DEF vars, published
  <2>2. CASE Next
    BY <1>2, <2>2, CommandsCount, DeliveriesCount, LoopCounts, EndsCount DEF Next
  <2> QED BY <1>2, <2>1, <2>2
<1>3. Counted => WithinLimits
  BY DEF Counted, Fits, Busy, WithinLimits, RecordsBounded, TasksBounded
<1> QED BY <1>1, <1>2, <1>3, Invariance, PTL DEF Spec

=============================================================================
