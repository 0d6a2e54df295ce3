---------------------------- MODULE SetRequests ----------------------------
(***************************************************************************)
(* SNMP SET requests in switchlab/snmp.py and snmp_lifetime.py.  A decoded *)
(* SET owns two records of the SNMP library, the message-processing record *)
(* and the security record; a ticket holds both from admission until the   *)
(* response, the expiry, a revocation or the shutdown releases them.  The  *)
(* request waits in a task for the io_lock; then authorization is checked  *)
(* again, and commit, response and release happen in one synchronous step. *)
(*                                                                         *)
(* The engine lock is never held across an await, so it needs no variable; *)
(* the io_lock is held across awaits by an API command that rebinds        *)
(* transports.                                                             *)
(***************************************************************************)
EXTENDS Integers, FiniteSets, Sequences

CONSTANTS
    Request,       \* SET messages
    credential(_), \* the credential a message authenticates with
    Credential,
    None,
    Limit,         \* MAX_PENDING_SETS (128)
    MaxStamp       \* bound: credential generations and activations minted

ASSUME SetAssumption ==
    /\ \A r \in Request : credential(r) \in Credential
    /\ Limit \in Nat \ {0} /\ MaxStamp \in Nat

Stamp == 0..MaxStamp

\* What admission remembers of the authorization.
Grant == [generation : Stamp, activation : Stamp]

ASSUME GrantAssumption == None \notin Grant

Status == {"noError", "error", "commitFailed", "undoFailed"}

VARIABLES
    phase,         \* of the ticket: "new", "queued" or "terminal"
    task,          \* "none", "fresh", "waiting", "cancelled" or "ended"
    mp,            \* requests whose message-processing record exists
    security,      \* requests whose security record exists
    grant,         \* grant of each admitted request
    generation,    \* credential_generations
    activation,
    stamps,        \* stamps minted so far
    io,            \* an API command holds the io_lock across an await
    gate,          \* SNMP is configured and enabled
    incoming,      \* some enabled credential may poll or write
    listening,
    lost,          \* InboundLifetime.error is latched
    closed,        \* the adapter was closed by the shutdown
    fault,         \* store.fault_reason is latched
    (***********************************************************************)
    (* History, read by the properties only.                               *)
    (***********************************************************************)
    touched,       \* requests whose authorization changed since admission
    commits,       \* commits of each request that reached the disk
    published,     \* requests whose commit was published
    responses      \* responses of each request handed to the transport

tickets == <<phase, task, mp, security, grant>>
policy  == <<generation, activation, stamps, gate, incoming>>
adapter == <<io, listening, lost, closed>>
history == <<touched, commits, published, responses>>
vars == <<tickets, policy, adapter, fault, history>>

TypeOK ==
    /\ phase \in [Request -> {"new", "queued", "terminal"}]
    /\ task \in [Request -> {"none", "fresh", "waiting", "cancelled", "ended"}]
    /\ mp \subseteq Request /\ security \subseteq Request
    /\ grant \in [Request -> Grant \cup {None}]
    /\ generation \in [Credential -> Stamp]
    /\ activation \in Stamp /\ stamps \in Stamp
    /\ io \in BOOLEAN /\ gate \in BOOLEAN /\ incoming \in BOOLEAN /\ listening \in BOOLEAN /\ lost \in BOOLEAN
    /\ closed \in BOOLEAN /\ fault \in BOOLEAN
    /\ touched \subseteq Request
    /\ commits \in [Request -> Nat]
    /\ published \subseteq Request
    /\ responses \in [Request -> Seq(Status)]

-----------------------------------------------------------------------------
(***************************************************************************)
(* Tickets                                                                 *)
(***************************************************************************)

\* Mutation: the slot is given up when the ticket ends.
MutantPendingSets == {r \in Request : task[r] # "none" /\ phase[r] = "queued"}

\* pending_sets: from admission until the done callback of the task.
pending_sets == {r \in Request : task[r] # "none"}

\* Mutation: the message-processing record goes, the security record stays.
MutantDiscard(S) ==
    /\ phase' = [r \in Request |-> IF r \in S THEN "terminal" ELSE phase[r]]
    /\ mp' = mp \ S
    /\ security' = security
    /\ lost' = (lost \/ \E r \in S : phase[r] = "queued" /\ r \in mp \ security)

\* InboundLifetime.discard of several tickets: both records are released; a
\* queued ticket that lost its security record latches the error.
Discard(S) ==
    /\ phase' = [r \in Request |-> IF r \in S THEN "terminal" ELSE phase[r]]
    /\ mp' = mp \ S
    /\ security' = security \ S
    /\ lost' = (lost \/ \E r \in S : phase[r] = "queued" /\ r \in mp \ security)

\* SnmpAdapter.close: every request is cancelled, every record drained.
CloseTickets ==
    /\ phase' = [r \in Request |-> IF r \in pending_sets THEN "terminal" ELSE phase[r]]
    /\ task' = [r \in Request |-> IF task[r] \in {"fresh", "waiting"} THEN "cancelled"
                                  ELSE task[r]]
    /\ mp' = {}
    /\ security' = {}

\* Mutation: only the activation is compared again.
mutant_current_set(r) ==
    grant[r].activation = activation /\ ~fault /\ listening /\ gate

\* _current_set: the authorization is the one of the admission, and SNMP
\* still serves writes.
current_set(r) ==
    /\ grant[r].activation = activation
    /\ grant[r].generation = generation[credential(r)]
    /\ ~fault /\ listening /\ gate

\* ready: the ticket is queued and owns both records.
ready(r) == phase[r] = "queued" /\ r \in mp \cap security

-----------------------------------------------------------------------------
(***************************************************************************)
(* Admission, in the receive callback of the library                       *)
(***************************************************************************)

\* A new SET is admitted; its records were pushed before the callback.
admit_set(r) ==
    /\ phase[r] = "new"
    /\ listening /\ gate /\ ~fault /\ ~lost /\ ~closed
    /\ Cardinality(pending_sets) < Limit
    /\ phase' = [phase EXCEPT ![r] = "queued"]
    /\ task' = [task EXCEPT ![r] = "fresh"]
    /\ mp' = mp \cup {r}
    /\ security' = security \cup {r}
    /\ grant' = [grant EXCEPT ![r] = [generation |-> generation[credential(r)],
                                      activation |-> activation]]
    /\ UNCHANGED <<policy, adapter, fault, history>>

\* Or dropped: overload, a latched fault or lost response ownership.  A SET
\* without an authorized identity is dropped always, and is no request here.
Refuse(r) ==
    /\ phase[r] = "new"
    /\ listening /\ ~closed
    /\ fault \/ lost \/ Cardinality(pending_sets) >= Limit
    /\ phase' = [phase EXCEPT ![r] = "terminal"]
    /\ UNCHANGED <<task, mp, security, grant, policy, adapter, fault, history>>

\* The library expires a record at its own timer, outside every lock.
Expire(r) ==
    /\ r \in mp
    /\ ~closed
    /\ Discard({r})
    /\ UNCHANGED <<task, grant, policy, io, listening, closed, fault, history>>

\* The library loses the security record of a queued request.
Lose(r) ==
    /\ phase[r] = "queued"
    /\ r \in security
    /\ security' = security \ {r}
    /\ UNCHANGED <<phase, task, mp, grant, policy, adapter, fault, history>>

-----------------------------------------------------------------------------
(***************************************************************************)
(* The task of a request                                                   *)
(***************************************************************************)

\* The task finds the io_lock taken.
Wait(r) ==
    /\ task[r] = "fresh"
    /\ phase[r] = "queued"
    /\ io
    /\ task' = [task EXCEPT ![r] = "waiting"]
    /\ UNCHANGED <<phase, mp, security, grant, policy, adapter, fault, history>>

\* The ticket ended before the task first ran, or the task was cancelled.
Stop(r) ==
    /\ \/ task[r] = "cancelled"
       \/ task[r] = "fresh" /\ phase[r] = "terminal"
    /\ task' = [task EXCEPT ![r] = "ended"]
    /\ UNCHANGED <<phase, mp, security, grant, policy, adapter, fault, history>>

\* Mutation: a task whose ticket expired while it waited is not woken.
MutantTurn(r) == ~io /\ task[r] \in {"fresh", "waiting"} /\ phase[r] = "queued"

\* The task holds both locks.
Turn(r) ==
    /\ ~io
    /\ \/ task[r] = "waiting"
       \/ task[r] = "fresh" /\ phase[r] = "queued"

\* Under the locks the authorization is gone, or the ticket is.
Reject(r) ==
    /\ Turn(r)
    /\ ~(current_set(r) /\ ready(r))
    /\ task' = [task EXCEPT ![r] = "ended"]
    /\ Discard({r})
    /\ UNCHANGED <<grant, policy, io, listening, closed, fault, history>>

\* How commit_set_locked may end.  A failed rollback answers undoFailed, an
\* unknown commit answers nothing.
Outcome == {"ok", "rolled_back", "undo_failed", "unknown_lost", "unknown_kept"}

\* Mutation: an unknown commit is answered like a rollback.
MutantAnswer(o) == IF o = "ok" THEN "noError" ELSE "commitFailed"

Answer(o) ==
    CASE o = "ok" -> "noError"
      [] o = "rolled_back" -> "commitFailed"
      [] o = "undo_failed" -> "undoFailed"
      [] OTHER -> "none"

\* The transport may fail after the commit: the change stays.
Respond(r, status) ==
    responses' \in IF status = "none" THEN {responses}
                   ELSE {responses, [responses EXCEPT ![r] = Append(@, status)]}

\* complete: claim, commit, respond and release without an await.
Complete(r, o) ==
    /\ Turn(r)
    /\ current_set(r) /\ ready(r)
    /\ commits' = IF o \in {"ok", "unknown_kept"} THEN [commits EXCEPT ![r] = @ + 1] ELSE commits
    /\ published' = IF o = "ok" THEN published \cup {r} ELSE published
    /\ fault' = (o \notin {"ok", "rolled_back"})
    /\ Respond(r, Answer(o))
    /\ Discard({r})
    /\ task' = [task EXCEPT ![r] = "ended"]
    /\ UNCHANGED <<grant, policy, io, listening, closed, touched>>

\* A request that is refused by its plan, its size or its view, or that
\* changes nothing, only answers.
AnswerOnly(r, status) ==
    /\ Turn(r)
    /\ current_set(r) /\ ready(r)
    /\ Respond(r, status)
    /\ Discard({r})
    /\ task' = [task EXCEPT ![r] = "ended"]
    /\ UNCHANGED <<grant, policy, io, listening, closed, fault, touched, commits, published>>

\* _set_done, one turn of the event loop after the task ended.
set_done(r) ==
    /\ task[r] = "ended"
    /\ task' = [task EXCEPT ![r] = "none"]
    /\ UNCHANGED <<phase, mp, security, grant, policy, adapter, fault, history>>

-----------------------------------------------------------------------------
(***************************************************************************)
(* API commands.  The commit and the synchronous start of _reconcile, which *)
(* retires the requests that lost their authorization, are one step.        *)
(***************************************************************************)

\* _cancel_set for several requests.
Cancel(S) ==
    /\ Discard(S)
    /\ task' = [r \in Request |-> IF r \in S /\ task[r] \in {"fresh", "waiting"} THEN "cancelled"
                                  ELSE task[r]]

\* _retire_stale_sets after the change: what is no longer current is cancelled.
Stale == {r \in pending_sets : ~current_set(r)'}

\* A credential, its group policy or its view changes: a new generation.  The
\* listener goes when no enabled policy is left (i is FALSE), and when the
\* error is latched and all that is left are writers.  Transports may be
\* opened under the io_lock.
EditCredential(c, i) ==
    /\ ~io /\ ~closed /\ ~fault
    /\ stamps < MaxStamp
    /\ stamps' = stamps + 1
    /\ generation' = [generation EXCEPT ![c] = stamps + 1]
    /\ incoming' = i
    /\ listening' \in IF lost THEN {FALSE, listening /\ i} ELSE {listening /\ i}
    /\ io' \in IF i /\ gate /\ ~listening /\ ~lost THEN {TRUE}
               ELSE IF gate THEN BOOLEAN ELSE {FALSE}
    /\ UNCHANGED <<grant, activation, gate, fault>>
    /\ Cancel(IF listening' THEN Stale ELSE pending_sets)
    /\ touched' = touched \cup {r \in pending_sets : credential(r) = c}
    /\ UNCHANGED <<closed, commits, published, responses>>

\* SNMP settings or the identity change: a new activation; the listener is
\* bound again under the io_lock, or stays closed when SNMP is disabled now.
\* Whatever the edit, it listens no more while the lock is held; the code keeps
\* a listener whose address is the same.
EditSettings(g) ==
    /\ ~io /\ ~closed /\ ~fault
    /\ stamps < MaxStamp
    /\ stamps' = stamps + 1
    /\ activation' = stamps + 1
    /\ gate' = g
    /\ io' \in IF g THEN BOOLEAN ELSE {FALSE}
    /\ listening' \in IF lost THEN {FALSE, g /\ listening /\ ~io'} ELSE {g /\ listening /\ ~io'}
    /\ UNCHANGED <<grant, generation, incoming, fault>>
    /\ Cancel(IF listening' THEN Stale ELSE pending_sets)
    /\ touched' = touched \cup pending_sets
    /\ UNCHANGED <<closed, commits, published, responses>>

\* reboot: everything is revoked, the adapter closes and starts again with a
\* new SNMP engine, unless the boot counter cannot be stored.
Reboot ==
    /\ ~io /\ ~closed /\ ~fault
    /\ stamps < MaxStamp
    /\ stamps' = stamps + 1
    /\ activation' = stamps + 1
    /\ generation' = [c \in Credential |-> stamps + 1]
    /\ CloseTickets
    /\ touched' = touched \cup pending_sets
    /\ lost' = FALSE
    /\ listening' = FALSE
    /\ \/ io' = (gate /\ incoming) /\ fault' = FALSE
       \/ gate /\ io' = FALSE /\ fault' \in BOOLEAN
    /\ UNCHANGED <<grant, gate, incoming, closed, commits, published, responses>>

\* The command ends its reconciliation; the bind may have failed.
Rebound ==
    /\ io
    /\ io' = FALSE
    /\ listening' \in IF listening THEN {TRUE} ELSE {gate /\ incoming /\ ~closed, FALSE}
    /\ UNCHANGED <<tickets, policy, lost, closed, fault, history>>

\* A later command finds the listener missing and binds again.
Reconcile ==
    /\ ~io /\ ~closed /\ ~fault /\ gate /\ incoming /\ ~listening
    /\ io' = TRUE
    /\ UNCHANGED <<tickets, policy, listening, lost, closed, fault, history>>

\* A transaction of another component latches the storage fault.
OtherFault ==
    /\ ~fault
    /\ fault' = TRUE
    /\ UNCHANGED <<tickets, policy, adapter, history>>

\* SnmpAdapter.close at the shutdown, outside the io_lock.
Close ==
    /\ ~closed
    /\ closed' = TRUE
    /\ listening' = FALSE
    /\ CloseTickets
    /\ UNCHANGED <<grant, policy, io, lost, fault, history>>

Init ==
    /\ phase = [r \in Request |-> "new"]
    /\ task = [r \in Request |-> "none"]
    /\ mp = {} /\ security = {}
    /\ grant = [r \in Request |-> None]
    /\ generation = [c \in Credential |-> 0]
    /\ activation = 0 /\ stamps = 0
    /\ io = FALSE
    /\ gate \in BOOLEAN
    /\ incoming \in BOOLEAN
    /\ listening = (gate /\ incoming)
    /\ lost = FALSE /\ closed = FALSE /\ fault = FALSE
    /\ touched = {}
    /\ commits = [r \in Request |-> 0]
    /\ published = {}
    /\ responses = [r \in Request |-> <<>>]

Run(r) ==
    \/ Wait(r) \/ Stop(r) \/ Reject(r) \/ set_done(r)
    \/ \E o \in Outcome : Complete(r, o)
    \/ \E s \in {"noError", "error"} : AnswerOnly(r, s)

Next ==
    \/ \E r \in Request : admit_set(r) \/ Refuse(r) \/ Expire(r) \/ Lose(r) \/ Run(r)
    \/ \E c \in Credential, i \in BOOLEAN : EditCredential(c, i)
    \/ \E g \in BOOLEAN : EditSettings(g)
    \/ Reboot \/ Rebound \/ Reconcile \/ OtherFault \/ Close

Spec == Init /\ [][Next]_vars

\* The event loop runs every task and every callback, and the bind that an
\* API command awaits completes or fails.
Fairness == WF_vars(Rebound) /\ \A r \in Request : WF_vars(Run(r))

FairSpec == Spec /\ Fairness

-----------------------------------------------------------------------------
(***************************************************************************)
(* Properties                                                              *)
(***************************************************************************)

\* A request never commits once the credential, group policy, view, SNMP
\* setting or boot it was admitted under has changed, not even when the
\* change was undone before the request got its turn.
NoCommitAfterChange == [][\A r \in touched : commits'[r] = commits[r]]_vars

\* The response tells what happened: a request whose change is on disk was
\* answered noError, and then its change is published, or not at all; one
\* answered commitFailed or undoFailed left nothing; nobody is answered or
\* committed twice.
ResponsesAreTrue ==
    \A r \in Request :
        /\ commits[r] <= 1 /\ Len(responses[r]) <= 1
        /\ commits[r] = 1 /\ responses[r] # <<>> =>
            responses[r] = <<"noError">> /\ r \in published

\* No record outlives its ticket and no security record outlives the
\* message-processing record that names it: nothing leaks at expiry,
\* revocation, rejection or close.
NothingLeaks ==
    /\ security \subseteq mp
    /\ \A r \in mp : phase[r] = "queued" /\ task[r] \in {"fresh", "waiting"}

\* The bound on queued requests counts tasks that still hold their memory,
\* also after the ticket has expired.
WithinLimit == Cardinality({r \in Request : task[r] # "none"}) <= Limit

\* Every admitted request leaves the queue with its records released.
RequestsEnd ==
    \A r \in Request : phase[r] = "queued" ~> (phase[r] = "terminal" /\ task[r] = "none")

=============================================================================
