---------------------------- MODULE DynamicAuth ----------------------------
(***************************************************************************)
(* The RADIUS dynamic authorization receiver (RFC 5176 Disconnect and CoA) *)
(* of switchlab/engine.py: a datagram reserves its fingerprint, a task     *)
(* handles the reservation under the engine lock, and the decision is      *)
(* committed together with its effect in one SQLite transaction.           *)
(*                                                                         *)
(* Time is whole seconds.  The wall clock may be stepped either way; the   *)
(* elapsed clock only moves forward, so instead of its value the model     *)
(* keeps, per request, left[r] = expires_elapsed - elapsed.                *)
(*                                                                         *)
(* `mem' is what the engine holds in memory (_das_cache, _das_high_water,  *)
(* _das_generations, the saved startup policy) and `disk' what SQLite      *)
(* holds.  The running senders need no variable of their own: a generation *)
(* carries the signature of the sender it was minted for.                  *)
(***************************************************************************)
EXTENDS Integers, FiniteSets

CONSTANTS
    Request,     \* datagrams; each has one fingerprint
    timestamp(_),\* its Event-Timestamp
    sender(_),   \* the sender whose address it comes from
    secret(_),   \* the shared secret it verifies under
    disconnect(_), \* a Disconnect-Request, otherwise a CoA-Request
    supported(_),\* plan_dynamic_request accepts its attributes
    Sender,      \* identities of configured senders
    Policy,      \* what an operator may set a sender to: a secret, Disabled or None
    Disabled,    \* the sender is configured but disabled
    Settings,    \* listener endpoints an operator may choose, Off included
    Off,         \* the settings disable the listener
    None,        \* absent value
    Window,      \* seconds of timestamp tolerance (300)
    Capacity,    \* receipts and reservations held at most (4096)
    MaxTime,     \* bound: last value of the wall clock
    MaxMinted,   \* bound: sender generations minted
    MaxEpoch     \* bound: reboots of the simulated switch per process

ASSUME RequestAssumption ==
    \A r \in Request : timestamp(r) \in Nat /\ sender(r) \in Sender

ASSUME BoundsAssumption ==
    /\ Window \in Nat /\ Capacity \in Nat /\ MaxTime \in Nat
    /\ MaxMinted \in Nat /\ MaxEpoch \in Nat

Signature == Policy \ {None}
Binding == Settings \ {Off}
Answer == {"ack", "nak"}

\* A retired reservation has a receipt without a response.
Receipt == [generation : Nat, response : Answer \cup {"silent"}]

Generation == [signature : Signature, number : Nat]

Startup == [senders : [Sender -> Signature \cup {None}],
            binding : Settings]

Image == [receipts : [Request -> Receipt \cup {None}],
          high     : Nat,
          gens     : [Sender -> Generation \cup {None}],
          saved    : Startup]

Reservation == [generation : Nat, epoch : Nat, current : BOOLEAN, done : BOOLEAN]

ASSUME NoneAssumption ==
    /\ None \notin Receipt /\ None \notin Generation /\ None \notin Reservation
    /\ None \notin Settings
    /\ \A r \in Request : secret(r) # Disabled

VARIABLES
    wall,        \* time.time()
    left,        \* elapsed seconds until a reservation or receipt lapses
    foreign,     \* receipts on disk written under another elapsed-clock origin
    mem,         \* published metadata
    disk,        \* committed metadata
    fault,       \* store.fault_reason is latched
    pending,     \* _das_pending: reservation of each request, or None
    epoch,       \* state.epoch
    binding,     \* the running listener settings
    listener,    \* binding of _das_protocol, or None
    opening,     \* binding captured by a reconcile awaiting its endpoint
    closing,     \* _das_closing
    live,        \* a session matching the requests is installed
    minted,      \* sender generations minted so far
    (***********************************************************************)
    (* History, read by the properties only.                               *)
    (***********************************************************************)
    effects,     \* transactions in which the effect of a request took place
    decided,     \* requests that ever had a committed receipt
    barred,      \* requests pending when a boundary retired them
    sent         \* responses that left the switch

clocks  == <<wall, left, foreign>>
stored  == <<mem, disk, fault>>
wiring  == <<binding, listener, opening, closing>>
history == <<effects, decided, barred, sent>>
vars == <<clocks, stored, pending, epoch, wiring, live, minted, history>>

TypeOK ==
    /\ wall \in Nat
    /\ left \in [Request -> Int]
    /\ foreign \subseteq Request
    /\ mem \in Image
    /\ disk \in Image
    /\ fault \in BOOLEAN
    /\ pending \in [Request -> Reservation \cup {None}]
    /\ epoch \in Nat
    /\ binding \in Settings
    /\ listener \in Binding \cup {None}
    /\ opening \in Binding \cup {None}
    /\ closing \in BOOLEAN
    /\ live \in BOOLEAN
    /\ minted \in Nat
    /\ effects \in [Request -> Nat]
    /\ decided \subseteq Request
    /\ barred \subseteq Request
    /\ sent \subseteq (Request \X Answer)

-----------------------------------------------------------------------------
(***************************************************************************)
(* Storage                                                                 *)
(***************************************************************************)

\* How Store.transaction may end: committed, rolled back, or with a latched
\* fault.  A failed rollback leaves nothing on disk; a failed commit with no
\* open transaction is of unknown outcome, so it may have reached the disk.
Outcome == {"ok", "rolled_back", "fault_lost", "fault_kept"}
Reached == {"ok", "fault_kept"}

\* INSERT INTO radius_das refuses a fingerprint that is already there.
Insertable(image) ==
    \A r \in Request :
        \/ image.receipts[r] = disk.receipts[r]
        \/ image.receipts[r] = None
        \/ disk.receipts[r] = None

\* One transaction that ends with outcome o; only "ok" is published.
Transaction(o, image) ==
    /\ ~fault
    /\ o \in Reached => Insertable(image)
    /\ disk' = IF o \in Reached THEN image ELSE disk
    /\ mem' = IF o = "ok" THEN image ELSE mem
    /\ fault' = (o \notin {"ok", "rolled_back"})
    /\ decided' = decided \cup {r \in Request : disk'.receipts[r] # None}
    /\ foreign' = {r \in foreign : disk'.receipts[r] # None}

-----------------------------------------------------------------------------
(***************************************************************************)
(* Clocks and admission                                                    *)
(***************************************************************************)

Lapse(r) == timestamp(r) + Window

\* Mutation: the watermark stops at the expiry instead of just after it.
MutantAfter(r) == Lapse(r)

\* math.nextafter(expires_wall, inf): the first instant strictly after.
After(r) == Lapse(r) + 1

dynamic_clock_safe == wall >= mem.high

InWindow(r) == wall - timestamp(r) <= Window /\ timestamp(r) - wall <= Window

dynamic_expired(r) == wall > Lapse(r) \/ left[r] < 0

dynamic_current == ~closing /\ ~fault /\ listener # None /\ listener = binding

Trusted(r) ==
    /\ mem.gens[sender(r)] # None
    /\ mem.gens[sender(r)].signature = secret(r)

\* Mutation: requests still being handled are not counted.
MutantReserved == {r \in Request : mem.receipts[r] # None}

Reserved == {r \in Request : mem.receipts[r] # None \/ pending[r] # None}

\* The largest mark, as a set with one element.
Highest(marks) == {h \in marks : \A m \in marks : m <= h}

\* The image a transaction writes over the published one.
Metadata(receipts, high, gens) ==
    [receipts |-> receipts, high |-> high, gens |-> gens, saved |-> mem.saved]

\* The receipts after a set of reservations got one without a response.
Retire(retired) ==
    [r \in Request |-> IF r \in retired
                       THEN [generation |-> pending[r].generation, response |-> "silent"]
                       ELSE mem.receipts[r]]

\* Mutation: nothing is written for a reservation that is given up.
MutantUncached(S) == {}

Uncached(S) == {r \in S : pending[r] # None /\ mem.receipts[r] = None}

-----------------------------------------------------------------------------
(***************************************************************************)
(* Receiving                                                               *)
(***************************************************************************)

\* A verified datagram that is neither cached nor pending becomes a reservation.
Reserve(r) ==
    /\ dynamic_current
    /\ Trusted(r)
    /\ dynamic_clock_safe
    /\ InWindow(r)
    /\ mem.receipts[r] = None
    /\ pending[r] = None
    /\ Cardinality(Reserved) < Capacity
    /\ pending' = [pending EXCEPT ![r] = [generation |-> mem.gens[sender(r)].number,
                                          epoch |-> epoch, current |-> TRUE, done |-> FALSE]]
    /\ left' = [left EXCEPT ![r] = IF Lapse(r) >= wall THEN Lapse(r) - wall ELSE 0]
    /\ UNCHANGED <<wall, foreign, stored, epoch, wiring, live, minted, history>>

\* A duplicate of a decided datagram gets the recorded response again.
Resend(r) ==
    /\ dynamic_current
    /\ Trusted(r)
    /\ dynamic_clock_safe
    /\ InWindow(r)
    /\ mem.receipts[r] # None
    /\ mem.receipts[r].generation = mem.gens[sender(r)].number
    /\ ~dynamic_expired(r)
    /\ mem.receipts[r].response \in Answer
    /\ sent' = sent \cup {<<r, mem.receipts[r].response>>}
    /\ UNCHANGED <<clocks, stored, pending, epoch, wiring, live, minted,
                   effects, decided, barred>>

-----------------------------------------------------------------------------
(***************************************************************************)
(* Handling a reservation under the engine lock.  There is no await inside *)
(* the critical section nor between it and the reply.                      *)
(***************************************************************************)

Queued(r) == pending[r] # None /\ ~pending[r].done

\* The task ends; a closing engine keeps the reservation for close_dynamic.
Release(r) ==
    pending' = IF closing THEN [pending EXCEPT ![r].done = TRUE]
                          ELSE [pending EXCEPT ![r] = None]

Keep(r) == pending' = [pending EXCEPT ![r].done = TRUE]

\* _retire_expired_dynamic: the watermark passes the expiry before the
\* reservation may be forgotten.
retire_expired_dynamic(r, o) ==
    \E h \in Highest({mem.high, wall, After(r)}) :
        Transaction(o, Metadata(Retire(Uncached({r})), h, mem.gens))

HandleExpired(r, o) ==
    /\ Queued(r)
    /\ dynamic_expired(r)
    /\ \/ /\ ~fault
          /\ retire_expired_dynamic(r, o)
          /\ IF o = "ok" THEN Release(r) ELSE Keep(r)
       \/ /\ fault
          /\ Keep(r)
          /\ UNCHANGED <<stored, decided, foreign>>
    /\ UNCHANGED <<wall, left, epoch, wiring, live, minted, effects, barred, sent>>

\* The rechecks of _handle_dynamic after it acquired the lock.
Eligible(r) ==
    /\ dynamic_current
    /\ pending[r].current
    /\ mem.gens[sender(r)] # None
    /\ mem.gens[sender(r)].signature # Disabled
    /\ mem.gens[sender(r)].number = pending[r].generation
    /\ epoch = pending[r].epoch
    /\ dynamic_clock_safe
    /\ InWindow(r)

HandleStale(r) ==
    /\ Queued(r)
    /\ ~dynamic_expired(r)
    /\ fault \/ ~Eligible(r) \/ mem.receipts[r] # None
    /\ Release(r)
    /\ UNCHANGED <<clocks, stored, epoch, wiring, live, minted, history>>

\* plan_dynamic_request: refused unless supported and some session matches.
Plan(r) == IF supported(r) /\ live THEN "ack" ELSE "nak"

\* The effect and its receipt commit in one transaction; the reply follows,
\* unless the clocks or the transport prevent it.
Decide(r, o) ==
    /\ Queued(r)
    /\ ~dynamic_expired(r)
    /\ Eligible(r)
    /\ mem.receipts[r] = None
    /\ \E h \in Highest({mem.high, wall}) :
        Transaction(o, Metadata([mem.receipts EXCEPT ![r] =
                [generation |-> pending[r].generation, response |-> Plan(r)]], h, mem.gens))
    /\ live' = IF o = "ok" /\ disconnect(r) /\ Plan(r) = "ack" THEN FALSE ELSE live
    /\ effects' = IF o \in Reached /\ Plan(r) = "ack"
                  THEN [effects EXCEPT ![r] = @ + 1] ELSE effects
    /\ sent' \in IF o = "ok" THEN {sent, sent \cup {<<r, Plan(r)>>}} ELSE {sent}
    /\ Release(r)
    /\ UNCHANGED <<wall, left, epoch, wiring, minted, barred>>

-----------------------------------------------------------------------------
(***************************************************************************)
(* Pruning, one transaction at a time                                      *)
(***************************************************************************)

\* Mutation: reservations whose task has ended are left out.
MutantLapsed(r) == pending[r] # None /\ ~pending[r].done /\ dynamic_expired(r)

Lapsed(r) == pending[r] # None /\ pending[r].done /\ dynamic_expired(r)

\* A reservation whose own retirement failed is retired by prune_dynamic, which
\* looks at the clock once for all of them; here it does for each.
PruneReservation(r, o) ==
    /\ dynamic_clock_safe
    /\ Lapsed(r)
    /\ retire_expired_dynamic(r, o)
    /\ pending' = IF o = "ok" THEN [pending EXCEPT ![r] = None] ELSE pending
    /\ UNCHANGED <<wall, left, epoch, wiring, live, minted, effects, barred, sent>>

\* Expired receipts go, behind a watermark strictly after every expiry.
PruneReceipts(o) ==
    LET expired == {r \in Request : mem.receipts[r] # None /\ dynamic_expired(r)} IN
    /\ dynamic_clock_safe
    /\ \A r \in Request : ~Lapsed(r)
    /\ expired # {}
    /\ \E h \in Highest({mem.high, wall} \cup {After(r) : r \in expired}) :
        Transaction(o, Metadata([r \in Request |-> IF r \in expired THEN None ELSE mem.receipts[r]],
                                h, mem.gens))
    /\ UNCHANGED <<wall, left, pending, epoch, wiring, live, minted, effects, barred, sent>>

-----------------------------------------------------------------------------
(***************************************************************************)
(* Configuration, reboot of the simulated switch, shutdown, restart        *)
(***************************************************************************)

\* _next_dynamic_generations: a sender keeps its generation while its
\* signature stays; a changed or new sender gets a fresh one.
next_dynamic_generations(senders, gens, fresh) ==
    [s \in Sender |->
        IF senders[s] = None THEN None
        ELSE IF gens[s] # None /\ gens[s].signature = senders[s] THEN gens[s]
        ELSE [signature |-> senders[s], number |-> fresh]]

Running == [s \in Sender |-> IF mem.gens[s] = None THEN None ELSE mem.gens[s].signature]

\* Reservations given up: all at a reboot, otherwise those whose sender lost
\* the generation they were received under.
Outdated(gens, reboot) ==
    {r \in Request : /\ pending[r] # None
                     /\ \/ reboot
                        \/ gens[sender(r)] = None
                        \/ gens[sender(r)].number # pending[r].generation}

\* The tail of _execute for a configuration in which the senders are given.
Reconfigure(o, senders, reboot) ==
    LET gens == next_dynamic_generations(senders, mem.gens, minted + 1)
        lost == Outdated(gens, reboot)
    IN /\ minted < MaxMinted \/ gens = mem.gens
       /\ Transaction(o, Metadata(Retire(Uncached(lost)), mem.high, gens))
       /\ minted' = IF gens = mem.gens THEN minted ELSE minted + 1
       /\ barred' = IF o \in Reached THEN barred \cup lost ELSE barred

\* dynamic-sender-save and dynamic-sender-delete.
EditSender(s, signature, o) ==
    /\ signature # Running[s]
    /\ Reconfigure(o, [Running EXCEPT ![s] = signature], FALSE)
    /\ UNCHANGED <<wall, left, pending, epoch, wiring, live, effects, sent>>

\* dynamic-settings.
EditSettings(b, o) ==
    /\ b # binding
    /\ Transaction(o, mem)
    /\ binding' = IF o = "ok" THEN b ELSE binding
    /\ UNCHANGED <<wall, left, pending, epoch, listener, opening, closing, live, minted,
                   effects, barred, sent>>

\* save-startup.
SaveStartup(o) ==
    /\ Transaction(o, [mem EXCEPT !.saved = [senders |-> Running, binding |-> binding]])
    /\ UNCHANGED <<wall, left, pending, epoch, wiring, live, minted, effects, barred, sent>>

\* reboot: the saved policy becomes the running one, every reservation is
\* retired, no session survives.
Reboot(o) ==
    /\ epoch < MaxEpoch
    /\ Reconfigure(o, mem.saved.senders, TRUE)
    /\ IF o = "ok"
       THEN epoch' = epoch + 1 /\ binding' = mem.saved.binding /\ live' = FALSE
       ELSE UNCHANGED <<epoch, binding, live>>
    /\ UNCHANGED <<wall, left, pending, listener, opening, closing, effects, sent>>

\* reconcile_dynamic drops a listener the settings no longer describe, then
\* starts to open one; the endpoint is ready in a later step.  One opening at a
\* time: the background loop and an API command may each be in one, but only one
\* of them gets the address.
Detach(keep) ==
    pending' = IF keep THEN pending
               ELSE [r \in Request |-> IF pending[r] = None THEN None
                                       ELSE [pending[r] EXCEPT !.current = FALSE]]

OpenListener ==
    LET keep == listener # None /\ listener = binding /\ ~closing
        open == ~keep /\ binding # Off /\ ~closing /\ ~fault
    IN /\ opening = None
       /\ (listener # None /\ ~keep) \/ open
       /\ listener' = IF keep THEN listener ELSE None
       /\ opening' = IF open THEN binding ELSE None
       /\ Detach(keep \/ listener = None)
       /\ UNCHANGED <<clocks, stored, epoch, binding, closing, live, minted, history>>

\* After the await the captured binding must still be the configured one.
ListenerReady ==
    /\ opening # None
    /\ opening' = None
    /\ listener' \in {None, IF opening = binding /\ ~closing THEN opening ELSE None}
    /\ UNCHANGED <<clocks, stored, pending, epoch, binding, closing, live, minted, history>>

BeginClose ==
    /\ ~closing
    /\ closing' = TRUE
    /\ UNCHANGED <<clocks, stored, pending, epoch, binding, listener, opening, live, minted,
                   history>>

\* close_dynamic under the lock: reservations are retired on disk before
\* their tasks are cancelled; a failed commit leaves them reserved.
FinishClose(o) ==
    LET held == {r \in Request : pending[r] # None} IN
    /\ closing
    /\ \/ Uncached(held) = {} /\ o = "ok" /\ UNCHANGED <<stored, decided, foreign>>
       \/ /\ Uncached(held) # {}
          /\ Transaction(o, Metadata(Retire(Uncached(held)), mem.high, mem.gens))
    /\ barred' = IF o \in Reached THEN barred \cup held ELSE barred
    /\ IF o = "ok" THEN /\ pending' = [r \in Request |-> None]
                        /\ listener' = None
                   ELSE UNCHANGED <<pending, listener>>
    /\ UNCHANGED <<wall, left, epoch, binding, opening, closing, live, minted, effects, sent>>

\* Engine.__init__ after a crash or a shutdown.  When the host restarted too,
\* the elapsed clock has a new origin and every receipt on disk is foreign:
\* its elapsed deadline is recomputed from the wall clock.
Restart(host) ==
    LET gens  == next_dynamic_generations(disk.saved.senders, disk.gens, minted + 1)
        alien == IF host THEN {r \in Request : disk.receipts[r] # None} ELSE foreign
    IN /\ minted < MaxMinted \/ gens = disk.gens
       /\ minted' = IF gens = disk.gens THEN minted ELSE minted + 1
       /\ disk' = [disk EXCEPT !.gens = gens]
       /\ mem' = disk'
       /\ fault' = FALSE
       /\ foreign' = alien
       /\ left' = [r \in Request |->
                    IF disk.receipts[r] = None THEN 0
                    ELSE IF r \in alien THEN IF Lapse(r) >= wall THEN Lapse(r) - wall ELSE 0
                    ELSE left[r]]
       /\ pending' = [r \in Request |-> None]
       /\ epoch' = 0
       /\ binding' = disk.saved.binding
       /\ listener' = None
       /\ opening' = None
       /\ closing' = FALSE
       /\ live' = FALSE
       /\ UNCHANGED <<wall, history>>

-----------------------------------------------------------------------------
(***************************************************************************)
(* Environment                                                             *)
(***************************************************************************)

\* Time passes on both clocks.
Tick ==
    /\ wall < MaxTime
    /\ wall' = wall + 1
    /\ left' = [r \in Request |-> IF left[r] >= 0 /\ (pending[r] # None \/ disk.receipts[r] # None)
                                  THEN left[r] - 1 ELSE left[r]]
    /\ UNCHANGED <<foreign, stored, pending, epoch, wiring, live, minted, history>>

\* The wall clock is stepped.
Adjust(t) ==
    /\ t # wall
    /\ wall' = t
    /\ UNCHANGED <<left, foreign, stored, pending, epoch, wiring, live, minted, history>>

\* A session is authorized or ends by other means (radius-result, deadlines).
SessionChanges ==
    /\ ~fault
    /\ live' = ~live
    /\ UNCHANGED <<clocks, stored, pending, epoch, wiring, minted, history>>

\* A transaction of another component latches the storage fault.
OtherFault ==
    /\ ~fault
    /\ fault' = TRUE
    /\ UNCHANGED <<clocks, mem, disk, pending, epoch, wiring, live, minted, history>>

Handle(r) == HandleStale(r) \/ \E o \in Outcome : HandleExpired(r, o) \/ Decide(r, o)

\* A fresh store: the first boot has committed default policy (no senders,
\* listener off); the other initial states follow edits saved by an operator.
Init ==
    /\ wall \in 0..MaxTime
    /\ left = [r \in Request |-> 0]
    /\ foreign = {}
    /\ \E senders \in [Sender -> Policy], b \in Settings :
        /\ disk = [receipts |-> [r \in Request |-> None], high |-> 0,
                   gens |-> [s \in Sender |-> IF senders[s] = None THEN None
                                ELSE [signature |-> senders[s], number |-> 1]],
                   saved |-> [senders |-> senders, binding |-> b]]
        /\ binding = b
    /\ mem = disk
    /\ fault = FALSE
    /\ pending = [r \in Request |-> None]
    /\ epoch = 0
    /\ listener = None
    /\ opening = None
    /\ closing = FALSE
    /\ live = FALSE
    /\ minted = 1
    /\ effects = [r \in Request |-> 0]
    /\ decided = {}
    /\ barred = {}
    /\ sent = {}

Next ==
    \/ \E r \in Request : Reserve(r) \/ Resend(r) \/ Handle(r)
    \/ \E r \in Request, o \in Outcome : PruneReservation(r, o)
    \/ \E o \in Outcome : PruneReceipts(o) \/ SaveStartup(o) \/ Reboot(o) \/ FinishClose(o)
    \/ \E s \in Sender, x \in Policy, o \in Outcome : EditSender(s, x, o)
    \/ \E b \in Settings, o \in Outcome : EditSettings(b, o)
    \/ OpenListener \/ ListenerReady \/ BeginClose
    \/ \E host \in BOOLEAN : Restart(host)
    \/ Tick \/ SessionChanges \/ OtherFault
    \/ \E t \in 0..MaxTime : Adjust(t)

Spec == Init /\ [][Next]_vars

\* The event loop runs every handler task; time passes; the background loop
\* prunes every 0.1 s, and storage without a fault does not refuse for ever.
Fairness ==
    /\ \A r \in Request : WF_vars(Handle(r)) /\ SF_vars(PruneReservation(r, "ok"))
    /\ WF_vars(Tick)

FairSpec == Spec /\ Fairness

-----------------------------------------------------------------------------
(***************************************************************************)
(* Properties                                                              *)
(***************************************************************************)

\* The effect of a datagram happens in at most one committed transaction,
\* whatever is retransmitted, pruned, restarted or done to the clocks.
AtMostOnce == \A r \in Request : effects[r] <= 1

\* An ACK leaves the switch only for an effect that is committed, a NAK only
\* for a request that never had one: both duplicates and replies after a
\* restart included.
AnswersAreTrue ==
    \A r \in Request :
        /\ <<r, "ack">> \in sent => effects[r] = 1
        /\ <<r, "nak">> \in sent => effects[r] = 0

\* A committed receipt may only be forgotten behind a committed watermark
\* that lies after the request's last admissible instant.
ForgottenBehindWatermark ==
    \A r \in decided : disk.receipts[r] # None \/ Lapse(r) < disk.high

\* While storage is healthy, memory publishes exactly what is committed; so
\* an insert of a receipt that is not cached never meets one on disk.
PublishedIsCommitted == ~fault => mem = disk

\* Receipts and reservations together respect the limit that radius_decisions
\* enforces when the next process loads them.
WithinCapacity ==
    /\ Cardinality({r \in Request : mem.receipts[r] # None \/ pending[r] # None}) <= Capacity
    /\ Cardinality({r \in Request : disk.receipts[r] # None}) <= Capacity

\* A decision is final: once a receipt was committed (acknowledged, refused
\* or retired), no later step carries out the effect.
DecisionIsFinal ==
    [][\A r \in decided : effects'[r] = effects[r]]_vars

\* A request that was pending when its sender's generation changed, the
\* switch rebooted or the process shut down never takes effect afterwards,
\* not even when the datagram is sent again.
BoundaryBars ==
    [][\A r \in barred : effects'[r] = effects[r]]_vars

\* Once the wall clock stays past the watermark, no reservation is held for
\* ever, not even one whose retirement failed: it ends, unless a storage
\* fault or the shutdown takes over.
ReservationsEnd ==
    <>[]dynamic_clock_safe =>
        \A r \in Request : pending[r] # None ~> (pending[r] = None \/ fault \/ closing)

=============================================================================
