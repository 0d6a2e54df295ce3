-------------------------- MODULE AccountingQueue --------------------------
(***************************************************************************)
(* What the accounting outbox of switchlab/engine.py promises to the       *)
(* collectors: numbered records of sessions, and of the switch itself (its *)
(* On and Off records), of which each may be put on the wire only while it *)
(* is queued and everything that must precede it has left the queue.       *)
(* How records are chosen, retried, dropped and stored is Accounting's     *)
(* business; it implements this specification.                             *)
(***************************************************************************)
EXTENDS Integers

CONSTANTS
    Session,       \* accounting segments
    Nas            \* the owner of On and Off records, "nas-lifecycle"

Owner == Session \cup {Nas}

VARIABLES
    queue,         \* records that wait
    top,           \* greatest number given out
    last           \* per owner: the number it last put on the wire, or 0

queueVars == <<queue, top, last>>

QueueTypeOK ==
    /\ queue \subseteq [n : Nat, owner : Owner]
    /\ top \in Nat
    /\ last \in [Owner -> Nat]

\* Only the first record of a session may be sent, nothing passes an On or
\* Off record, and such a record passes nothing.
Eligible(r) ==
    \A q \in queue : q.n < r.n => q.owner # r.owner /\ Nas \notin {q.owner, r.owner}

Transmit(r) ==
    /\ r \in queue
    /\ Eligible(r)
    /\ last' = [last EXCEPT ![r.owner] = r.n]
    /\ UNCHANGED <<queue, top>>

\* Records leave, and records with new numbers join.
Change ==
    /\ queue' \subseteq [n : Nat, owner : Owner]
    /\ top' \in Nat /\ top <= top'
    /\ \A r \in queue' : r \in queue \/ (top < r.n /\ r.n <= top')
    /\ UNCHANGED last

QueueInit ==
    /\ top \in Nat
    /\ queue \subseteq [n : 1..top, owner : Owner]
    /\ last = [o \in Owner |-> 0]

QueueNext == Change \/ \E r \in queue : Transmit(r)

QueueSpec == QueueInit /\ [][QueueNext]_queueVars

-----------------------------------------------------------------------------
(***************************************************************************)
(* Properties                                                              *)
(***************************************************************************)

\* What the collectors see of one session never goes back: whatever still
\* waits is at least as new as the record its session last sent.
SessionsInOrder == \A r \in queue : last[r.owner] <= r.n

\* On and Off records separate what came before them from what comes after:
\* once one was sent nothing older waits, and while one waits nothing newer
\* was sent.
BarriersHold ==
    /\ \A r \in queue : last[Nas] <= r.n
    /\ \A r \in queue : r.owner = Nas => \A o \in Owner : last[o] <= r.n

=============================================================================
