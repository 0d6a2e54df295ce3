------------------------------ MODULE Commands ------------------------------
(***************************************************************************)
(* The command processor of switchlab/engine.py over the SQLite store of   *)
(* switchlab/storage.py: a command is applied to a copy of the state, the  *)
(* copy is committed in one transaction and only then published.           *)
(*                                                                         *)
(* The configuration is split in two.  The lab (port inventory, interface  *)
(* numbers, hardware) is durable with every command; the switch policy is  *)
(* running state until it is saved as the startup policy, and a reboot or  *)
(* a restart composes the saved policy with the current lab.  A port is    *)
(* represented by its interface number.                                    *)
(*                                                                         *)
(* Commands may carry an idempotency key and the revision their client     *)
(* has last seen; a client may retry a command at any time, also after a   *)
(* failure whose outcome it does not know and after a restart.             *)
(***************************************************************************)
EXTENDS Integers, Sequences, FiniteSets

CONSTANTS
    Key,           \* idempotency keys
    NoKey,         \* the command carries none
    Value,         \* settings of a port, of the switch and of the hardware
    Default,       \* the setting of a fresh port
    MaxPorts,      \* live ports at most (256)
    Keep,          \* idempotency entries kept (256)
    MaxNumber,     \* bound: interface numbers handed out
    MaxRevision    \* bound: revisions

ASSUME ValueAssumption == Default \in Value /\ NoKey \notin Key

ASSUME LimitsAssumption ==
    MaxPorts \in Nat /\ Keep \in Nat \ {0} /\ MaxNumber \in Nat /\ MaxRevision \in Nat

Number == 1..MaxNumber

\* A command with its body: action, port, value.
Command ==
    ({"port-edit"} \X Number \X Value)
        \cup ({"switch-edit", "lab-edit"} \X {0} \X Value)
        \cup ({"port-delete"} \X Number \X {Default})
        \cup ({"port-create", "save-startup", "reboot", "advance"} \X {0} \X {Default})

Basis == {"none", "revision", "configuration"}

Lab == [ports : SUBSET Number, next : Nat, hardware : Value]

\* The policy of a set of ports and of the switch.
PolicyOf(ports) == [ports : [ports -> Value], switch : Value]
Policy == UNION {PolicyOf(ports) : ports \in SUBSET Number}

\* What a keyed command left behind; incarnation 0 means it is not scoped.
Entry == [key : Key, command : Command, incarnation : Nat]

VARIABLES
    up,            \* the process runs
    fault,         \* store.fault_reason is latched
    lab,           \* published lab part of the configuration
    policy,        \* published policy part
    startup,       \* published copy of the saved policy
    dirty,         \* configuration_dirty
    revision,
    configuration_revision,
    incarnation,   \* configuration_incarnation
    idempotency,   \* entries in order of insertion
    disk,          \* what SQLite holds
    seen,          \* the snapshot a client last read
    (***********************************************************************)
    (* History, read by the properties only.                               *)
    (***********************************************************************)
    minted,        \* incarnations minted so far
    handed,        \* interface numbers that were ever committed
    newer,         \* per key: keyed commits since its own last commit, or -1
    volatile,      \* keys whose commit changed the running policy
    inforce,       \* keys whose change is part of the running policy
    insaved,       \* keys whose change is part of the policy on disk
    twice,         \* keys applied again while their entry should be held
    misled         \* keys whose replay was answered for a change that is gone

published == <<lab, policy, startup, dirty, revision, configuration_revision, incarnation,
               idempotency>>
history == <<minted, handed, newer, volatile, inforce, insaved, twice, misled>>
vars == <<up, fault, published, disk, seen, history>>

Image == [lab : Lab, startup : Policy, revision : Nat, configuration_revision : Nat,
          idempotency : Seq(Entry)]

Snapshot == [lab : Lab, policy : Policy, revision : Nat, configuration_revision : Nat]

TypeOK ==
    /\ up \in BOOLEAN /\ fault \in BOOLEAN /\ dirty \in BOOLEAN
    /\ lab \in Lab
    /\ policy \in Policy
    /\ startup \in Policy
    /\ revision \in Nat
    /\ configuration_revision \in Nat
    /\ incarnation \in Nat
    /\ idempotency \in Seq(Entry)
    /\ disk \in Image
    /\ seen \in Snapshot
    /\ minted \in Nat
    /\ handed \subseteq Number
    /\ newer \in [Key -> Int]
    /\ volatile \subseteq Key /\ inforce \subseteq Key /\ insaved \subseteq Key
    /\ twice \subseteq Key /\ misled \subseteq Key

-----------------------------------------------------------------------------
(***************************************************************************)
(* The startup policy                                                      *)
(***************************************************************************)

\* Only exact port ids select saved policy; other ports get the default.
reconciled_startup(saved, ports) ==
    [ports  |-> [p \in ports |-> IF p \in DOMAIN saved.ports THEN saved.ports[p] ELSE Default],
     switch |-> saved.switch]

\* Mutation: removing a port leaves the stored policy alone.
MutantSaving == {"save-startup", "port-create"}

Saving == {"save-startup", "port-create", "port-delete"}

\* Mutation: adding or removing a port saves the whole running policy.
mutant_next_startup(c, p, ports) ==
    IF c[1] \in Saving THEN p ELSE startup

\* The startup policy a command leaves, given the running policy after it.
next_startup(c, p, ports) ==
    CASE c[1] = "save-startup" -> p
      [] c[1] \in {"port-create", "port-delete"} -> reconciled_startup(startup, ports)
      [] OTHER -> startup

-----------------------------------------------------------------------------
(***************************************************************************)
(* Applying a command                                                      *)
(***************************************************************************)

\* Mutation: reboot is taken for a command that leaves the configuration.
mutant_durable(c) == c[1] \notin {"advance", "reboot"}

durable(c) == c[1] # "advance"

\* Checks of _apply: unknown resources and limits refuse the command.
Accepted(c) ==
    /\ c[1] \in {"port-edit", "port-delete"} => c[2] \in lab.ports
    /\ c[1] = "port-create" => Cardinality(lab.ports) < MaxPorts /\ lab.next <= MaxNumber

\* Mutation: a new port takes the first number that is free now.
MutantAllocate == CHOOSE n \in Number : n \notin lab.ports /\ \A m \in 1..(n - 1) : m \in lab.ports

\* The allocator is part of the durable lab and only moves forward.
Allocate == lab.next

NextLab(c) ==
    CASE c[1] = "port-create" -> [ports |-> lab.ports \cup {Allocate}, next |-> Allocate + 1,
                                  hardware |-> lab.hardware]
      [] c[1] = "port-delete" -> [ports |-> lab.ports \ {c[2]}, next |-> lab.next,
                                  hardware |-> lab.hardware]
      [] c[1] \in {"switch-edit", "lab-edit"} ->
            [ports |-> lab.ports, next |-> lab.next, hardware |-> c[3]]
      [] OTHER -> lab

NextPolicy(c) ==
    CASE c[1] = "port-edit" -> [ports |-> [policy.ports EXCEPT ![c[2]] = c[3]], switch |-> policy.switch]
      [] c[1] = "switch-edit" -> [ports |-> policy.ports, switch |-> c[3]]
      [] c[1] = "reboot" -> reconciled_startup(startup, lab.ports)
      [] c[1] \in {"port-create", "port-delete"} -> reconciled_startup(policy, NextLab(c).ports)
      [] OTHER -> policy

\* Mutation: the flag compares with the startup policy as it was stored.
MutantDirty(c, p, saved, ports) == IF durable(c) THEN p # startup ELSE dirty

Dirty(c, p, saved, ports) ==
    IF durable(c) THEN p # reconciled_startup(saved, ports) ELSE dirty

-----------------------------------------------------------------------------
(***************************************************************************)
(* Idempotency                                                             *)
(***************************************************************************)

Recorded(k) == {i \in 1..Len(idempotency) : idempotency[i].key = k}

\* The command changes the running policy and does not save it.
ChangesRunning(c) == c[1] \notin Saving \cup {"reboot"} /\ NextPolicy(c) # policy

\* Such a command is tied to the incarnation of the running configuration.
Scope(c) == IF ChangesRunning(c) THEN incarnation ELSE 0

\* Only the last entries are kept.
Trim(entries) ==
    SubSeq(entries, IF Len(entries) > Keep THEN Len(entries) - Keep + 1 ELSE 1, Len(entries))

NextEntries(c, k) ==
    IF k = NoKey THEN idempotency
    ELSE Trim(Append(idempotency, [key |-> k, command |-> c, incarnation |-> Scope(c)]))

-----------------------------------------------------------------------------
(***************************************************************************)
(* Transactions                                                            *)
(***************************************************************************)

\* Committed, rolled back, or ended with a latched fault: a failed rollback
\* leaves nothing, a commit of unknown outcome may have reached the disk.
Outcome == {"ok", "rolled_back", "fault_lost", "fault_kept"}
Reached == {"ok", "fault_kept"}

\* What Store.commit writes: the lab of a durable command, the startup policy
\* of a saving one, revisions and bookkeeping always.
Written(c, k) ==
    [lab |-> IF durable(c) THEN NextLab(c) ELSE disk.lab,
     startup |-> IF c[1] \in Saving THEN next_startup(c, NextPolicy(c), NextLab(c).ports)
                 ELSE disk.startup,
     revision |-> revision + 1,
     configuration_revision |-> IF durable(c) THEN configuration_revision + 1
                                ELSE configuration_revision,
     idempotency |-> NextEntries(c, k)]

\* The revision checks of the client's request.
Current(basis) ==
    /\ basis = "revision" => seen.revision = revision
    /\ basis = "configuration" => seen.configuration_revision = configuration_revision

\* What the history remembers of a transaction that reached the disk.
Remember(c, k) ==
    /\ handed' = handed \cup disk'.lab.ports
    /\ newer' = [j \in Key |-> IF j = k THEN 0
                               ELSE IF k # NoKey /\ newer[j] \in 0..(Keep - 1) THEN newer[j] + 1
                               ELSE newer[j]]
    /\ volatile' = IF k = NoKey THEN volatile
                   ELSE IF ChangesRunning(c) THEN volatile \cup {k} ELSE volatile \ {k}
    /\ insaved' = IF c[1] = "save-startup" THEN inforce ELSE insaved
    /\ twice' = IF k # NoKey /\ newer[k] \in 0..(Keep - 1) THEN twice \cup {k} ELSE twice

Publish(c, k) ==
    /\ lab' = NextLab(c)
    /\ policy' = NextPolicy(c)
    /\ startup' = next_startup(c, NextPolicy(c), NextLab(c).ports)
    /\ dirty' = Dirty(c, policy', startup', lab'.ports)
    /\ revision' = revision + 1
    /\ configuration_revision' = disk'.configuration_revision
    /\ idempotency' = NextEntries(c, k)
    /\ incarnation' = IF c[1] = "reboot" THEN minted + 1 ELSE incarnation
    /\ minted' = IF c[1] = "reboot" THEN minted + 1 ELSE minted
    /\ inforce' = IF c[1] = "reboot" THEN insaved'
                  ELSE IF k # NoKey /\ ChangesRunning(c) THEN inforce \cup {k} ELSE inforce

\* Engine._execute of a command that is not answered from its key.
Execute(c, k, basis, o) ==
    /\ up /\ ~fault
    /\ Recorded(k) = {}
    /\ Current(basis)
    /\ Accepted(c)
    /\ revision < MaxRevision
    /\ IF o \in Reached THEN disk' = Written(c, k) /\ Remember(c, k)
                        ELSE UNCHANGED <<disk, handed, newer, volatile, insaved, twice>>
    /\ IF o = "ok" THEN Publish(c, k) ELSE UNCHANGED <<published, minted, inforce>>
    /\ fault' = (o \notin {"ok", "rolled_back"})
    /\ UNCHANGED <<up, seen, misled>>

\* Mutation: the scope of an entry is not compared.
MutantReplayable(e, c) == e.command = c

\* A known key is answered from its entry when the command is the same and
\* the running configuration is still the one it changed.
Replayable(e, c) == e.command = c /\ e.incarnation \in {0, incarnation}

Replay(c, k) ==
    /\ up /\ ~fault
    /\ \E i \in Recorded(k) :
        /\ Replayable(idempotency[i], c)
        /\ misled' = IF k \in volatile \ inforce THEN misled \cup {k} ELSE misled
    /\ UNCHANGED <<up, fault, published, disk, seen, minted, handed, newer, volatile, inforce,
                   insaved, twice>>

\* A client reads the published state; it stays readable during a fault.
Read ==
    /\ up
    /\ seen' = [lab |-> lab, policy |-> policy, revision |-> revision,
                configuration_revision |-> configuration_revision]
    /\ UNCHANGED <<up, fault, published, disk, history>>

-----------------------------------------------------------------------------
(***************************************************************************)
(* The process                                                             *)
(***************************************************************************)

Crash ==
    /\ up
    /\ up' = FALSE
    /\ UNCHANGED <<fault, published, disk, seen, history>>

\* Engine.__init__ with a new Store: the saved policy on the current lab; the
\* boot itself is committed before the state is published.
Boot(o) ==
    /\ ~up
    /\ disk.revision < MaxRevision
    /\ disk' = IF o \in Reached
               THEN [lab |-> disk.lab, startup |-> disk.startup, revision |-> disk.revision + 1,
                     configuration_revision |-> disk.configuration_revision + 1,
                     idempotency |-> disk.idempotency]
               ELSE disk
    /\ fault' = FALSE
    /\ IF o = "ok"
       THEN /\ up' = TRUE
            /\ lab' = disk.lab
            /\ policy' = reconciled_startup(disk.startup, disk.lab.ports)
            /\ startup' = policy'
            /\ dirty' = FALSE
            /\ revision' = disk'.revision
            /\ configuration_revision' = disk'.configuration_revision
            /\ incarnation' = minted + 1
            /\ minted' = minted + 1
            /\ idempotency' = disk.idempotency
            /\ inforce' = insaved
       ELSE UNCHANGED <<up, published, minted, inforce>>
    /\ UNCHANGED <<seen, handed, newer, volatile, insaved, twice, misled>>

\* The initial configuration of a new database, not yet booted.
Init ==
    /\ up = FALSE
    /\ fault = FALSE
    /\ \E n \in 0..MaxNumber :
        lab = [ports |-> 1..n, next |-> n + 1, hardware |-> Default] /\ n <= MaxPorts
    /\ policy = [ports |-> [p \in lab.ports |-> Default], switch |-> Default]
    /\ startup = policy
    /\ dirty = FALSE
    /\ revision = 0
    /\ configuration_revision = 0
    /\ incarnation = 0
    /\ idempotency = <<>>
    /\ disk = [lab |-> lab, startup |-> policy, revision |-> 0, configuration_revision |-> 0,
               idempotency |-> <<>>]
    /\ seen = [lab |-> lab, policy |-> policy, revision |-> 0, configuration_revision |-> 0]
    /\ minted = 0
    /\ handed = lab.ports
    /\ newer = [k \in Key |-> -1]
    /\ volatile = {} /\ inforce = {} /\ insaved = {} /\ twice = {} /\ misled = {}

Next ==
    \/ \E c \in Command, k \in Key \cup {NoKey}, b \in Basis, o \in Outcome : Execute(c, k, b, o)
    \/ \E c \in Command, k \in Key : Replay(c, k)
    \/ Read \/ Crash
    \/ \E o \in Outcome : Boot(o)

Spec == Init /\ [][Next]_vars

-----------------------------------------------------------------------------
(***************************************************************************)
(* Properties                                                              *)
(***************************************************************************)

\* Optimistic concurrency is sound, also across faults and restarts: a client
\* whose revision is accepted saw exactly the state its command applies to,
\* and one whose configuration revision is accepted saw that configuration.
RevisionIdentifiesState ==
    up => /\ seen.revision = revision => seen.lab = lab /\ seen.policy = policy
          /\ seen.configuration_revision = configuration_revision =>
                seen.lab = lab /\ seen.policy = policy

\* The unsaved-changes flag is exact after every command: it is set just when
\* a reboot now would change the running policy.
DirtyIsExact ==
    up => (dirty <=> policy # reconciled_startup(startup, lab.ports))

\* Every state is well typed, the store and the published state never disagree
\* while storage is healthy, and the saved policy has a row for each port of
\* the saved lab, so the next boot finds no incomplete configuration.
StoreIsCoherent ==
    /\ TypeOK
    /\ up /\ ~fault => /\ disk.lab = lab /\ disk.startup = startup
                       /\ disk.revision = revision
                       /\ disk.configuration_revision = configuration_revision
                       /\ disk.idempotency = idempotency
    /\ DOMAIN disk.startup.ports = disk.lab.ports

\* A key is applied again only after so many later keyed commands that its
\* entry was dropped; an uncertain commit found on disk after a restart counts.
KeyAppliedOnce == twice = {}

\* A replay is not answered for a change that a reboot or restart discarded.
ReplayIsTruthful == misled = {}

\* A retry with an idempotency key does not repeat a change whose entry is
\* still due to be kept, and is not answered for a change that is gone.
RetriesAreSafe == KeyAppliedOnce /\ ReplayIsTruthful

\* The saved policy of a port that stays changes only to the running policy
\* a client saved: no lab command saves unrelated running changes.
NoImplicitSave ==
    [][\A p \in lab.ports \cap disk.lab.ports \cap disk'.lab.ports :
            disk'.startup.ports[p] # disk.startup.ports[p] => disk'.startup = policy]_vars

\* Interface numbers are never reused, not even after the port that had one
\* was deleted, the commit was uncertain or the process restarted.
NumbersAreFresh ==
    [][(disk'.lab.ports \ disk.lab.ports) \cap handed = {}]_vars

=============================================================================
