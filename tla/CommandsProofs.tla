--------------------------- MODULE CommandsProofs ---------------------------
(***************************************************************************)
(* Revisions, startup policy, interface numbers and idempotency of the     *)
(* command processor, for any number of ports, keys and values: proofs     *)
(* about Commands.                                                         *)
(***************************************************************************)
EXTENDS Commands, SequenceTheorems, TLAPS

-----------------------------------------------------------------------------
(***************************************************************************)
(* The inductive invariant                                                 *)
(***************************************************************************)

\* Every policy has exactly the ports of the lab it belongs to.
PortsMatch ==
    /\ policy \in PolicyOf(lab.ports)
    /\ startup \in PolicyOf(lab.ports)
    /\ disk.startup \in PolicyOf(disk.lab.ports)

\* While storage is healthy the store holds what is published.
Stored ==
    up /\ ~fault =>
        disk = [lab |-> lab, startup |-> startup, revision |-> revision,
                configuration_revision |-> configuration_revision, idempotency |-> idempotency]

\* No client has seen a revision from the future of the process, which never
\* is ahead of the disk: the next boot starts past everything ever read.
RevisionsGrow ==
    /\ seen.revision <= disk.revision
    /\ seen.configuration_revision <= disk.configuration_revision
    /\ up => /\ seen.revision <= revision /\ revision <= disk.revision
             /\ seen.configuration_revision <= configuration_revision
             /\ configuration_revision <= disk.configuration_revision

\* The allocator on disk is past every number that was ever committed.
AllocatorAhead ==
    /\ disk.lab.next >= 1
    /\ disk.lab.ports \subseteq handed
    /\ \A p \in handed : p < disk.lab.next

\* The entry of a key is on disk, so many places from the end as there were
\* later keyed commits, until there were too many.
EntriesHeld ==
    \A k \in Key : newer[k] \in 0..(Keep - 1) =>
        /\ newer[k] < Len(disk.idempotency)
        /\ disk.idempotency[Len(disk.idempotency) - newer[k]].key = k

\* An entry for a change of the running policy names the incarnation it was
\* made in; if that is the present one, the change is in force.
Scoped(e) ==
    /\ e.incarnation <= minted
    /\ e.key \in volatile => e.incarnation # 0
    /\ up /\ ~fault /\ e.key \in volatile /\ e.incarnation = incarnation => e.key \in inforce

EntriesScoped ==
    /\ incarnation <= minted
    /\ up => incarnation > 0
    /\ \A i \in 1..Len(disk.idempotency) : Scoped(disk.idempotency[i])

IInv ==
    /\ TypeOK
    /\ PortsMatch
    /\ Stored
    /\ RevisionsGrow
    /\ RevisionIdentifiesState
    /\ DirtyIsExact
    /\ AllocatorAhead
    /\ EntriesHeld
    /\ EntriesScoped
    /\ RetriesAreSafe

-----------------------------------------------------------------------------
(***************************************************************************)
(* Operators                                                               *)
(***************************************************************************)

\* Reconciliation gives a policy for the ports asked for, keeps what was saved
\* of a port that is still there, and leaves a policy that fits alone.
LEMMA Reconciled ==
    ASSUME NEW ports, NEW old, NEW saved \in PolicyOf(old)
    PROVE  /\ reconciled_startup(saved, ports) \in PolicyOf(ports)
           /\ \A p \in ports \cap old : reconciled_startup(saved, ports).ports[p] = saved.ports[p]
           /\ reconciled_startup(saved, old) = saved
<1> DEFINE q == [p \in ports |-> IF p \in DOMAIN saved.ports THEN saved.ports[p] ELSE Default]
<1>1. /\ saved = [ports |-> saved.ports, switch |-> saved.switch]
      /\ saved.ports \in [old -> Value] /\ saved.switch \in Value
  BY DEF PolicyOf
<1>2. q \in [ports -> Value]
  BY <1>1, ValueAssumption
<1>3. reconciled_startup(saved, ports) = [ports |-> q, switch |-> saved.switch]
  BY DEF reconciled_startup
<1>4. \A p \in ports \cap old : q[p] = saved.ports[p]
  BY <1>1
<1>5. [p \in old |-> IF p \in DOMAIN saved.ports THEN saved.ports[p] ELSE Default] = saved.ports
  BY <1>1
<1>6. reconciled_startup(saved, old) = saved
  BY <1>1, <1>5 DEF reconciled_startup
<1> QED BY <1>1, <1>2, <1>3, <1>4, <1>6 DEF PolicyOf

\* The last entries stay, counted from the end.
LEMMA TrimKeepsLast ==
    ASSUME NEW S, NEW entries \in Seq(S)
    PROVE  /\ Trim(entries) \in Seq(S)
           /\ Len(Trim(entries)) = IF Len(entries) > Keep THEN Keep ELSE Len(entries)
           /\ \A i \in 0..(Len(Trim(entries)) - 1) :
                 Trim(entries)[Len(Trim(entries)) - i] = entries[Len(entries) - i]
           /\ \A i \in 1..Len(Trim(entries)) : \E j \in 1..Len(entries) : Trim(entries)[i] = entries[j]
<1> DEFINE m == IF Len(entries) > Keep THEN Len(entries) - Keep + 1 ELSE 1
<1>1. Trim(entries) = SubSeq(entries, m, Len(entries))
  BY DEF Trim
<1>2. /\ m \in 1..(Len(entries) + 1) /\ Len(entries) \in Nat
      /\ Len(entries) - m + 1 = IF Len(entries) > Keep THEN Keep ELSE Len(entries)
  BY LimitsAssumption
<1> HIDE DEF m
<1>3. /\ Trim(entries) \in Seq(S)
      /\ Len(Trim(entries)) = Len(entries) - m + 1
      /\ \A i \in 1..(Len(entries) - m + 1) : Trim(entries)[i] = entries[m + i - 1]
  <2>1. \A i \in m..Len(entries) : entries[i] \in S
    BY <1>2
  <2> QED BY <1>1, <1>2, <2>1, SubSeqProperties
<1>4. Len(Trim(entries)) = IF Len(entries) > Keep THEN Keep ELSE Len(entries)
  BY <1>2, <1>3
<1>5. ASSUME NEW i \in 0..(Len(Trim(entries)) - 1)
      PROVE  Trim(entries)[Len(Trim(entries)) - i] = entries[Len(entries) - i]
  <2> DEFINE j == Len(Trim(entries)) - i
  <2>1. j \in 1..(Len(entries) - m + 1) /\ m + j - 1 = Len(entries) - i
    BY <1>2, <1>3
  <2> QED BY <1>3, <2>1
<1>6. ASSUME NEW i \in 1..Len(Trim(entries))
      PROVE  \E j \in 1..Len(entries) : Trim(entries)[i] = entries[j]
  <2>1. m + i - 1 \in 1..Len(entries)
    BY <1>2, <1>3
  <2> QED BY <1>3, <2>1
<1> QED BY <1>3, <1>4, <1>5, <1>6

\* What a command consists of.
LEMMA CommandParts ==
    ASSUME NEW c \in Command
    PROVE  /\ c[1] \in {"port-edit", "switch-edit", "lab-edit", "port-delete", "port-create",
                        "save-startup", "reboot", "advance"}
           /\ c[1] \in {"port-edit", "port-delete"} => c[2] \in Number
           /\ c[3] \in Value
BY ValueAssumption DEF Command

\* The lab after a command: the ports that stay, and at most the one that is
\* allocated; the allocator never goes back.
LEMMA NextLabSound ==
    ASSUME NEW c \in Command, Accepted(c), lab \in Lab, lab.next >= 1
    PROVE  /\ NextLab(c) \in Lab
           /\ NextLab(c).ports \subseteq lab.ports \cup {lab.next}
           /\ lab.next <= NextLab(c).next
           /\ lab.next \in NextLab(c).ports => NextLab(c).next = lab.next + 1 \/ lab.next \in lab.ports
<1>0. lab.ports \subseteq Number /\ lab.next \in Nat /\ lab.hardware \in Value
  BY DEF Lab
<1>1. CASE c[1] = "port-create"
  <2>1. NextLab(c) = [ports |-> lab.ports \cup {lab.next}, next |-> lab.next + 1, hardware |-> lab.hardware]
    BY <1>1 DEF NextLab, Allocate
  <2>2. lab.next \in Number
    BY <1>0, <1>1, LimitsAssumption DEF Accepted, Number
  <2> QED BY <1>0, <2>1, <2>2 DEF Lab
<1>2. CASE c[1] = "port-delete"
  BY <1>0, <1>2 DEF NextLab, Lab
<1>3. CASE c[1] \in {"switch-edit", "lab-edit"}
  BY <1>0, <1>3, CommandParts DEF NextLab, Lab
<1>4. CASE c[1] \in {"port-edit", "save-startup", "reboot", "advance"}
  BY <1>0, <1>4 DEF NextLab
<1> QED BY <1>1, <1>2, <1>3, <1>4, CommandParts

\* Both policies after a command fit the lab after it.
LEMMA NextPoliciesFit ==
    ASSUME NEW c \in Command, Accepted(c), PortsMatch
    PROVE  /\ NextPolicy(c) \in PolicyOf(NextLab(c).ports)
           /\ next_startup(c, NextPolicy(c), NextLab(c).ports) \in PolicyOf(NextLab(c).ports)
<1> DEFINE ports == NextLab(c).ports
<1>0. policy \in PolicyOf(lab.ports) /\ startup \in PolicyOf(lab.ports)
  BY DEF PortsMatch
<1>1. CASE c[1] \in {"port-create", "port-delete"}
  <2>1. /\ reconciled_startup(policy, ports) \in PolicyOf(ports)
        /\ reconciled_startup(startup, ports) \in PolicyOf(ports)
    BY <1>0, Reconciled
  <2>2. NextPolicy(c) = reconciled_startup(policy, ports)
    BY <1>1 DEF NextPolicy
  <2>3. next_startup(c, NextPolicy(c), ports) = reconciled_startup(startup, ports)
    BY <1>1 DEF next_startup
  <2> QED BY <2>1, <2>2, <2>3
<1>2. CASE c[1] \notin {"port-create", "port-delete"}
  <2>1. ports = lab.ports
    BY <1>2 DEF NextLab
  <2>2. NextPolicy(c) \in PolicyOf(lab.ports)
    <3>1. CASE c[1] = "port-edit"
      <4>1. c[2] \in lab.ports /\ c[3] \in Value
        BY <3>1, CommandParts DEF Accepted
      <4>2. NextPolicy(c) = [ports |-> [policy.ports EXCEPT ![c[2]] = c[3]], switch |-> policy.switch]
        BY <3>1 DEF NextPolicy
      <4> QED BY <1>0, <4>1, <4>2 DEF PolicyOf
    <3>2. CASE c[1] = "switch-edit"
      BY <1>0, <3>2, CommandParts DEF NextPolicy, PolicyOf
    <3>3. CASE c[1] = "reboot"
      BY <1>0, <3>3, Reconciled DEF NextPolicy
    <3>4. CASE c[1] \notin {"port-edit", "switch-edit", "reboot"}
      BY <1>0, <1>2, <3>4 DEF NextPolicy
    <3> QED BY <3>1, <3>2, <3>3, <3>4
  <2>3. next_startup(c, NextPolicy(c), ports) \in {NextPolicy(c), startup}
    BY <1>2 DEF next_startup
  <2> QED BY <1>0, <2>1, <2>2, <2>3
<1> QED BY <1>1, <1>2

\* A policy that fits a lab is a policy.
LEMMA FittingIsPolicy ==
    ASSUME NEW ports \in SUBSET Number, NEW p \in PolicyOf(ports)
    PROVE  p \in Policy
BY DEF Policy

\* A keyed command appends its entry and moves the others one place away from
\* the end, as far as they are kept.
LEMMA NextEntriesSound ==
    ASSUME TypeOK, NEW c \in Command, NEW k \in Key
    PROVE  LET new == [key |-> k, command |-> c, incarnation |-> Scope(c)]
               next == NextEntries(c, k)
           IN /\ new \in Entry
              /\ next \in Seq(Entry)
              /\ Len(next) >= 1 /\ next[Len(next)] = new
              /\ \A i \in 0..(Keep - 2) : i < Len(idempotency) =>
                    i + 1 < Len(next) /\ next[Len(next) - (i + 1)] = idempotency[Len(idempotency) - i]
              /\ \A i \in 1..Len(next) :
                    next[i] = new \/ \E j \in 1..Len(idempotency) : next[i] = idempotency[j]
<1> DEFINE new == [key |-> k, command |-> c, incarnation |-> Scope(c)]
           longer == Append(idempotency, new)
           next == NextEntries(c, k)
<1>0. Keep \in Nat \ {0} /\ idempotency \in Seq(Entry) /\ Len(idempotency) \in Nat
  BY LimitsAssumption DEF TypeOK
<1>1. new \in Entry
  BY DEF TypeOK, Entry, Scope
<1>2. next = Trim(longer)
  BY ValueAssumption DEF NextEntries
<1> HIDE DEF new, next
<1>3. /\ longer \in Seq(Entry) /\ Len(longer) = Len(idempotency) + 1
      /\ longer[Len(idempotency) + 1] = new
      /\ \A i \in 1..Len(idempotency) : longer[i] = idempotency[i]
  BY <1>0, <1>1
<1> HIDE DEF longer
<1>4. /\ next \in Seq(Entry)
      /\ Len(next) = IF Len(longer) > Keep THEN Keep ELSE Len(longer)
      /\ \A i \in 0..(Len(next) - 1) : next[Len(next) - i] = longer[Len(longer) - i]
      /\ \A i \in 1..Len(next) : \E j \in 1..Len(longer) : next[i] = longer[j]
  <2> DEFINE t == Trim(longer)
  <2>1. /\ t \in Seq(Entry)
        /\ Len(t) = IF Len(longer) > Keep THEN Keep ELSE Len(longer)
        /\ \A i \in 0..(Len(t) - 1) : t[Len(t) - i] = longer[Len(longer) - i]
        /\ \A i \in 1..Len(t) : \E j \in 1..Len(longer) : t[i] = longer[j]
    <3>1. longer \in Seq(Entry)
      BY <1>3
    <3> HIDE DEF t
    <3> QED BY <3>1, TrimKeepsLast, Zenon DEF t
  <2> QED BY <1>2, <2>1
<1>5. Len(next) >= 1 /\ next[Len(next)] = new
  <2>1. Len(next) \in Nat \ {0} /\ 0 \in 0..(Len(next) - 1)
    BY <1>0, <1>3, <1>4
  <2>2. next[Len(next) - 0] = longer[Len(longer) - 0]
    BY <1>4, <2>1
  <2> QED BY <1>0, <1>3, <2>1, <2>2
<1>6. ASSUME NEW i \in 0..(Keep - 2), i < Len(idempotency)
      PROVE  i + 1 < Len(next) /\ next[Len(next) - (i + 1)] = idempotency[Len(idempotency) - i]
  <2>1. i + 1 \in 0..(Len(next) - 1) /\ i + 1 < Len(next)
    BY <1>0, <1>3, <1>4, <1>6
  <2>2. next[Len(next) - (i + 1)] = longer[Len(longer) - (i + 1)]
    BY <1>4, <2>1
  <2>3. Len(longer) - (i + 1) = Len(idempotency) - i /\ Len(idempotency) - i \in 1..Len(idempotency)
    BY <1>0, <1>3, <1>6
  <2> QED BY <1>3, <2>1, <2>2, <2>3
<1>7. ASSUME NEW i \in 1..Len(next)
      PROVE  next[i] = new \/ \E j \in 1..Len(idempotency) : next[i] = idempotency[j]
  <2>1. PICK j \in 1..Len(longer) : next[i] = longer[j]
    BY <1>4
  <2>2. j = Len(idempotency) + 1 \/ j \in 1..Len(idempotency)
    BY <1>0, <1>3
  <2> QED BY <1>3, <2>1, <2>2
<1> QED BY <1>1, <1>4, <1>5, <1>6, <1>7 DEF new, next

-----------------------------------------------------------------------------
(***************************************************************************)
(* The first states                                                        *)
(***************************************************************************)

\* The invariant holds at the start.
LEMMA InitInv == Init => IInv
<1> SUFFICES ASSUME Init PROVE IInv
  OBVIOUS
<1> USE ValueAssumption, LimitsAssumption
<1>1. PICK n \in 0..MaxNumber : lab = [ports |-> 1..n, next |-> n + 1, hardware |-> Default]
  BY DEF Init
<1>2. lab \in Lab /\ lab.ports = 1..n /\ lab.next = n + 1
  BY <1>1 DEF Lab, Number
<1>3. policy \in PolicyOf(lab.ports)
  BY DEF Init, PolicyOf
<1>4. policy \in Policy /\ startup = policy /\ policy = reconciled_startup(startup, lab.ports)
  BY <1>2, <1>3, FittingIsPolicy, Reconciled DEF Init, Lab
<1>5. << >> \in Seq(Entry) /\ Len(<< >>) = 0
  OBVIOUS
<1>6. /\ disk = [lab |-> lab, startup |-> policy, revision |-> 0, configuration_revision |-> 0,
                 idempotency |-> <<>>]
      /\ seen = [lab |-> lab, policy |-> policy, revision |-> 0, configuration_revision |-> 0]
  BY DEF Init
<1>7. disk \in Image /\ seen \in Snapshot
  BY <1>2, <1>4, <1>5, <1>6 DEF Image, Snapshot
<1>8. TypeOK
  <2>1. up \in BOOLEAN /\ fault \in BOOLEAN /\ dirty \in BOOLEAN
    BY DEF Init
  <2>2. /\ revision \in Nat /\ configuration_revision \in Nat /\ incarnation \in Nat /\ minted \in Nat
        /\ newer \in [Key -> Int]
    BY DEF Init
  <2>3. idempotency \in Seq(Entry) /\ startup \in Policy
    BY <1>4, <1>5 DEF Init
  <2>4. /\ handed \subseteq Number
        /\ volatile \subseteq Key /\ inforce \subseteq Key /\ insaved \subseteq Key
        /\ twice \subseteq Key /\ misled \subseteq Key
    BY <1>2 DEF Init, Lab
  <2> QED BY <1>2, <1>4, <1>7, <2>1, <2>2, <2>3, <2>4 DEF TypeOK
<1>9. PortsMatch /\ Stored /\ RevisionsGrow /\ RevisionIdentifiesState /\ DirtyIsExact
  BY <1>3, <1>4, <1>6
     DEF Init, PortsMatch, Stored, RevisionsGrow, RevisionIdentifiesState, DirtyIsExact
<1>10. AllocatorAhead
  BY <1>2, <1>6 DEF Init, AllocatorAhead
<1>11. EntriesHeld /\ EntriesScoped
  BY <1>5, <1>6 DEF Init, EntriesHeld, EntriesScoped
<1>12. RetriesAreSafe
  BY DEF Init, RetriesAreSafe, KeyAppliedOnce, ReplayIsTruthful
<1> QED BY <1>8, <1>9, <1>10, <1>11, <1>12 DEF IInv

-----------------------------------------------------------------------------
(***************************************************************************)
(* Transactions                                                            *)
(***************************************************************************)

\* What a transaction writes is what it publishes: the parts it leaves out are
\* on disk already.
LEMMA WrittenSound ==
    ASSUME IInv, up, ~fault, NEW c \in Command, NEW k \in Key \cup {NoKey}, Accepted(c)
    PROVE  /\ Written(c, k) =
                [lab |-> NextLab(c),
                 startup |-> next_startup(c, NextPolicy(c), NextLab(c).ports),
                 revision |-> revision + 1,
                 configuration_revision |-> IF durable(c) THEN configuration_revision + 1
                                            ELSE configuration_revision,
                 idempotency |-> NextEntries(c, k)]
           /\ Written(c, k) \in Image
           /\ NextLab(c) \in Lab
           /\ NextPolicy(c) \in PolicyOf(NextLab(c).ports) /\ NextPolicy(c) \in Policy
           /\ Written(c, k).startup \in PolicyOf(NextLab(c).ports)
<1>1. /\ disk.lab = lab /\ disk.startup = startup
      /\ TypeOK /\ PortsMatch /\ lab \in Lab /\ lab.next >= 1
  BY DEF IInv, Stored, AllocatorAhead, TypeOK
<1>2. /\ NextLab(c) \in Lab
      /\ NextPolicy(c) \in PolicyOf(NextLab(c).ports)
      /\ next_startup(c, NextPolicy(c), NextLab(c).ports) \in PolicyOf(NextLab(c).ports)
  BY <1>1, NextLabSound, NextPoliciesFit
<1>3. /\ NextPolicy(c) \in Policy
      /\ next_startup(c, NextPolicy(c), NextLab(c).ports) \in Policy
  BY <1>2, FittingIsPolicy DEF Lab
<1>4. ~durable(c) => NextLab(c) = disk.lab
  BY <1>1 DEF durable, NextLab
<1>5. c[1] \notin Saving => next_startup(c, NextPolicy(c), NextLab(c).ports) = disk.startup
  BY <1>1 DEF Saving, next_startup
<1>6. Written(c, k) =
        [lab |-> NextLab(c),
         startup |-> next_startup(c, NextPolicy(c), NextLab(c).ports),
         revision |-> revision + 1,
         configuration_revision |-> IF durable(c) THEN configuration_revision + 1
                                    ELSE configuration_revision,
         idempotency |-> NextEntries(c, k)]
  BY <1>4, <1>5 DEF Written
<1>7. NextEntries(c, k) \in Seq(Entry)
  <2>1. CASE k = NoKey
    BY <1>1, <2>1 DEF NextEntries, TypeOK
  <2>2. CASE k \in Key
    BY <1>1, <2>2, NextEntriesSound
  <2> QED BY <2>1, <2>2
<1>8. /\ revision + 1 \in Nat
      /\ (IF durable(c) THEN configuration_revision + 1 ELSE configuration_revision) \in Nat
  BY <1>1 DEF TypeOK
<1>9. Written(c, k) \in Image
  BY <1>2, <1>3, <1>6, <1>7, <1>8 DEF Image
<1> QED BY <1>2, <1>3, <1>6, <1>9

\* What a transaction that reached the disk leaves there.
LEMMA CommitKeeps ==
    ASSUME IInv, up, ~fault, NEW c \in Command, NEW k \in Key \cup {NoKey}, Accepted(c),
           Recorded(k) = {}, disk' = Written(c, k), Remember(c, k)
    PROVE  /\ AllocatorAhead' /\ handed' \subseteq Number
           /\ EntriesHeld' /\ newer' \in [Key -> Int]
           /\ twice' = twice
           /\ volatile' \subseteq Key /\ insaved' \subseteq Key
<1> USE LimitsAssumption, ValueAssumption
<1>0. /\ TypeOK /\ AllocatorAhead /\ EntriesHeld
      /\ disk.lab = lab /\ disk.idempotency = idempotency
      /\ newer \in [Key -> Int] /\ idempotency \in Seq(Entry)
  BY DEF IInv, Stored, TypeOK
<1>1. disk'.lab = NextLab(c) /\ disk'.idempotency = NextEntries(c, k) /\ NextLab(c) \in Lab
  BY WrittenSound
<1>2. AllocatorAhead' /\ handed' \subseteq Number
  <2>1. /\ NextLab(c).ports \subseteq lab.ports \cup {lab.next} /\ lab.next <= NextLab(c).next
        /\ lab.next \in NextLab(c).ports => NextLab(c).next = lab.next + 1 \/ lab.next \in lab.ports
        /\ lab.next \in Nat /\ NextLab(c).next \in Nat /\ NextLab(c).ports \subseteq Number
    BY <1>0, NextLabSound DEF AllocatorAhead, TypeOK, Lab
  <2>2. handed' = handed \cup NextLab(c).ports
    BY <1>1 DEF Remember
  <2>3. ASSUME NEW p \in handed' PROVE p < NextLab(c).next
    <3>1. p \in handed \/ (p = lab.next /\ p \in NextLab(c).ports)
      BY <1>0, <2>1, <2>2, <2>3 DEF AllocatorAhead
    <3>2. handed \subseteq Number /\ \A q \in handed : q < lab.next
      BY <1>0 DEF AllocatorAhead, TypeOK
    <3>3. CASE p \in handed
      <4>1. p \in Nat /\ p < lab.next
        BY <3>2, <3>3 DEF Number
      <4> QED BY <2>1, <4>1
    <3>4. CASE p \notin handed
      <4>1. p = lab.next /\ p \in NextLab(c).ports
        BY <3>1, <3>4
      <4>2. p \notin lab.ports
        BY <1>0, <3>4 DEF AllocatorAhead
      <4> QED BY <2>1, <4>1, <4>2
    <3> QED BY <3>3, <3>4
  <2> QED BY <1>0, <1>1, <2>1, <2>2, <2>3 DEF AllocatorAhead, TypeOK
<1>3. newer' \in [Key -> Int]
  BY <1>0 DEF Remember
<1>4. k \in Key => newer[k] \notin 0..(Keep - 1)
  <2> SUFFICES ASSUME k \in Key, newer[k] \in 0..(Keep - 1) PROVE FALSE
    OBVIOUS
  <2> DEFINE i == Len(idempotency) - newer[k]
  <2>1. newer[k] < Len(idempotency) /\ idempotency[i].key = k
    BY <1>0 DEF EntriesHeld
  <2>2. i \in 1..Len(idempotency)
    BY <1>0, <2>1
  <2> QED BY <2>1, <2>2 DEF Recorded
<1>5. twice' = twice
  BY <1>4 DEF Remember
<1>6. EntriesHeld'
  <2>1. CASE k = NoKey
    <3>1. newer' = newer /\ disk'.idempotency = disk.idempotency
      BY <1>0, <1>1, <2>1 DEF Remember, NextEntries
    <3> QED BY <1>0, <3>1 DEF EntriesHeld
  <2>2. CASE k \in Key
    <3> DEFINE next == NextEntries(c, k)
    <3>1. /\ next \in Seq(Entry) /\ Len(next) >= 1 /\ next[Len(next)].key = k
          /\ \A i \in 0..(Keep - 2) : i < Len(idempotency) =>
                i + 1 < Len(next) /\ next[Len(next) - (i + 1)] = idempotency[Len(idempotency) - i]
      <4>1. next[Len(next)] = [key |-> k, command |-> c, incarnation |-> Scope(c)]
        BY <1>0, <2>2, NextEntriesSound, Zenon
      <4>2. next[Len(next)].key = k
        BY <4>1
      <4>3. /\ next \in Seq(Entry) /\ Len(next) >= 1
            /\ \A i \in 0..(Keep - 2) : i < Len(idempotency) =>
                  i + 1 < Len(next) /\ next[Len(next) - (i + 1)] = idempotency[Len(idempotency) - i]
        BY <1>0, <2>2, NextEntriesSound, Zenon
      <4> QED BY <4>2, <4>3
    <3>2. ASSUME NEW j \in Key, newer'[j] \in 0..(Keep - 1)
          PROVE  newer'[j] < Len(next) /\ next[Len(next) - newer'[j]].key = j
      <4>1. CASE j = k
        <5>1. newer'[j] = 0
          BY <4>1 DEF Remember
        <5> HIDE DEF next
        <5> QED BY <3>1, <4>1, <5>1
      <4>2. CASE j # k
        <5>1. newer[j] \in 0..(Keep - 2) /\ newer'[j] = newer[j] + 1
          BY <1>0, <2>2, <3>2, <4>2 DEF Remember
        <5>2. newer[j] < Len(idempotency) /\ idempotency[Len(idempotency) - newer[j]].key = j
          BY <1>0, <5>1 DEF EntriesHeld
        <5> HIDE DEF next
        <5> QED BY <3>1, <5>1, <5>2
      <4> QED BY <4>1, <4>2
    <3> QED BY <1>1, <3>2 DEF EntriesHeld
  <2> QED BY <2>1, <2>2
<1>7. volatile' \subseteq Key /\ insaved' \subseteq Key
  BY <1>0 DEF Remember, TypeOK
<1> QED BY <1>2, <1>3, <1>5, <1>6, <1>7

\* The entries of such a transaction: the incarnations they name exist, and a
\* change made in the present incarnation is in force or the one just made.
LEMMA CommitScopes ==
    ASSUME IInv, up, ~fault, NEW c \in Command, NEW k \in Key \cup {NoKey}, Accepted(c),
           Recorded(k) = {}, disk' = Written(c, k), Remember(c, k),
           NEW i \in 1..Len(disk'.idempotency)
    PROVE  LET e == disk'.idempotency[i]
           IN /\ e.incarnation \in Nat /\ e.incarnation <= minted
              /\ e.key \in volatile' => e.incarnation # 0
              /\ e.key \in volatile' /\ e.incarnation = incarnation =>
                    e.key \in inforce \/ (e.key = k /\ k # NoKey /\ ChangesRunning(c))
<1> DEFINE e == disk'.idempotency[i]
<1> USE ValueAssumption
<1>0. /\ TypeOK /\ EntriesScoped
      /\ disk.idempotency = idempotency /\ idempotency \in Seq(Entry)
      /\ incarnation \in Nat /\ minted \in Nat /\ incarnation <= minted /\ incarnation > 0
  BY DEF IInv, Stored, TypeOK, EntriesScoped
<1>1. disk'.idempotency = NextEntries(c, k)
  BY WrittenSound
<1>2. ASSUME NEW j \in 1..Len(idempotency), e = idempotency[j]
      PROVE  /\ e.incarnation \in Nat /\ e.incarnation <= minted
             /\ e.key \in volatile' => e.incarnation # 0
             /\ e.key \in volatile' /\ e.incarnation = incarnation => e.key \in inforce
  <2>1. Scoped(e) /\ e \in Entry
    BY <1>0, <1>2 DEF EntriesScoped
  <2>2. e.key # k
    BY <1>2 DEF Recorded
  <2>3. e.key \in volatile' => e.key \in volatile
    BY <2>2 DEF Remember
  <2> HIDE DEF e
  <2> QED BY <2>1, <2>3 DEF Scoped, Entry
<1>3. CASE k = NoKey
  <2>1. e = idempotency[i] /\ i \in 1..Len(idempotency)
    BY <1>1, <1>3 DEF NextEntries
  <2> QED BY <1>2, <2>1
<1>4. CASE k \in Key
  <2> DEFINE new == [key |-> k, command |-> c, incarnation |-> Scope(c)]
  <2>1. e = new \/ \E j \in 1..Len(idempotency) : e = idempotency[j]
    <3>1. \A n \in 1..Len(NextEntries(c, k)) :
             NextEntries(c, k)[n] = new \/ \E j \in 1..Len(idempotency) : NextEntries(c, k)[n] = idempotency[j]
      BY <1>0, <1>4, NextEntriesSound, Zenon
    <3> HIDE DEF new
    <3> QED BY <1>1, <3>1
  <2>2. CASE e = new
    <3>1. e.key = k /\ e.incarnation = Scope(c)
      BY <2>2
    <3>2. k \in volatile' => ChangesRunning(c)
      BY <1>4 DEF Remember
    <3>3. /\ Scope(c) \in Nat /\ Scope(c) <= minted
          /\ ChangesRunning(c) => Scope(c) # 0
      BY <1>0 DEF Scope
    <3> QED BY <1>4, <3>1, <3>2, <3>3
  <2> QED BY <1>2, <2>1, <2>2
<1> QED BY <1>3, <1>4

\* A transaction whose result is published.
LEMMA PublishInv ==
    ASSUME IInv, up, ~fault, NEW c \in Command, NEW k \in Key \cup {NoKey}, Accepted(c),
           Recorded(k) = {}, disk' = Written(c, k), Remember(c, k), Publish(c, k),
           UNCHANGED <<up, fault, seen, misled>>
    PROVE  IInv'
<1> USE LimitsAssumption, ValueAssumption
<1> DEFINE saved == next_startup(c, NextPolicy(c), NextLab(c).ports)
<1>0. /\ TypeOK /\ disk.lab = lab /\ disk.startup = startup
      /\ revision \in Nat /\ configuration_revision \in Nat /\ minted \in Nat /\ incarnation \in Nat
  BY DEF IInv, Stored, TypeOK
<1>1. /\ disk' \in Image /\ disk'.lab = NextLab(c) /\ disk'.startup = saved
      /\ disk'.revision = revision + 1 /\ disk'.idempotency = NextEntries(c, k)
      /\ disk'.configuration_revision =
            IF durable(c) THEN configuration_revision + 1 ELSE configuration_revision
      /\ NextLab(c) \in Lab /\ NextPolicy(c) \in Policy
      /\ NextPolicy(c) \in PolicyOf(NextLab(c).ports) /\ saved \in PolicyOf(NextLab(c).ports)
  BY WrittenSound
<1>2. /\ lab' = NextLab(c) /\ policy' = NextPolicy(c) /\ startup' = saved
      /\ revision' = revision + 1 /\ idempotency' = NextEntries(c, k)
      /\ configuration_revision' = disk'.configuration_revision
  BY DEF Publish
<1>3. Stored'
  <2>1. disk' = [lab |-> disk'.lab, startup |-> disk'.startup, revision |-> disk'.revision,
                 configuration_revision |-> disk'.configuration_revision,
                 idempotency |-> disk'.idempotency]
    BY <1>1 DEF Image
  <2> QED BY <1>1, <1>2, <2>1 DEF Stored
<1>4. PortsMatch'
  BY <1>1, <1>2 DEF PortsMatch
<1>5. RevisionsGrow' /\ seen'.revision < revision'
  BY <1>0, <1>1, <1>2 DEF IInv, RevisionsGrow, TypeOK, Snapshot
<1>6. RevisionIdentifiesState'
  <2>1. CASE durable(c)
    <3>1. seen'.configuration_revision < configuration_revision'
      BY <1>0, <1>1, <1>2, <2>1 DEF IInv, RevisionsGrow, TypeOK, Snapshot
    <3> QED BY <1>0, <1>1, <1>2, <1>5, <3>1 DEF RevisionIdentifiesState, TypeOK, Snapshot
  <2>2. CASE ~durable(c)
    <3>1. lab' = lab /\ policy' = policy /\ configuration_revision' = configuration_revision
      BY <1>1, <1>2, <2>2 DEF durable, NextLab, NextPolicy
    <3> QED BY <1>0, <1>2, <1>5, <3>1 DEF IInv, RevisionIdentifiesState, TypeOK, Snapshot
  <2> QED BY <2>1, <2>2
<1>7. DirtyIsExact' /\ dirty' \in BOOLEAN
  <2>1. dirty' = Dirty(c, policy', startup', lab'.ports)
    BY DEF Publish
  <2>2. CASE durable(c)
    BY <2>1, <2>2 DEF Dirty, DirtyIsExact
  <2>3. CASE ~durable(c)
    <3>1. lab' = lab /\ policy' = policy /\ startup' = startup /\ dirty' = dirty
      BY <1>2, <2>1, <2>3 DEF durable, NextLab, NextPolicy, next_startup, Dirty
    <3> QED BY <1>0, <3>1 DEF IInv, DirtyIsExact, TypeOK
  <2> QED BY <2>2, <2>3
<1>8. /\ AllocatorAhead' /\ handed' \subseteq Number
      /\ EntriesHeld' /\ newer' \in [Key -> Int]
      /\ twice' = twice
      /\ volatile' \subseteq Key /\ insaved' \subseteq Key
  BY CommitKeeps
<1>9. RetriesAreSafe'
  BY <1>8 DEF IInv, RetriesAreSafe, KeyAppliedOnce, ReplayIsTruthful
<1>10. EntriesScoped' /\ incarnation' \in Nat /\ minted' \in Nat
  <2>1. /\ incarnation' = IF c[1] = "reboot" THEN minted + 1 ELSE incarnation
        /\ minted' = IF c[1] = "reboot" THEN minted + 1 ELSE minted
        /\ c[1] # "reboot" => /\ inforce \subseteq inforce'
                              /\ k # NoKey /\ ChangesRunning(c) => k \in inforce'
    BY DEF Publish
  <2>2. incarnation <= minted /\ incarnation > 0
    BY DEF IInv, EntriesScoped
  <2>3. ASSUME NEW i \in 1..Len(disk'.idempotency) PROVE Scoped(disk.idempotency[i])'
    <3> DEFINE e == disk'.idempotency[i]
    <3>1. /\ e.incarnation \in Nat /\ e.incarnation <= minted
          /\ e.key \in volatile' => e.incarnation # 0
          /\ e.key \in volatile' /\ e.incarnation = incarnation =>
                e.key \in inforce \/ (e.key = k /\ k # NoKey /\ ChangesRunning(c))
      BY CommitScopes
    <3> HIDE DEF e
    <3>2. e.incarnation <= minted' /\ (e.key \in volatile' => e.incarnation # 0)
      BY <1>0, <2>1, <3>1
    <3>3. e.key \in volatile' /\ e.incarnation = incarnation' => e.key \in inforce'
      BY <1>0, <2>1, <2>2, <3>1
    <3> QED BY <3>2, <3>3 DEF Scoped, e
  <2> QED BY <1>0, <2>1, <2>2, <2>3 DEF EntriesScoped
<1>11. TypeOK'
  <2>1. startup' \in Policy /\ idempotency' \in Seq(Entry)
        /\ revision' \in Nat /\ configuration_revision' \in Nat
    BY <1>1, <1>2 DEF Image
  <2>2. inforce' \subseteq Key
    BY <1>0, <1>8 DEF Publish, TypeOK
  <2> QED BY <1>0, <1>1, <1>2, <1>7, <1>8, <1>10, <2>1, <2>2 DEF TypeOK
<1> QED BY <1>3, <1>4, <1>5, <1>6, <1>7, <1>8, <1>9, <1>10, <1>11 DEF IInv

\* A transaction with a latched fault that reached the disk: nothing is
\* published.
LEMMA KeptInv ==
    ASSUME IInv, up, ~fault, NEW c \in Command, NEW k \in Key \cup {NoKey}, Accepted(c),
           Recorded(k) = {}, disk' = Written(c, k), Remember(c, k),
           fault', fault' \in BOOLEAN, UNCHANGED <<up, published, minted, inforce, seen, misled>>
    PROVE  IInv'
<1>0. /\ TypeOK /\ revision \in Nat /\ configuration_revision \in Nat
      /\ disk.revision = revision /\ disk.configuration_revision = configuration_revision
  BY DEF IInv, Stored, TypeOK
<1>1. /\ disk' \in Image /\ disk'.lab = NextLab(c)
      /\ disk'.revision = revision + 1
      /\ disk'.configuration_revision =
            IF durable(c) THEN configuration_revision + 1 ELSE configuration_revision
      /\ disk'.startup \in PolicyOf(disk'.lab.ports)
  BY WrittenSound
<1>2. PortsMatch' /\ Stored' /\ RevisionIdentifiesState' /\ DirtyIsExact'
  BY <1>1 DEF IInv, PortsMatch, Stored, RevisionIdentifiesState, DirtyIsExact, published
<1>3. RevisionsGrow'
  BY <1>0, <1>1 DEF IInv, RevisionsGrow, published, TypeOK, Snapshot
<1>4. /\ AllocatorAhead' /\ handed' \subseteq Number
      /\ EntriesHeld' /\ newer' \in [Key -> Int]
      /\ twice' = twice
      /\ volatile' \subseteq Key /\ insaved' \subseteq Key
  BY CommitKeeps
<1>5. RetriesAreSafe'
  BY <1>4 DEF IInv, RetriesAreSafe, KeyAppliedOnce, ReplayIsTruthful
<1>6. EntriesScoped'
  <2>1. ASSUME NEW i \in 1..Len(disk'.idempotency) PROVE Scoped(disk.idempotency[i])'
    <3>1. LET e == disk'.idempotency[i]
          IN e.incarnation <= minted /\ (e.key \in volatile' => e.incarnation # 0)
      BY CommitScopes
    <3> QED BY <3>1 DEF Scoped
  <2> QED BY <2>1 DEF IInv, EntriesScoped, published
<1>7. TypeOK'
  BY <1>0, <1>1, <1>4 DEF TypeOK, published
<1> QED BY <1>2, <1>3, <1>4, <1>5, <1>6, <1>7 DEF IInv

\* A step that at most stops the process or latches the fault.
LEMMA StopInv ==
    ASSUME IInv, up' => up, up' /\ ~fault' => ~fault, up' \in BOOLEAN, fault' \in BOOLEAN,
           UNCHANGED <<published, disk, seen, history>>
    PROVE  IInv'
<1>1. UNCHANGED <<lab, policy, startup, dirty, revision, configuration_revision, incarnation,
                  idempotency, disk, seen, minted, handed, newer, volatile, inforce, insaved,
                  twice, misled>>
  BY DEF published, history
<1>2. TypeOK' /\ PortsMatch'
  BY <1>1 DEF IInv, TypeOK, PortsMatch
<1>3. Stored' /\ RevisionsGrow' /\ RevisionIdentifiesState' /\ DirtyIsExact'
  BY <1>1 DEF IInv, Stored, RevisionsGrow, RevisionIdentifiesState, DirtyIsExact
<1>4. AllocatorAhead' /\ EntriesHeld' /\ RetriesAreSafe'
  BY <1>1 DEF IInv, AllocatorAhead, EntriesHeld, RetriesAreSafe, KeyAppliedOnce, ReplayIsTruthful
<1>5. EntriesScoped'
  BY <1>1 DEF IInv, EntriesScoped, Scoped
<1> QED BY <1>2, <1>3, <1>4, <1>5 DEF IInv

\* A command, with every storage outcome.
LEMMA ExecuteInv ==
    ASSUME IInv, NEW c \in Command, NEW k \in Key \cup {NoKey}, NEW b \in Basis,
           NEW o \in Outcome, Execute(c, k, b, o)
    PROVE  IInv'
<1>0. /\ up /\ ~fault /\ Recorded(k) = {} /\ Accepted(c) /\ fault \in BOOLEAN /\ up \in BOOLEAN
      /\ UNCHANGED <<up, seen, misled>> /\ fault' = (o \notin {"ok", "rolled_back"})
  BY DEF Execute, IInv, TypeOK
<1>1. CASE o = "ok"
  <2>1. disk' = Written(c, k) /\ Remember(c, k) /\ Publish(c, k)
    BY <1>1 DEF Execute, Reached
  <2>2. UNCHANGED <<up, fault, seen, misled>>
    BY <1>0, <1>1
  <2> QED BY <1>0, <2>1, <2>2, PublishInv
<1>2. CASE o = "fault_kept"
  <2>1. /\ disk' = Written(c, k) /\ Remember(c, k)
        /\ UNCHANGED <<published, minted, inforce>>
    BY <1>2 DEF Execute, Reached
  <2>2. fault' /\ fault' \in BOOLEAN /\ UNCHANGED <<up, published, minted, inforce, seen, misled>>
    BY <1>0, <1>2, <2>1
  <2> QED BY <1>0, <2>1, <2>2, KeptInv
<1>3. CASE o \in {"rolled_back", "fault_lost"}
  <2>1. UNCHANGED <<published, disk, seen, history>> /\ fault' \in BOOLEAN
    BY <1>0, <1>3 DEF Execute, Reached, history
  <2> QED BY <1>0, <2>1, StopInv
<1> QED BY <1>1, <1>2, <1>3 DEF Outcome

\* An entry that is found in the running incarnation speaks of a change that
\* is in force.
LEMMA ReplayInv ==
    ASSUME IInv, NEW c \in Command, NEW k \in Key, Replay(c, k)
    PROVE  IInv'
<1>0. /\ up /\ ~fault /\ disk.idempotency = idempotency /\ idempotency \in Seq(Entry)
      /\ fault \in BOOLEAN /\ up \in BOOLEAN
  BY DEF Replay, IInv, Stored, TypeOK
<1>1. PICK i \in Recorded(k) :
        /\ Replayable(idempotency[i], c)
        /\ misled' = IF k \in volatile \ inforce THEN misled \cup {k} ELSE misled
  BY DEF Replay
<1>2. i \in 1..Len(idempotency) /\ idempotency[i].key = k
  BY <1>1 DEF Recorded
<1>3. Scoped(idempotency[i])
  BY <1>0, <1>2 DEF IInv, EntriesScoped
<1>4. k \notin volatile \ inforce
  BY <1>0, <1>1, <1>2, <1>3 DEF Scoped, Replayable
<1>5. UNCHANGED <<published, disk, seen, history>> /\ UNCHANGED <<up, fault>>
  BY <1>1, <1>4 DEF Replay, history
<1> QED BY <1>0, <1>5, StopInv

\* A client reads the state with its revisions.
LEMMA ReadInv == ASSUME IInv, Read PROVE IInv'
<1>0. /\ TypeOK /\ up /\ UNCHANGED <<up, fault, disk>>
      /\ UNCHANGED <<lab, policy, startup, dirty, revision, configuration_revision, incarnation,
                     idempotency, minted, handed, newer, volatile, inforce, insaved, twice, misled>>
  BY DEF IInv, Read, published, history
<1>1. seen' = [lab |-> lab, policy |-> policy, revision |-> revision,
               configuration_revision |-> configuration_revision]
  BY DEF Read
<1>2. seen' \in Snapshot
  BY <1>0, <1>1 DEF TypeOK, Snapshot
<1>3. TypeOK' /\ PortsMatch' /\ Stored' /\ DirtyIsExact'
  BY <1>0, <1>2 DEF IInv, TypeOK, PortsMatch, Stored, DirtyIsExact
<1>4. RevisionsGrow' /\ RevisionIdentifiesState'
  BY <1>0, <1>1 DEF IInv, TypeOK, RevisionsGrow, RevisionIdentifiesState
<1>5. AllocatorAhead' /\ EntriesHeld' /\ RetriesAreSafe'
  BY <1>0 DEF IInv, AllocatorAhead, EntriesHeld, RetriesAreSafe, KeyAppliedOnce, ReplayIsTruthful
<1>6. EntriesScoped'
  BY <1>0 DEF IInv, EntriesScoped, Scoped
<1> QED BY <1>3, <1>4, <1>5, <1>6 DEF IInv

\* A boot starts an incarnation no entry names yet, at a revision past every
\* one that was read.
LEMMA BootInv == ASSUME IInv, NEW o \in Outcome, Boot(o) PROVE IInv'
<1>0. /\ TypeOK /\ ~up /\ disk \in Image /\ disk.revision \in Nat /\ disk.configuration_revision \in Nat
      /\ disk.lab \in Lab /\ disk.startup \in Policy /\ disk.idempotency \in Seq(Entry)
      /\ minted \in Nat /\ incarnation \in Nat
      /\ seen \in Snapshot /\ seen.revision \in Nat /\ seen.configuration_revision \in Nat
  BY DEF IInv, Boot, TypeOK, Image, Snapshot
<1>1. /\ fault' = FALSE /\ UNCHANGED <<seen, handed, newer, volatile, insaved, twice, misled>>
  BY DEF Boot
<1>2. /\ disk'.lab = disk.lab /\ disk'.startup = disk.startup
      /\ disk'.idempotency = disk.idempotency /\ disk' \in Image
      /\ disk'.revision \in Nat /\ disk'.configuration_revision \in Nat
      /\ disk'.revision >= disk.revision
      /\ disk'.configuration_revision >= disk.configuration_revision
      /\ o = "ok" => /\ disk'.revision = disk.revision + 1
                     /\ disk'.configuration_revision = disk.configuration_revision + 1
  <2>1. CASE o \in Reached
    <3>1. disk' = [lab |-> disk.lab, startup |-> disk.startup, revision |-> disk.revision + 1,
                   configuration_revision |-> disk.configuration_revision + 1,
                   idempotency |-> disk.idempotency]
      BY <2>1 DEF Boot
    <3> QED BY <1>0, <3>1 DEF Image
  <2>2. CASE o \notin Reached
    BY <1>0, <2>2 DEF Boot, Reached
  <2> QED BY <2>1, <2>2
<1>3. AllocatorAhead' /\ EntriesHeld' /\ RetriesAreSafe'
  BY <1>1, <1>2 DEF IInv, AllocatorAhead, EntriesHeld, RetriesAreSafe, KeyAppliedOnce, ReplayIsTruthful
<1>4. disk.startup \in PolicyOf(disk.lab.ports)
  BY DEF IInv, PortsMatch
<1>5. /\ incarnation <= minted
      /\ \A i \in 1..Len(disk.idempotency) :
            /\ disk.idempotency[i].incarnation <= minted
            /\ disk.idempotency[i].incarnation \in Nat
            /\ disk.idempotency[i].key \in volatile => disk.idempotency[i].incarnation # 0
  <2>1. ASSUME NEW i \in 1..Len(disk.idempotency)
        PROVE  /\ disk.idempotency[i].incarnation <= minted
               /\ disk.idempotency[i].incarnation \in Nat
               /\ disk.idempotency[i].key \in volatile => disk.idempotency[i].incarnation # 0
    <3>1. disk.idempotency[i] \in Entry
      BY <1>0
    <3>2. Scoped(disk.idempotency[i])
      BY DEF IInv, EntriesScoped
    <3> QED BY <3>1, <3>2 DEF Scoped, Entry
  <2> QED BY <2>1 DEF IInv, EntriesScoped
<1>6. CASE o = "ok"
  <2>1. /\ up' = TRUE /\ lab' = disk.lab
        /\ policy' = reconciled_startup(disk.startup, disk.lab.ports)
        /\ startup' = policy' /\ dirty' = FALSE
        /\ revision' = disk'.revision
        /\ configuration_revision' = disk'.configuration_revision
        /\ incarnation' = minted + 1 /\ minted' = minted + 1
        /\ idempotency' = disk.idempotency /\ inforce' = insaved
    BY <1>6 DEF Boot
  <2>2. policy' = disk.startup
    BY <1>4, <2>1, Reconciled
  <2>3. TypeOK'
    <3>1. /\ up' \in BOOLEAN /\ fault' \in BOOLEAN /\ dirty' \in BOOLEAN
      BY <1>1, <2>1
    <3>2. /\ lab' \in Lab /\ policy' \in Policy /\ startup' \in Policy
          /\ revision' \in Nat /\ configuration_revision' \in Nat
          /\ incarnation' \in Nat /\ minted' \in Nat /\ idempotency' \in Seq(Entry)
          /\ seen' \in Snapshot
      BY <1>0, <1>1, <1>2, <2>1, <2>2
    <3>3. /\ handed' \subseteq Number /\ newer' \in [Key -> Int]
          /\ volatile' \subseteq Key /\ inforce' \subseteq Key /\ insaved' \subseteq Key
          /\ twice' \subseteq Key /\ misled' \subseteq Key
      BY <1>0, <1>1, <2>1 DEF TypeOK
    <3> QED BY <1>2, <3>1, <3>2, <3>3 DEF TypeOK
  <2>4. PortsMatch'
    BY <1>2, <1>4, <2>1, <2>2 DEF PortsMatch
  <2>5. Stored'
    <3>1. disk' = [lab |-> disk'.lab, startup |-> disk'.startup, revision |-> disk'.revision,
                   configuration_revision |-> disk'.configuration_revision,
                   idempotency |-> disk'.idempotency]
      BY <1>2 DEF Image
    <3> QED BY <1>2, <2>1, <2>2, <3>1 DEF Stored
  <2>6. RevisionsGrow' /\ RevisionIdentifiesState'
    BY <1>0, <1>1, <1>2, <1>6, <2>1 DEF IInv, RevisionsGrow, RevisionIdentifiesState
  <2>7. DirtyIsExact'
    <3>1. policy' = reconciled_startup(startup', lab'.ports)
      BY <2>1, <2>2
    <3> QED BY <2>1, <3>1 DEF DirtyIsExact
  <2>8. EntriesScoped'
    <3>1. ASSUME NEW i \in 1..Len(disk'.idempotency) PROVE Scoped(disk.idempotency[i])'
      BY <1>0, <1>1, <1>2, <1>5, <2>1 DEF Scoped
    <3> QED BY <1>0, <2>1, <3>1 DEF EntriesScoped
  <2> QED BY <1>3, <2>3, <2>4, <2>5, <2>6, <2>7, <2>8 DEF IInv
<1>7. CASE o # "ok"
  <2>1. UNCHANGED <<up, lab, policy, startup, dirty, revision, configuration_revision, incarnation,
                    idempotency, minted, inforce>>
    BY <1>7 DEF Boot, published
  <2>2. TypeOK' /\ PortsMatch'
    BY <1>0, <1>1, <1>2, <2>1 DEF IInv, TypeOK, PortsMatch
  <2>3. Stored' /\ RevisionsGrow' /\ RevisionIdentifiesState' /\ DirtyIsExact'
    BY <1>0, <1>1, <1>2, <2>1
       DEF IInv, Stored, RevisionsGrow, RevisionIdentifiesState, DirtyIsExact
  <2>4. EntriesScoped'
    <3>1. ASSUME NEW i \in 1..Len(disk'.idempotency) PROVE Scoped(disk.idempotency[i])'
      BY <1>0, <1>1, <1>2, <1>5, <2>1 DEF Scoped
    <3> QED BY <1>0, <1>5, <2>1, <3>1 DEF EntriesScoped
  <2> QED BY <1>3, <2>2, <2>3, <2>4 DEF IInv
<1> QED BY <1>6, <1>7

\* Every step keeps the invariant.
LEMMA NextInv == IInv /\ [Next]_vars => IInv'
<1> SUFFICES ASSUME IInv, [Next]_vars PROVE IInv'
  OBVIOUS
<1>0. up \in BOOLEAN /\ fault \in BOOLEAN
  BY DEF IInv, TypeOK
<1>1. CASE \E c \in Command, k \in Key \cup {NoKey}, b \in Basis, o \in Outcome : Execute(c, k, b, o)
  BY <1>1, ExecuteInv
<1>2. CASE \E c \in Command, k \in Key : Replay(c, k)
  BY <1>2, ReplayInv
<1>3. CASE Read
  BY <1>3, ReadInv
<1>4. CASE Crash
  BY <1>0, <1>4, StopInv DEF Crash
<1>5. CASE \E o \in Outcome : Boot(o)
  BY <1>5, BootInv
<1>6. CASE UNCHANGED vars
  BY <1>0, <1>6, StopInv DEF vars
<1> QED BY <1>1, <1>2, <1>3, <1>4, <1>5, <1>6 DEF Next

-----------------------------------------------------------------------------
(***************************************************************************)
(* Theorems                                                                *)
(***************************************************************************)

\* The inductive invariant holds in every state.
THEOREM Invariance == Spec => []IInv
BY InitInv, NextInv, PTL DEF Spec

\* Optimistic concurrency of Engine._execute: an accepted revision is the
\* revision of the state that was read, through faults and restarts.
THEOREM RevisionsAreSound == Spec => []RevisionIdentifiesState
<1>1. IInv => RevisionIdentifiesState
  BY DEF IInv
<1> QED BY <1>1, Invariance, PTL

\* The configuration_dirty flag of the published state is exact.
THEOREM DirtyFlagExact == Spec => []DirtyIsExact
<1>1. IInv => DirtyIsExact
  BY DEF IInv
<1> QED BY <1>1, Invariance, PTL

\* The store and the published state agree while storage is healthy, and the
\* stored policy has a row for each stored port.
THEOREM StoreCoherence == Spec => []StoreIsCoherent
<1>1. IInv => StoreIsCoherent
  BY DEF IInv, StoreIsCoherent, Stored, PortsMatch, PolicyOf
<1> QED BY <1>1, Invariance, PTL

\* A retry with an idempotency key neither repeats a change nor is answered
\* for one that is gone, whatever became of the first attempt.
THEOREM SafeRetries == Spec => []RetriesAreSafe
<1>1. IInv => RetriesAreSafe
  BY DEF IInv
<1> QED BY <1>1, Invariance, PTL

-----------------------------------------------------------------------------
(***************************************************************************)
(* What a step may never do                                                *)
(***************************************************************************)

\* Whatever a step leaves on disk, a boot and a failed transaction leave the
\* lab and the saved policy there.
LEMMA DiskSteps ==
    ASSUME [Next]_vars
    PROVE  \/ disk'.lab = disk.lab /\ disk'.startup = disk.startup
           \/ \E c \in Command, k \in Key \cup {NoKey} :
                 up /\ ~fault /\ Accepted(c) /\ disk' = Written(c, k)
<1>1. ASSUME NEW c \in Command, NEW k \in Key \cup {NoKey}, NEW b \in Basis, NEW o \in Outcome,
             Execute(c, k, b, o)
      PROVE  disk' = disk \/ (up /\ ~fault /\ Accepted(c) /\ disk' = Written(c, k))
  BY <1>1 DEF Execute
<1>2. ASSUME NEW c \in Command, NEW k \in Key, Replay(c, k) PROVE disk' = disk
  BY <1>2 DEF Replay
<1>3. Read \/ Crash \/ UNCHANGED vars => disk' = disk
  BY DEF Read, Crash, vars
<1>4. ASSUME NEW o \in Outcome, Boot(o)
      PROVE  disk'.lab = disk.lab /\ disk'.startup = disk.startup
  BY <1>4 DEF Boot
<1> QED BY <1>1, <1>2, <1>3, <1>4 DEF Next

\* The saved policy of a port changes only to the running one.
LEMMA SavesOnlyRunning ==
    ASSUME IInv, [Next]_vars, NEW p \in lab.ports \cap disk.lab.ports \cap disk'.lab.ports,
           disk'.startup.ports[p] # disk.startup.ports[p]
    PROVE  disk'.startup = policy
<1>1. PICK c \in Command, k \in Key \cup {NoKey} :
        up /\ ~fault /\ Accepted(c) /\ disk' = Written(c, k)
  BY DiskSteps
<1>2. /\ disk'.lab = NextLab(c)
      /\ disk'.startup = next_startup(c, NextPolicy(c), NextLab(c).ports)
      /\ disk.startup = startup /\ startup \in PolicyOf(lab.ports)
  BY <1>1, WrittenSound DEF IInv, Stored, PortsMatch
<1>3. CASE c[1] = "save-startup"
  BY <1>2, <1>3 DEF next_startup, NextPolicy
<1>4. CASE c[1] \in {"port-create", "port-delete"}
  <2>1. disk'.startup = reconciled_startup(startup, NextLab(c).ports)
    BY <1>2, <1>4 DEF next_startup
  <2>2. p \in NextLab(c).ports /\ p \in DOMAIN startup.ports
    BY <1>2 DEF PolicyOf
  <2>3. reconciled_startup(startup, NextLab(c).ports).ports[p] = startup.ports[p]
    BY <2>2 DEF reconciled_startup
  <2> QED BY <1>2, <2>1, <2>3
<1>5. CASE c[1] \notin {"save-startup", "port-create", "port-delete"}
  BY <1>2, <1>5 DEF next_startup
<1> QED BY <1>3, <1>4, <1>5

\* A port appears on disk only with a number that was not handed out.
LEMMA FreshNumbers ==
    ASSUME IInv, [Next]_vars
    PROVE  (disk'.lab.ports \ disk.lab.ports) \cap handed = {}
<1>1. CASE disk'.lab = disk.lab
  BY <1>1
<1>2. CASE disk'.lab # disk.lab
  <2>1. PICK c \in Command, k \in Key \cup {NoKey} :
          up /\ ~fault /\ Accepted(c) /\ disk' = Written(c, k)
    BY <1>2, DiskSteps
  <2>2. disk'.lab = NextLab(c) /\ disk.lab = lab /\ lab \in Lab /\ lab.next >= 1
    BY <2>1, WrittenSound DEF IInv, Stored, AllocatorAhead, TypeOK
  <2>3. NextLab(c).ports \subseteq lab.ports \cup {lab.next}
    BY <2>1, <2>2, NextLabSound
  <2>4. lab.next \notin handed
    BY <2>2 DEF IInv, AllocatorAhead, Lab
  <2> QED BY <2>2, <2>3, <2>4
<1> QED BY <1>1, <1>2

\* No command of the engine saves running policy that the client did not ask
\* to save, and no fault or restart does.
THEOREM StartupPolicyOnlySaved == Spec => NoImplicitSave
<1>1. IInv /\ [Next]_vars =>
        [\A p \in lab.ports \cap disk.lab.ports \cap disk'.lab.ports :
            disk'.startup.ports[p] # disk.startup.ports[p] => disk'.startup = policy]_vars
  BY SavesOnlyRunning
<1> QED BY <1>1, Invariance, PTL DEF Spec, NoImplicitSave

\* The allocator of the lab hands out an interface number once, over
\* deletions, uncertain commits and restarts.
THEOREM NumbersNeverReused == Spec => NumbersAreFresh
<1>1. IInv /\ [Next]_vars => [(disk'.lab.ports \ disk.lab.ports) \cap handed = {}]_vars
  BY FreshNumbers
<1> QED BY <1>1, Invariance, PTL DEF Spec, NumbersAreFresh

=============================================================================
