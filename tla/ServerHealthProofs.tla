------------------------- MODULE ServerHealthProofs -------------------------
(***************************************************************************)
(* Probes of unavailable RADIUS servers, for any number of attempts,       *)
(* servers and edits: proofs about ServerHealth.                           *)
(***************************************************************************)
EXTENDS ServerHealth, TLAPS

-----------------------------------------------------------------------------
(***************************************************************************)
(* The inductive invariant                                                 *)
(***************************************************************************)

\* An exchange is with a server of the list, and no record or exchange is of a
\* generation that is still to come, so an edit makes records nobody holds.
Known ==
    /\ \A a \in Attempt : /\ Exchanging(a) => task[a].i \in 1..Len(Servers)
                          /\ task[a].generation <= edits
    /\ \A s \in Server : health[s] # None => health[s].generation <= edits

IInv == TypeOK /\ Known /\ ProbesHeld /\ OneProbe

-----------------------------------------------------------------------------
(***************************************************************************)
(* Reports                                                                 *)
(***************************************************************************)

\* The records h a report of attempt a may leave: only the record of its server
\* changes, only if it is the one taken, and its state only if a is current;
\* the probe of another attempt is ended only by hearing the server.
Reported(a, h) ==
    /\ h \in [Server -> Health \cup {None}]
    /\ \A s \in Server : s # Partner(a) \/ ~SameRecord(a) => h[s] = health[s]
    /\ SameRecord(a) =>
          /\ h[Partner(a)] \in Health
          /\ h[Partner(a)].generation = health[Partner(a)].generation
          /\ h[Partner(a)].probe_owner \in {None, health[Partner(a)].probe_owner}
          /\ \/ h[Partner(a)].probe_owner = health[Partner(a)].probe_owner
             \/ h[Partner(a)].available = "yes"
             \/ health[Partner(a)].probe_owner = a
          /\ h[Partner(a)].available = health[Partner(a)].available \/ a \in current

\* The records h seen by an attempt a that is in no exchange any more: it owns
\* no probe.
Leaves(a, h) ==
    /\ h \in [Server -> Health \cup {None}]
    /\ \A s \in Server : h[s] # None =>
          /\ health[s] # None
          /\ h[s].generation = health[s].generation
          /\ h[s].probe_owner \in {None, health[s].probe_owner} \ {a}
          /\ \/ h[s].probe_owner = health[s].probe_owner
             \/ h[s].available = "yes"
             \/ health[s].probe_owner = a

\* An exchange is with a known server.
LEMMA PartnerIsServer ==
    ASSUME IInv, NEW a \in Attempt, Exchanging(a)
    PROVE  Partner(a) \in Server
BY DEF IInv, Known, Partner, Server

\* The parts of a health record.
LEMMA RecordParts ==
    ASSUME IInv, NEW s \in Server, health[s] # None
    PROVE  /\ health[s] \in Health
           /\ health[s].signature \in Signature /\ health[s].generation \in 0..MaxEdits
           /\ health[s].available \in {"unknown", "yes", "no"}
           /\ health[s].failures \in 0..Len(Delay) /\ health[s].probe_after \in Nat
           /\ health[s].probe_owner \in Attempt \cup {None}
<1>1. health[s] \in Health
  BY DEF IInv, TypeOK
<1> QED BY <1>1 DEF Health

\* The health record as _server_response and _server_exhausted leave it.
LEMMA ReportShape ==
    ASSUME IInv, NEW a \in Attempt, Exchanging(a)
    PROVE  /\ Reported(a, health)
           /\ Reported(a, server_response(a))
           /\ Reported(a, server_exhausted(a))
<1> DEFINE s == Partner(a)
           r == health[s]
<1>0. s \in Server /\ health \in [Server -> Health \cup {None}] /\ now \in Nat
  BY PartnerIsServer, ServerHealthAssumption DEF IInv, TypeOK
<1>1. Reported(a, health)
  BY <1>0 DEF Reported, SameRecord
<1>2. CASE ~Counts(a)
  BY <1>1, <1>2 DEF server_response, server_exhausted
<1>3. CASE Counts(a)
  <2>1. a \in current /\ SameRecord(a) /\ r # None
    BY <1>3 DEF Counts, SameRecord
  <2>2. /\ r \in Health /\ r.signature \in Signature /\ r.generation \in 0..MaxEdits
        /\ r.failures \in 0..Len(Delay) /\ r.probe_owner \in Attempt \cup {None}
    BY <1>0, <2>1, RecordParts
  <2>3. Reported(a, server_response(a))
    <3> DEFINE x == [r EXCEPT !.available = "yes", !.failures = 0, !.probe_after = 0,
                              !.probe_owner = None]
    <3>1. server_response(a) = [health EXCEPT ![s] = x]
      BY <1>0, <1>3, <2>2 DEF server_response
    <3>2. x \in Health /\ x.generation = r.generation /\ x.available = "yes" /\ x.probe_owner = None
      <4>1. 0 \in 0..Len(Delay)
        BY ServerHealthAssumption
      <4> HIDE DEF r
      <4> QED BY <2>2, <4>1 DEF Health
    <3> HIDE DEF x, s
    <3> QED BY <1>0, <2>1, <3>1, <3>2 DEF Reported, s
  <2>4. Reported(a, server_exhausted(a))
    <3> DEFINE n == IF r.failures < Len(Delay) THEN r.failures + 1 ELSE Len(Delay)
               x == [r EXCEPT !.failures = n, !.available = "no", !.probe_after = now + Delay[n]]
    <3>1. server_exhausted(a) = [health EXCEPT ![s] = x]
      BY <1>0, <1>3, <2>2 DEF server_exhausted
    <3>2. n \in 1..Len(Delay) /\ Len(Delay) \in Nat /\ Delay[n] \in Nat
      BY <2>2, ServerHealthAssumption
    <3> HIDE DEF n
    <3>3. x \in Health /\ x.generation = r.generation /\ x.probe_owner = r.probe_owner
      <4>1. n \in 0..Len(Delay) /\ now + Delay[n] \in Nat
        BY <1>0, <3>2
      <4> HIDE DEF r
      <4> QED BY <2>2, <4>1 DEF Health
    <3> HIDE DEF x, s
    <3> QED BY <1>0, <2>1, <3>1, <3>3 DEF Reported, s
  <2> QED BY <1>1, <2>3, <2>4
<1> QED BY <1>2, <1>3

\* After _release_server the attempt owns no probe.
LEMMA ReleaseShape ==
    ASSUME IInv, NEW a \in Attempt, Exchanging(a), NEW h, Reported(a, h)
    PROVE  Reported(a, release_server(a, h)) /\ Leaves(a, release_server(a, h))
<1> DEFINE s == Partner(a)
           g == release_server(a, h)
           x == [h[s] EXCEPT !.probe_owner = None]
<1>0. s \in Server /\ h \in [Server -> Health \cup {None}] /\ None \notin Attempt
  BY PartnerIsServer, ServerHealthAssumption DEF Reported
<1>1. CASE SameRecord(a) /\ h[s].probe_owner = a
  <2>1. h[s] \in Health /\ health[s] # None /\ health[s].probe_owner = a
    BY <1>0, <1>1, ServerHealthAssumption DEF Reported, SameRecord
  <2>2. /\ x \in Health /\ x.generation = h[s].generation
        /\ x.available = h[s].available /\ x.probe_owner = None
    BY <2>1 DEF Health
  <2>3. g = [h EXCEPT ![s] = x]
    BY <1>1 DEF release_server
  <2> HIDE DEF x, g, s
  <2>4. /\ g \in [Server -> Health \cup {None}] /\ g[s] = x
        /\ \A t \in Server : t # s => g[t] = h[t]
    BY <1>0, <2>2, <2>3
  <2>5. Reported(a, g)
    BY <1>0, <1>1, <2>1, <2>2, <2>4 DEF Reported, s
  <2>6. ASSUME NEW t \in Server, t # s, g[t] # None
        PROVE  health[t] # None /\ g[t] = health[t] /\ health[t].probe_owner # a
    BY <1>0, <2>4, <2>6 DEF Reported, IInv, ProbesHeld, s
  <2>7. ASSUME NEW t \in Server, g[t] # None
        PROVE  /\ health[t] # None /\ g[t].generation = health[t].generation
               /\ g[t].probe_owner \in {None, health[t].probe_owner} \ {a}
               /\ g[t].probe_owner = health[t].probe_owner \/ health[t].probe_owner = a
    <3>1. CASE t = s
      BY <1>0, <1>1, <2>1, <2>2, <2>4, <3>1 DEF Reported, s
    <3>2. CASE t # s
      BY <2>6, <2>7, <3>2
    <3> QED BY <3>1, <3>2
  <2> QED BY <2>4, <2>5, <2>7 DEF Leaves, g
<1>2. CASE ~(SameRecord(a) /\ h[s].probe_owner = a)
  <2>1. g = h
    BY <1>2 DEF release_server
  <2> HIDE DEF g
  <2>2. ASSUME NEW t \in Server, h[t] # None
        PROVE  /\ health[t] # None /\ h[t].generation = health[t].generation
               /\ h[t].probe_owner \in {None, health[t].probe_owner} \ {a}
               /\ \/ h[t].probe_owner = health[t].probe_owner
                  \/ h[t].available = "yes"
                  \/ health[t].probe_owner = a
    <3>1. CASE t = s /\ SameRecord(a)
      BY <1>2, <2>2, <3>1 DEF Reported, SameRecord
    <3>2. CASE ~(t = s /\ SameRecord(a))
      <4>1. h[t] = health[t] /\ health[t].probe_owner \in Attempt \cup {None}
        BY <2>2, <3>2, RecordParts DEF Reported
      <4>2. health[t].probe_owner # a
        BY <1>0, <2>2, <3>2, <4>1 DEF IInv, ProbesHeld
      <4> QED BY <2>2, <4>1, <4>2
    <3> QED BY <3>1, <3>2
  <2> QED BY <1>0, <2>1, <2>2 DEF Leaves, g
<1> QED BY <1>1, <1>2

-----------------------------------------------------------------------------
(***************************************************************************)
(* The steps                                                               *)
(***************************************************************************)

\* A step of attempt a, given what it makes of the records and of its own task.
LEMMA StepInv ==
    ASSUME IInv, NEW a \in Attempt, UNCHANGED <<settings, now>>, current' \subseteq Attempt,
           health' \in [Server -> Health \cup {None}], task' \in [Attempt -> Task],
           \A s \in Server : health'[s] # None =>
                /\ health[s] # None /\ health'[s].generation = health[s].generation
                /\ health'[s].probe_owner \in {None, health[s].probe_owner, a},
           \A b \in Attempt \ {a} :
                /\ task'[b].phase = task[b].phase /\ task'[b].i = task[b].i
                /\ task'[b].generation = task[b].generation
                /\ Exchanging(b) /\ task'[b].probe /\ SameRecord(b)' =>
                      health'[Partner(b)].probe_owner = b,
           task'[a].generation <= edits,
           Exchanging(a)' => task'[a].i \in 1..Len(Servers),
           \A s \in Server : health'[s] # None /\ health'[s].probe_owner = a =>
                Exchanging(a)' /\ Partner(a)' = s /\ SameRecord(a)',
           Exchanging(a)' /\ task'[a].probe /\ SameRecord(a)' =>
                health'[Partner(a)'].probe_owner = a
    PROVE  IInv'
<1>0. /\ cfg' = cfg /\ enabled' = enabled /\ edits' = edits /\ now' = now
      /\ None \notin Attempt
  BY ServerHealthAssumption DEF settings
<1>1. TypeOK'
  BY <1>0 DEF IInv, TypeOK
<1>2. Known'
  <2>1. ASSUME NEW b \in Attempt
        PROVE  (Exchanging(b)' => task'[b].i \in 1..Len(Servers)) /\ task'[b].generation <= edits
    BY DEF IInv, Known, Exchanging
  <2>2. ASSUME NEW s \in Server, health'[s] # None PROVE health'[s].generation <= edits
    BY <2>2 DEF IInv, Known
  <2> QED BY <1>0, <2>1, <2>2 DEF Known
<1>3. ProbesHeld'
  <2>1. ASSUME NEW s \in Server, NEW b \in Attempt, health'[s] # None, health'[s].probe_owner = b
        PROVE  Exchanging(b)' /\ Partner(b)' = s /\ SameRecord(b)'
    <3>1. CASE b = a
      BY <2>1, <3>1
    <3>2. CASE b # a
      <4>1. b = health[s].probe_owner /\ health[s] # None
        BY <1>0, <2>1, <3>2
      <4>2. Exchanging(b) /\ Partner(b) = s /\ SameRecord(b)
        BY <1>0, <4>1 DEF IInv, ProbesHeld
      <4> QED BY <2>1, <3>2, <4>1, <4>2 DEF Exchanging, Partner, SameRecord
    <3> QED BY <3>1, <3>2
  <2>2. ASSUME NEW s \in Server, health'[s] # None, health'[s].probe_owner # None
        PROVE  health'[s].probe_owner \in Attempt
    <3>1. health'[s] \in Health
      BY <2>2
    <3> QED BY <2>2, <3>1 DEF Health
  <2> QED BY <2>1, <2>2 DEF ProbesHeld
<1>4. OneProbe'
  <2> SUFFICES ASSUME NEW b \in Attempt, Exchanging(b)', task'[b].probe, SameRecord(b)'
               PROVE  health'[Partner(b)'].probe_owner = b
    BY DEF OneProbe
  <2>1. CASE b = a
    BY <2>1
  <2>2. CASE b # a
    BY <2>2 DEF Exchanging, Partner
  <2> QED BY <2>1, <2>2
<1> QED BY <1>1, <1>2, <1>3, <1>4 DEF IInv

\* The tasks of other attempts after a report: those that probed a server which
\* was heard probe no more.
LEMMA OthersKeep ==
    ASSUME IInv, NEW h, NEW b \in Attempt
    PROVE  /\ Others(h)[b] \in Task
           /\ Others(h)[b].phase = task[b].phase /\ Others(h)[b].i = task[b].i
           /\ Others(h)[b].generation = task[b].generation
           /\ Others(h)[b].probe => task[b].probe
           /\ Exchanging(b) /\ Others(h)[b].probe =>
                 h[Partner(b)] = None \/ h[Partner(b)].available # "yes"
<1>1. Others(h)[b] = Unprobed(b, h) /\ task[b] \in Task
  BY DEF Others, IInv, TypeOK
<1> QED BY <1>1 DEF Unprobed, Task

\* Tasks whose probe is ended are still tasks.
LEMMA OthersTyped == ASSUME IInv, NEW h PROVE Others(h) \in [Attempt -> Task]
<1>1. \A b \in Attempt : Unprobed(b, h) \in Task
  BY DEF Unprobed, IInv, TypeOK, Task
<1> QED BY <1>1 DEF Others

\* Another attempt that probes keeps its probe, unless the server is heard.
LEMMA ProbeKept ==
    ASSUME IInv, NEW a \in Attempt, NEW h, Leaves(a, h), NEW b \in Attempt \ {a},
           Exchanging(b), Others(h)[b].probe, h[Partner(b)] # None,
           h[Partner(b)].generation = task[b].generation
    PROVE  h[Partner(b)].probe_owner = b
<1>1. Partner(b) \in Server
  BY PartnerIsServer
<1>2. SameRecord(b) /\ task[b].probe /\ h[Partner(b)].available # "yes"
  BY <1>1, OthersKeep DEF Leaves, SameRecord
<1>3. health[Partner(b)].probe_owner = b
  BY <1>2 DEF IInv, OneProbe
<1> QED BY <1>1, <1>2, <1>3 DEF Leaves

\* A task that is in no exchange.
LEMMA IdleTask == Idle \in Task /\ Idle.phase = "none" /\ Idle.generation = 0
BY ServerHealthAssumption DEF Idle, Task

\* An attempt whose exchange is over, with its probe given back.
LEMMA DoneInv ==
    ASSUME IInv, NEW a \in Attempt, Leaves(a, health'), UNCHANGED <<settings, now>>,
           current' \subseteq Attempt, NEW others \in [Attempt -> Task],
           task' = [others EXCEPT ![a] = Idle],
           \A b \in Attempt \ {a} :
                /\ others[b].phase = task[b].phase /\ others[b].i = task[b].i
                /\ others[b].generation = task[b].generation
                /\ Exchanging(b) /\ others[b].probe /\ health'[Partner(b)] # None
                   /\ health'[Partner(b)].generation = task[b].generation =>
                      health'[Partner(b)].probe_owner = b
    PROVE  IInv'
<1>1. /\ task' \in [Attempt -> Task] /\ task'[a] = Idle
      /\ \A b \in Attempt \ {a} : task'[b] = others[b]
  BY IdleTask
<1>2. task'[a].generation <= edits /\ ~Exchanging(a)'
  BY <1>1, IdleTask DEF Exchanging, IInv, TypeOK
<1>3. /\ health' \in [Server -> Health \cup {None}]
      /\ \A s \in Server : health'[s] # None =>
            /\ health[s] # None /\ health'[s].generation = health[s].generation
            /\ health'[s].probe_owner \in {None, health[s].probe_owner, a}
            /\ health'[s].probe_owner # a
  BY DEF Leaves
<1>4. ASSUME NEW b \in Attempt \ {a}
      PROVE  /\ task'[b].phase = task[b].phase /\ task'[b].i = task[b].i
             /\ task'[b].generation = task[b].generation
             /\ Exchanging(b) /\ task'[b].probe /\ SameRecord(b)' =>
                   health'[Partner(b)].probe_owner = b
  BY <1>1 DEF SameRecord, Partner
<1> QED BY <1>1, <1>2, <1>3, <1>4, StepInv

\* The same when the others hear what the records tell.
LEMMA HeardInv ==
    ASSUME IInv, NEW a \in Attempt, Leaves(a, health'), UNCHANGED <<settings, now>>,
           current' \subseteq Attempt, task' = [Others(health') EXCEPT ![a] = Idle]
    PROVE  IInv'
<1>1. ASSUME NEW b \in Attempt \ {a}
      PROVE  LET o == Others(health')[b]
             IN /\ o.phase = task[b].phase /\ o.i = task[b].i /\ o.generation = task[b].generation
                /\ Exchanging(b) /\ o.probe /\ health'[Partner(b)] # None
                   /\ health'[Partner(b)].generation = task[b].generation =>
                      health'[Partner(b)].probe_owner = b
  BY OthersKeep, ProbeKept
<1>2. Others(health') \in [Attempt -> Task]
  BY OthersTyped
<1> QED BY <1>1, <1>2, DoneInv

\* An attempt without an exchange begins one, or stops.
LEMMA GoInv ==
    ASSUME IInv, NEW a \in Attempt, NEW h, Leaves(a, h), NEW i \in Nat \ {0}, Go(a, h, i),
           UNCHANGED <<settings, now>>
    PROVE  IInv'
<1> DEFINE open == {j \in i..Len(Servers) : Takes(a, h, Servers[j])}
<1>0. /\ h \in [Server -> Health \cup {None}] /\ current \subseteq Attempt /\ None \notin Attempt
      /\ edits \in Nat /\ \A b \in Attempt : Others(h)[b] \in Task
      /\ Others(h) \in [Attempt -> Task]
  BY OthersKeep, OthersTyped, ServerHealthAssumption DEF Leaves, IInv, TypeOK
<1>1. CASE a \in current /\ open # {}
  <2>1. PICK j \in open :
          /\ task' = [Others(h) EXCEPT ![a] =
               [phase |-> "exchange", i |-> j, generation |-> h[Servers[j]].generation,
                probe |-> h[Servers[j]].available = "no"]]
          /\ health' = Taken(a, h, Servers[j])
          /\ current' = current
    BY <1>1 DEF Go
  <2> DEFINE s == Servers[j]
             t == [phase |-> "exchange", i |-> j, generation |-> h[s].generation,
                   probe |-> h[s].available = "no"]
             x == [h[s] EXCEPT !.probe_owner = a]
  <2>2. /\ j \in 1..Len(Servers) /\ s \in Server /\ h[s] # None /\ h[s] \in Health
        /\ h[s].available = "no" => h[s].probe_owner = None
    BY <1>0, <2>1 DEF Takes, Server, Leaves
  <2>3. h[s].generation \in 0..MaxEdits /\ h[s].generation <= edits
    BY <2>2 DEF Leaves, Health, IInv, Known
  <2>4. t \in Task /\ t.phase = "exchange" /\ t.i = j /\ t.generation = h[s].generation
        /\ t.probe = (h[s].available = "no")
    BY <2>2, <2>3 DEF Task
  <2>5. task' = [Others(h) EXCEPT ![a] = t]
    BY <2>1
  <2> HIDE DEF t
  <2>6. task' \in [Attempt -> Task] /\ task'[a] = t /\ \A b \in Attempt \ {a} : task'[b] = Others(h)[b]
    BY <1>0, <2>4, <2>5
  <2>7. x \in Health /\ x.generation = h[s].generation /\ x.probe_owner = a
    BY <2>2 DEF Health
  <2>8. health' = IF h[s].available = "no" THEN [h EXCEPT ![s] = x] ELSE h
    BY <2>1 DEF Taken
  <2> HIDE DEF x
  <2>9. /\ health' \in [Server -> Health \cup {None}]
        /\ \A r \in Server : r # s \/ h[s].available # "no" => health'[r] = h[r]
        /\ h[s].available = "no" => health'[s] = x
    BY <1>0, <2>2, <2>7, <2>8
  <2>10. Exchanging(a)' /\ Partner(a)' = s
    BY <2>4, <2>6 DEF Exchanging, Partner
  <2>11. ASSUME NEW r \in Server, health'[r] # None
         PROVE  /\ health[r] # None /\ health'[r].generation = health[r].generation
                /\ health'[r].probe_owner \in {None, health[r].probe_owner, a}
                /\ health'[r].probe_owner = a => r = s
    BY <2>2, <2>7, <2>9, <2>11 DEF Leaves
  <2>12. ASSUME NEW b \in Attempt \ {a}
         PROVE  /\ task'[b].phase = task[b].phase /\ task'[b].i = task[b].i
                /\ task'[b].generation = task[b].generation
                /\ Exchanging(b) /\ task'[b].probe /\ SameRecord(b)' =>
                      health'[Partner(b)].probe_owner = b
    <3>1. /\ task'[b].phase = task[b].phase /\ task'[b].i = task[b].i
          /\ task'[b].generation = task[b].generation /\ Partner(b)' = Partner(b)
      BY <2>6, OthersKeep DEF Partner
    <3>2. ASSUME Exchanging(b), task'[b].probe, SameRecord(b)'
          PROVE  health'[Partner(b)].probe_owner = b
      <4>1. /\ Partner(b) \in Server /\ health'[Partner(b)] # None
            /\ health'[Partner(b)].generation = task[b].generation
        BY <3>1, <3>2, PartnerIsServer DEF SameRecord
      <4>2. h[Partner(b)] # None /\ h[Partner(b)].generation = task[b].generation
        BY <2>2, <2>7, <2>9, <4>1
      <4>3. h[Partner(b)].probe_owner = b
        BY <2>6, <3>2, <4>2, ProbeKept
      <4> QED BY <1>0, <2>2, <2>9, <4>1, <4>3
    <3> QED BY <3>1, <3>2
  <2>13. task'[a].generation <= edits /\ task'[a].i \in 1..Len(Servers)
    BY <2>2, <2>3, <2>4, <2>6
  <2>14. ASSUME NEW r \in Server, health'[r] # None, health'[r].probe_owner = a
         PROVE  Exchanging(a)' /\ Partner(a)' = r /\ SameRecord(a)'
    <3>1. r = s /\ health'[s].generation = h[s].generation
      BY <2>2, <2>7, <2>9, <2>11, <2>14
    <3> QED BY <2>4, <2>6, <2>10, <2>14, <3>1 DEF SameRecord
  <2>15. task'[a].probe => health'[Partner(a)'].probe_owner = a
    BY <2>4, <2>6, <2>7, <2>9, <2>10
  <2> HIDE DEF s
  <2> QED BY <1>0, <2>1, <2>6, <2>9, <2>11, <2>12, <2>13, <2>14, <2>15, StepInv
<1>2. CASE ~(a \in current /\ open # {})
  <2>1. task' = [Others(h) EXCEPT ![a] = Idle] /\ health' = h /\ current' = current \ {a}
    BY <1>2 DEF Go
  <2> QED BY <1>0, <2>1, HeardInv
<1> QED BY <1>1, <1>2

\* An attempt starts.
LEMMA StartInv == ASSUME IInv, NEW a \in Attempt, Start(a) PROVE IInv'
<1>1. Leaves(a, health)
  <2>1. ASSUME NEW s \in Server, health[s] # None PROVE health[s].probe_owner # a
    BY <2>1, ServerHealthAssumption DEF Start, IInv, ProbesHeld
  <2> QED BY <2>1 DEF Leaves, IInv, TypeOK
<1> QED BY <1>1, GoInv DEF Start

\* An exchange got no answer in all its tries.
LEMMA ExhaustedInv == ASSUME IInv, NEW a \in Attempt, Exhausted(a) PROVE IInv'
<1>1. Exchanging(a) /\ Leaves(a, release_server(a, server_exhausted(a)))
  BY ReportShape, ReleaseShape DEF Exhausted
<1>2. task[a].i + 1 \in Nat \ {0}
  BY <1>1 DEF IInv, Known
<1> QED BY <1>1, <1>2, GoInv DEF Exhausted

\* An answer ends the attempt.
LEMMA AnswerInv == ASSUME IInv, NEW a \in Attempt, NEW applied, Answer(a, applied) PROVE IInv'
<1>1. Exchanging(a) /\ Leaves(a, health')
  BY ReportShape, ReleaseShape DEF Answer
<1> QED BY <1>1, HeardInv DEF Answer, IInv, TypeOK

\* An exchange that ends without a report.
LEMMA ReleaseInv ==
    ASSUME IInv, NEW a \in Attempt, Exchanging(a), health' = release_server(a, health),
           task' = [task EXCEPT ![a] = Idle], current' \subseteq Attempt, UNCHANGED <<settings, now>>
    PROVE  IInv'
<1>1. Leaves(a, health') /\ task \in [Attempt -> Task]
  BY ReportShape, ReleaseShape DEF IInv, TypeOK
<1>2. ASSUME NEW b \in Attempt \ {a}, Exchanging(b), task[b].probe, health'[Partner(b)] # None,
             health'[Partner(b)].generation = task[b].generation
      PROVE  health'[Partner(b)].probe_owner = b
  <2>1. Partner(b) \in Server
    BY <1>2, PartnerIsServer
  <2>2. SameRecord(b)
    BY <1>1, <1>2, <2>1 DEF Leaves, SameRecord
  <2>3. health[Partner(b)].probe_owner = b
    BY <1>2, <2>2 DEF IInv, OneProbe
  <2>4. health'[Partner(b)] = health[Partner(b)]
    BY <2>1, <2>3 DEF release_server, IInv, TypeOK
  <2> QED BY <2>3, <2>4
<1> QED BY <1>1, <1>2, DoneInv

\* A packet that does not end the exchange: the attempt goes on with it.
LEMMA ResponseInv == ASSUME IInv, NEW a \in Attempt, Response(a) PROVE IInv'
<1>0. /\ Exchanging(a) /\ health' = server_response(a) /\ task' = Others(health')
      /\ UNCHANGED <<settings, now>> /\ current' \subseteq Attempt
      /\ None \notin Attempt
  BY ServerHealthAssumption DEF Response, IInv, TypeOK
<1>1. Reported(a, health') /\ Partner(a) \in Server
  BY <1>0, ReportShape, PartnerIsServer
<1>2. task' \in [Attempt -> Task]
  BY <1>0, OthersTyped
<1>3. ASSUME NEW b \in Attempt
      PROVE  /\ task'[b].phase = task[b].phase /\ task'[b].i = task[b].i
             /\ task'[b].generation = task[b].generation /\ Partner(b)' = Partner(b)
             /\ task'[b].probe => task[b].probe
             /\ Exchanging(b) /\ task'[b].probe =>
                   health'[Partner(b)] = None \/ health'[Partner(b)].available # "yes"
  BY <1>0, OthersKeep DEF Partner
<1>4. health' = health \/ (/\ SameRecord(a) /\ health'[Partner(a)].available = "yes"
                           /\ health'[Partner(a)].probe_owner = None)
  <2>1. CASE Counts(a)
    <3>1. health[Partner(a)] \in Health
      BY <1>1, <2>1, RecordParts DEF Counts, SameRecord
    <3>2. health'[Partner(a)] = [health[Partner(a)] EXCEPT !.available = "yes", !.failures = 0,
                                        !.probe_after = 0, !.probe_owner = None]
      BY <1>0, <1>1, <2>1 DEF server_response, IInv, TypeOK
    <3> QED BY <2>1, <3>1, <3>2 DEF Counts, Health
  <2>2. CASE ~Counts(a)
    BY <1>0, <2>2 DEF server_response
  <2> QED BY <2>1, <2>2
<1>5. ASSUME NEW s \in Server, health'[s] # None
      PROVE  /\ health[s] # None /\ health'[s].generation = health[s].generation
             /\ health'[s].probe_owner \in {None, health[s].probe_owner}
             /\ health'[s].probe_owner = health[s].probe_owner \/ health'[s].available = "yes"
  BY <1>1, <1>4, <1>5 DEF Reported, SameRecord
<1>6. ASSUME NEW b \in Attempt, Exchanging(b), task'[b].probe, SameRecord(b)'
      PROVE  health'[Partner(b)].probe_owner = b
  <2>1. /\ Partner(b) \in Server /\ health'[Partner(b)] # None
        /\ health'[Partner(b)].generation = task[b].generation
    BY <1>3, <1>6, PartnerIsServer DEF SameRecord
  <2>2. SameRecord(b)
    BY <1>5, <2>1 DEF SameRecord
  <2>3. health[Partner(b)].probe_owner = b
    BY <1>3, <1>6, <2>2 DEF IInv, OneProbe
  <2> QED BY <1>3, <1>5, <1>6, <2>1, <2>3
<1>7. task'[a].generation <= edits /\ task'[a].i \in 1..Len(Servers) /\ Exchanging(a)'
  BY <1>0, <1>3 DEF IInv, Known, Exchanging
<1>8. ASSUME NEW s \in Server, health'[s] # None, health'[s].probe_owner = a
      PROVE  Exchanging(a)' /\ Partner(a)' = s /\ SameRecord(a)'
  <2>1. health[s] # None /\ health[s].probe_owner = a
    BY <1>0, <1>5, <1>8
  <2>2. Partner(a) = s /\ SameRecord(a)
    BY <1>0, <2>1 DEF IInv, ProbesHeld
  <2> QED BY <1>3, <1>5, <1>7, <1>8, <2>2 DEF SameRecord
<1>9. health' \in [Server -> Health \cup {None}]
  BY <1>1 DEF Reported
<1> QED BY <1>0, <1>2, <1>3, <1>5, <1>6, <1>7, <1>8, <1>9, StepInv

\* A step that leaves records and tasks alone.
LEMMA ElseInv ==
    ASSUME IInv, UNCHANGED <<settings, health, task>>, now' \in 0..MaxTime, current' \subseteq Attempt
    PROVE  IInv'
BY DEF IInv, settings, TypeOK, Known, ProbesHeld, OneProbe, Exchanging, Partner, SameRecord

\* A record after an edit is the one before, none, or of a new generation.
LEMMA EditShape ==
    ASSUME IInv, NEW s \in Server, NEW signature \in Signature \cup {None}, NEW on \in BOOLEAN,
           Edit(s, signature, on)
    PROVE  /\ edits' = edits + 1 /\ edits' \in 0..MaxEdits
           /\ cfg' \in [Server -> Signature \cup {None}] /\ enabled' \subseteq Server
           /\ health' \in [Server -> Health \cup {None}]
           /\ \A r \in Server : health'[r] # None =>
                 \/ health[r] # None /\ health'[r] = health[r]
                 \/ health'[r].generation = edits + 1 /\ health'[r].probe_owner = None
<1> DEFINE c == [cfg EXCEPT ![s] = signature]
<1>1. /\ edits' = edits + 1 /\ edits' \in 0..MaxEdits
      /\ cfg' \in [Server -> Signature \cup {None}] /\ enabled' \subseteq Server
      /\ c \in [Server -> Signature \cup {None}]
  BY ServerHealthAssumption DEF Edit, IInv, TypeOK
<1>2. health' = [r \in Server |-> Synced(r, c)]
  BY DEF Edit
<1> HIDE DEF c
<1>3. ASSUME NEW r \in Server
      PROVE  /\ Synced(r, c) \in Health \cup {None}
             /\ Synced(r, c) # None =>
                   \/ health[r] # None /\ Synced(r, c) = health[r]
                   \/ Synced(r, c).generation = edits + 1 /\ Synced(r, c).probe_owner = None
  <2>1. c[r] # None => New(c[r], edits') \in Health
    BY <1>1, ServerHealthAssumption DEF New, Health
  <2>2. New(c[r], edits').generation = edits + 1 /\ New(c[r], edits').probe_owner = None
    BY <1>1 DEF New
  <2> QED BY <2>1, <2>2 DEF Synced, IInv, TypeOK
<1> QED BY <1>1, <1>2, <1>3

\* The servers are edited: what changes gets a record of a new generation.
LEMMA EditInv ==
    ASSUME IInv, NEW s \in Server, NEW signature \in Signature \cup {None}, NEW on \in BOOLEAN,
           Edit(s, signature, on)
    PROVE  IInv'
<1>0. /\ task' = task /\ now' = now /\ current' = {} /\ edits \in Nat
      /\ task \in [Attempt -> Task] /\ None \notin Attempt
  BY ServerHealthAssumption DEF Edit, IInv, TypeOK
<1>1. /\ edits' = edits + 1 /\ edits' \in 0..MaxEdits
      /\ cfg' \in [Server -> Signature \cup {None}] /\ enabled' \subseteq Server
      /\ health' \in [Server -> Health \cup {None}]
      /\ \A r \in Server : health'[r] # None =>
            \/ health[r] # None /\ health'[r] = health[r]
            \/ health'[r].generation = edits + 1 /\ health'[r].probe_owner = None
  BY EditShape
<1>2. TypeOK'
  BY <1>0, <1>1 DEF IInv, TypeOK
<1>3. Known'
  <2>1. \A a \in Attempt : task[a].generation \in Nat /\ task[a].generation <= edits
    BY <1>0 DEF IInv, Known, Task
  <2>2. \A r \in Server : health'[r] # None => health'[r].generation <= edits + 1
    <3> SUFFICES ASSUME NEW r \in Server, health'[r] # None PROVE health'[r].generation <= edits + 1
      OBVIOUS
    <3>1. CASE health[r] # None /\ health'[r] = health[r]
      BY <1>0, <3>1, RecordParts DEF IInv, Known
    <3> QED BY <1>0, <1>1, <3>1
  <2>3. \A a \in Attempt : task[a].generation <= edits + 1
    BY <1>0, <2>1
  <2> QED BY <1>0, <1>1, <2>2, <2>3 DEF IInv, Known, Exchanging
<1>4. ASSUME NEW a \in Attempt, Exchanging(a)
      PROVE  /\ Partner(a)' = Partner(a) /\ Partner(a) \in Server
             /\ SameRecord(a)' => SameRecord(a) /\ health'[Partner(a)] = health[Partner(a)]
  <2>1. Partner(a)' = Partner(a) /\ Partner(a) \in Server
    BY <1>0, <1>4, PartnerIsServer DEF Partner
  <2>2. task[a].generation # edits + 1
    BY <1>0 DEF IInv, Known, Task
  <2> QED BY <1>0, <1>1, <2>1, <2>2 DEF SameRecord
<1>5. ProbesHeld'
  <2>1. ASSUME NEW r \in Server, NEW a \in Attempt, health'[r] # None, health'[r].probe_owner = a
        PROVE  Exchanging(a)' /\ Partner(a)' = r /\ SameRecord(a)'
    <3>1. health[r] # None /\ health'[r] = health[r] /\ health[r].probe_owner = a
      BY <1>0, <1>1, <2>1
    <3>2. Exchanging(a) /\ Partner(a) = r /\ SameRecord(a)
      BY <1>0, <3>1 DEF IInv, ProbesHeld
    <3> QED BY <1>0, <2>1, <3>1, <3>2 DEF Exchanging, Partner, SameRecord
  <2>2. ASSUME NEW r \in Server, health'[r] # None, health'[r].probe_owner # None
        PROVE  health'[r].probe_owner \in Attempt
    <3>1. health'[r] \in Health
      BY <1>1, <2>2
    <3> QED BY <2>2, <3>1 DEF Health
  <2> QED BY <2>1, <2>2 DEF ProbesHeld
<1>6. OneProbe'
  <2> SUFFICES ASSUME NEW a \in Attempt, Exchanging(a)', task'[a].probe, SameRecord(a)'
               PROVE  health'[Partner(a)'].probe_owner = a
    BY DEF OneProbe
  <2>1. Exchanging(a) /\ task[a].probe
    BY <1>0 DEF Exchanging
  <2> QED BY <1>4, <2>1 DEF IInv, OneProbe
<1> QED BY <1>2, <1>3, <1>5, <1>6 DEF IInv

\* The invariant holds at the start.
LEMMA InitInv == Init => IInv
<1> SUFFICES ASSUME Init PROVE IInv
  OBVIOUS
<1>1. ASSUME NEW s \in Server
      PROVE  New(cfg[s], 0) \in Health /\ New(cfg[s], 0).generation = 0
             /\ New(cfg[s], 0).probe_owner = None
  BY ServerHealthAssumption DEF Init, New, Health
<1>2. /\ health \in [Server -> Health \cup {None}]
      /\ \A s \in Server : health[s].generation = 0 /\ health[s].probe_owner = None
  BY <1>1 DEF Init
<1>3. task \in [Attempt -> Task] /\ \A a \in Attempt : ~Exchanging(a) /\ task[a].generation = 0
  BY IdleTask DEF Init, Exchanging
<1>4. TypeOK
  BY <1>2, <1>3, ServerHealthAssumption DEF Init, TypeOK
<1>5. Known
  BY <1>2, <1>3 DEF Init, Known
<1> QED BY <1>2, <1>3, <1>4, <1>5 DEF IInv, ProbesHeld, OneProbe

\* Every step keeps the invariant.
LEMMA NextInv == IInv /\ [Next]_vars => IInv'
<1> SUFFICES ASSUME IInv, [Next]_vars PROVE IInv'
  OBVIOUS
<1>0. current \subseteq Attempt /\ now \in 0..MaxTime /\ MaxTime \in Nat
  BY ServerHealthAssumption DEF IInv, TypeOK
<1>1. ASSUME NEW a \in Attempt, Begin(a) PROVE IInv'
  BY <1>0, <1>1, ElseInv DEF Begin
<1>2. ASSUME NEW a \in Attempt, Start(a) PROVE IInv'
  BY <1>2, StartInv
<1>3. ASSUME NEW a \in Attempt, Response(a) PROVE IInv'
  BY <1>3, ResponseInv
<1>4. ASSUME NEW a \in Attempt, Exhausted(a) PROVE IInv'
  BY <1>4, ExhaustedInv
<1>5. ASSUME NEW a \in Attempt, Broken(a) PROVE IInv'
  BY <1>0, <1>5, ReleaseInv DEF Broken
<1>6. ASSUME NEW a \in Attempt, Cancelled(a) PROVE IInv'
  BY <1>0, <1>6, ReleaseInv DEF Cancelled
<1>7. ASSUME NEW a \in Attempt, Retire(a) PROVE IInv'
  BY <1>0, <1>7, ElseInv DEF Retire
<1>8. ASSUME NEW a \in Attempt, NEW applied \in BOOLEAN, Answer(a, applied) PROVE IInv'
  BY <1>8, AnswerInv
<1>9. ASSUME NEW s \in Server, NEW signature \in Signature \cup {None}, NEW on \in BOOLEAN,
             Edit(s, signature, on)
      PROVE  IInv'
  BY <1>9, EditInv
<1>10. CASE Tick
  BY <1>0, <1>10, ElseInv DEF Tick
<1>11. CASE UNCHANGED vars
  BY <1>0, <1>11, ElseInv DEF vars
<1> QED BY <1>1, <1>2, <1>3, <1>4, <1>5, <1>6, <1>7, <1>8, <1>9, <1>10, <1>11 DEF Next

-----------------------------------------------------------------------------
(***************************************************************************)
(* Theorems                                                                *)
(***************************************************************************)

\* The inductive invariant holds in every state.
THEOREM Invariance == Spec => []IInv
BY InitInv, NextInv, PTL DEF Spec

\* _take_server and _release_server: an unavailable server is probed by one
\* attempt at most, which is in an exchange with it; no probe is leaked over
\* retirements, cancellations, edits and late answers.
THEOREM ProbesAreExclusive == Spec => []ProbesExclusive
<1>1. IInv => ProbesExclusive
  BY DEF IInv, ProbesExclusive
<1> QED BY <1>1, Invariance, PTL

\* What going on does to the state of the servers: nothing.
LEMMA GoKeepsState ==
    ASSUME NEW a, NEW h \in [Server -> Health \cup {None}], NEW i \in Nat \ {0}, Go(a, h, i),
           NEW s \in Server
    PROVE  health'[s].available = h[s].available
<1> DEFINE open == {j \in i..Len(Servers) : Takes(a, h, Servers[j])}
<1>1. CASE a \in current /\ open # {}
  <2>1. PICK j \in open : health' = Taken(a, h, Servers[j])
    BY <1>1 DEF Go
  <2>2. Servers[j] \in Server /\ h[Servers[j]] \in Health
    BY <2>1 DEF Server, Takes
  <2>3. Taken(a, h, Servers[j])[s].available = h[s].available
    BY <2>2 DEF Taken, Health
  <2> QED BY <2>1, <2>3
<1>2. CASE ~(a \in current /\ open # {})
  BY <1>2 DEF Go
<1> QED BY <1>1, <1>2

\* A report that changes the state of a server was made by a current attempt,
\* of the record that was taken.
LEMMA ReportIsCurrent ==
    ASSUME IInv, NEW a \in Attempt, Exchanging(a), NEW h, Reported(a, h), NEW s \in Server,
           h[s].available # health[s].available
    PROVE  /\ a \in current /\ Partner(a) = s
           /\ task[a].generation = health[s].generation
BY DEF Reported, SameRecord

\* The state of a record changes only by the report of a current attempt that
\* exchanges with the server under this record.
LEMMA StateChanges ==
    ASSUME IInv, [Next]_vars, NEW s \in Server, health[s] # None, health'[s] # None,
           health'[s].generation = health[s].generation,
           health'[s].available # health[s].available
    PROVE  \E a \in current : Exchanging(a) /\ Partner(a) = s
                                /\ task[a].generation = health[s].generation
<1>0. health \in [Server -> Health \cup {None}]
  BY DEF IInv, TypeOK
<1>1. ASSUME NEW a \in Attempt, Start(a) PROVE FALSE
  BY <1>0, <1>1, GoKeepsState DEF Start
<1>2. ASSUME NEW a \in Attempt, Exchanging(a), Reported(a, health')
      PROVE  \E b \in current : Exchanging(b) /\ Partner(b) = s
                                  /\ task[b].generation = health[s].generation
  BY <1>2, ReportIsCurrent
<1>3. ASSUME NEW a \in Attempt, Exhausted(a)
      PROVE  \E b \in current : Exchanging(b) /\ Partner(b) = s
                                  /\ task[b].generation = health[s].generation
  <2> DEFINE h == release_server(a, server_exhausted(a))
  <2>1. Exchanging(a) /\ Reported(a, h) /\ Go(a, h, task[a].i + 1)
    BY <1>3, ReportShape, ReleaseShape DEF Exhausted
  <2>2. task[a].i + 1 \in Nat \ {0} /\ h \in [Server -> Health \cup {None}]
    BY <2>1 DEF IInv, Known, Reported
  <2> HIDE DEF h
  <2>3. health'[s].available = h[s].available
    BY <2>1, <2>2, GoKeepsState
  <2> QED BY <2>1, <2>3, ReportIsCurrent
<1>4. ASSUME NEW a \in Attempt,
             Response(a) \/ Broken(a) \/ Cancelled(a) \/ \E applied \in BOOLEAN : Answer(a, applied)
      PROVE  Exchanging(a) /\ Reported(a, health')
  BY <1>4, ReportShape, ReleaseShape DEF Response, Broken, Cancelled, Answer
<1>5. ASSUME NEW r \in Server, NEW signature \in Signature \cup {None}, NEW on \in BOOLEAN,
             Edit(r, signature, on)
      PROVE  FALSE
  <2>1. health'[s].generation = edits + 1
    BY <1>5, EditShape
  <2>2. health[s].generation \in Nat /\ health[s].generation <= edits /\ edits \in Nat
    BY RecordParts DEF IInv, Known, TypeOK
  <2> QED BY <2>1, <2>2
<1>6. ~Tick /\ ~UNCHANGED vars /\ \A a \in Attempt : ~Begin(a) /\ ~Retire(a)
  BY DEF Tick, vars, Begin, Retire
<1> QED BY <1>1, <1>2, <1>3, <1>4, <1>5, <1>6 DEF Next

\* _server_response and _server_exhausted: the state of a server changes only
\* on the report of a current attempt, made of this very record.
THEOREM ReportsCurrent == Spec => ReportsAreCurrent
<1>1. IInv /\ [Next]_vars =>
        [\A s \in Server :
           (/\ health[s] # None /\ health'[s] # None
            /\ health'[s].generation = health[s].generation
            /\ health'[s].available # health[s].available)
           => \E a \in current : Exchanging(a) /\ Partner(a) = s
                                  /\ task[a].generation = health[s].generation]_vars
  BY StateChanges
<1> QED BY <1>1, Invariance, PTL DEF Spec, ReportsAreCurrent

=============================================================================
