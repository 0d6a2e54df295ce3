---------------------------- MODULE ServerHealth ----------------------------
(***************************************************************************)
(* The health of RADIUS access servers in switchlab/engine.py: the tasks   *)
(* that run authentication attempts try the servers in order, skip one     *)
(* that is unavailable, let a single attempt probe it when its back-off is *)
(* over, and report what they met to its health record.                    *)
(*                                                                         *)
(* An exchange takes long.  Meanwhile its attempt may be retired, and the  *)
(* server edited, whose record is then replaced: a record is known by its  *)
(* generation, as the code compares objects.  Between two exchanges a task *)
(* is one step.  Any edit of a server retires all attempts, which captured *)
(* the settings, so an attempt that is current runs with the settings in   *)
(* force.                                                                  *)
(***************************************************************************)
EXTENDS Integers, Sequences

CONSTANTS
    Attempt,      \* identities of attempts
    Servers,      \* cfg.radius.servers: the order of trial
    Signature,    \* address and secret of a server
    None,
    Delay,        \* seconds of back-off, by failures: (1, 2, 4, 8, 16, 30)
    MaxTime,      \* bound: the monotonic clock
    MaxEdits      \* bound: edits of servers

ASSUME ServerHealthAssumption ==
    /\ None \notin Attempt \cup Signature
    /\ Delay \in Seq(Nat) /\ Delay # <<>>
    /\ MaxTime \in Nat /\ MaxEdits \in Nat

Server == {Servers[i] : i \in 1..Len(Servers)}

\* AuthServerHealth.
Health ==
    [signature : Signature, generation : 0..MaxEdits, available : {"unknown", "yes", "no"},
     failures : 0..Len(Delay), probe_after : Nat, probe_owner : Attempt \cup {None}]

\* The task of an attempt: none, or in an exchange with the server at place i
\* under a health record of that generation.  probe is history: the server was
\* unavailable when the exchange began, and has not been heard since.
Task ==
    [phase : {"none", "exchange"}, i : 0..Len(Servers), generation : 0..MaxEdits, probe : BOOLEAN]

VARIABLES
    cfg,       \* per server: its signature, or None when it is deleted
    enabled,   \* servers that are enabled
    health,    \* _server_health
    now,       \* _auth_clock()
    current,   \* attempts in radius_attempts
    task,      \* _authentication_tasks
    edits      \* edits so far

settings == <<cfg, enabled, edits>>
vars == <<settings, health, now, current, task>>

TypeOK ==
    /\ cfg \in [Server -> Signature \cup {None}]
    /\ enabled \subseteq Server
    /\ health \in [Server -> Health \cup {None}]
    /\ now \in 0..MaxTime
    /\ current \subseteq Attempt
    /\ task \in [Attempt -> Task]
    /\ edits \in 0..MaxEdits

New(signature, generation) ==
    [signature |-> signature, generation |-> generation, available |-> "unknown",
     failures |-> 0, probe_after |-> 0, probe_owner |-> None]

Idle == [phase |-> "none", i |-> 0, generation |-> 0, probe |-> FALSE]

-----------------------------------------------------------------------------
(***************************************************************************)
(* Health records                                                          *)
(***************************************************************************)

\* _take_server: the server may be tried.
Takes(a, h, s) ==
    /\ s \in enabled /\ h[s] # None
    /\ h[s].available = "no" => now >= h[s].probe_after /\ h[s].probe_owner \in {None, a}

Partner(a) == Servers[task[a].i]

\* The record a took is still the record of the server.
SameRecord(a) ==
    health[Partner(a)] # None /\ health[Partner(a)].generation = task[a].generation

\* Mutation: a report counts for the server, whoever makes it.
MutantCounts(a) == health[Partner(a)] # None

\* A report counts when the record is the one taken and the attempt is current.
Counts(a) == SameRecord(a) /\ a \in current

\* _server_response.
server_response(a) ==
    IF Counts(a)
    THEN [health EXCEPT ![Partner(a)] =
             [@ EXCEPT !.available = "yes", !.failures = 0, !.probe_after = 0, !.probe_owner = None]]
    ELSE health

\* _server_exhausted; failures past the last delay make no difference.
server_exhausted(a) ==
    IF Counts(a)
    THEN LET n == IF health[Partner(a)].failures < Len(Delay) THEN health[Partner(a)].failures + 1
                  ELSE Len(Delay)
         IN [health EXCEPT ![Partner(a)] =
                [@ EXCEPT !.failures = n, !.available = "no", !.probe_after = now + Delay[n]]]
    ELSE health

\* Mutation: only a current attempt gives the probe back.
mutant_release_server(a, h) ==
    IF SameRecord(a) /\ a \in current /\ h[Partner(a)].probe_owner = a
    THEN [h EXCEPT ![Partner(a)].probe_owner = None] ELSE h

\* _release_server, in the finally of every exchange.
release_server(a, h) ==
    IF SameRecord(a) /\ h[Partner(a)].probe_owner = a
    THEN [h EXCEPT ![Partner(a)].probe_owner = None] ELSE h

-----------------------------------------------------------------------------
(***************************************************************************)
(* The task of an attempt                                                  *)
(***************************************************************************)

Exchanging(a) == task[a].phase = "exchange"

\* The probes of servers that were just heard are no longer probes.
Unprobed(b, h) ==
    IF Exchanging(b) /\ h[Partner(b)] # None /\ h[Partner(b)].available = "yes"
    THEN [task[b] EXCEPT !.probe = FALSE] ELSE task[b]

Others(h) == [b \in Attempt |-> Unprobed(b, h)]

\* An unavailable server is taken for a probe.
Taken(a, h, s) ==
    IF h[s].available = "no" THEN [h EXCEPT ![s].probe_owner = a] ELSE h

\* authenticate goes on with the servers from place i on, the records being h:
\* it stops when it is stale, begins an exchange, or fails for want of a server.
Go(a, h, i) ==
    LET open == {j \in i..Len(Servers) : Takes(a, h, Servers[j])}
    IN IF a \in current /\ open # {}
       THEN \E j \in open :
              /\ \A k \in open : j <= k
              /\ task' = [Others(h) EXCEPT ![a] =
                   [phase |-> "exchange", i |-> j, generation |-> h[Servers[j]].generation,
                    probe |-> h[Servers[j]].available = "no"]]
              /\ health' = Taken(a, h, Servers[j])
              /\ UNCHANGED current
       ELSE /\ task' = [Others(h) EXCEPT ![a] = Idle]
            /\ health' = h
            /\ current' = current \ {a}

\* An attempt begins (an identity whose task is over stands for a new one) and
\* service_authentication starts its task.
Begin(a) ==
    /\ ~Exchanging(a) /\ a \notin current
    /\ current' = current \cup {a}
    /\ UNCHANGED <<settings, health, now, task>>

Start(a) ==
    /\ ~Exchanging(a) /\ a \in current
    /\ Go(a, health, 1)
    /\ UNCHANGED <<settings, now>>

\* A verified packet that does not end the exchange.
Response(a) ==
    /\ Exchanging(a)
    /\ health' = server_response(a)
    /\ task' = Others(health')
    /\ UNCHANGED <<settings, now, current>>

\* The final answer: the result is applied, refused for want of capacity, so
\* that the attempt stays and is started again, or stale.
Answer(a, applied) ==
    /\ Exchanging(a)
    /\ health' = release_server(a, server_response(a))
    /\ task' = [Others(health') EXCEPT ![a] = Idle]
    /\ current' = IF applied THEN current \ {a} ELSE current
    /\ UNCHANGED <<settings, now>>

\* No answer to any retry: the next server is tried.
Exhausted(a) ==
    /\ Exchanging(a)
    /\ Go(a, release_server(a, server_exhausted(a)), task[a].i + 1)
    /\ UNCHANGED <<settings, now>>

\* The exchange fails locally, or runs out of time while it is answered.
Broken(a) ==
    /\ Exchanging(a)
    /\ health' = release_server(a, health)
    /\ task' = [task EXCEPT ![a] = Idle]
    /\ current' = current \ {a}
    /\ UNCHANGED <<settings, now>>

\* _cancel_inactive_authentication cancels the task of a retired attempt.
Cancelled(a) ==
    /\ Exchanging(a) /\ a \notin current
    /\ health' = release_server(a, health)
    /\ task' = [task EXCEPT ![a] = Idle]
    /\ UNCHANGED <<settings, now, current>>

\* Something else ends the attempt.
Retire(a) ==
    /\ a \in current
    /\ current' = current \ {a}
    /\ UNCHANGED <<settings, health, now, task>>

-----------------------------------------------------------------------------

\* _sync_server_health: the record of s under the configuration c.
Synced(s, c) ==
    IF c[s] = None THEN None
    ELSE IF health[s] # None /\ health[s].signature = c[s] THEN health[s]
    ELSE New(c[s], edits')

\* A server is added, edited or deleted, or enabled or disabled.
Edit(s, signature, on) ==
    LET c == [cfg EXCEPT ![s] = signature]
    IN /\ edits < MaxEdits
       /\ edits' = edits + 1
       /\ cfg' = c
       /\ enabled' = IF on THEN enabled \cup {s} ELSE enabled \ {s}
       /\ health' = [r \in Server |-> Synced(r, c)]
       /\ current' = {}
       /\ UNCHANGED <<now, task>>

Tick ==
    /\ now < MaxTime
    /\ now' = now + 1
    /\ UNCHANGED <<settings, health, current, task>>

Init ==
    /\ cfg \in [Server -> Signature]
    /\ enabled = Server
    /\ health = [s \in Server |-> New(cfg[s], 0)]
    /\ now = 0
    /\ current = {}
    /\ task = [a \in Attempt |-> Idle]
    /\ edits = 0

Next ==
    \/ \E a \in Attempt :
          \/ Begin(a) \/ Start(a) \/ Response(a) \/ Exhausted(a) \/ Broken(a)
          \/ Cancelled(a) \/ Retire(a)
          \/ \E applied \in BOOLEAN : Answer(a, applied)
    \/ \E s \in Server, signature \in Signature \cup {None}, on \in BOOLEAN : Edit(s, signature, on)
    \/ Tick

Spec == Init /\ [][Next]_vars

-----------------------------------------------------------------------------
(***************************************************************************)
(* Properties                                                              *)
(***************************************************************************)

\* A probe is never leaked: whoever owns the probe of a server is in an exchange
\* with it under this very record.  An owner that is gone would keep every
\* later attempt from an unavailable server.
ProbesHeld ==
    \A s \in Server : health[s] # None /\ health[s].probe_owner # None =>
        LET a == health[s].probe_owner
        IN Exchanging(a) /\ Partner(a) = s /\ SameRecord(a)

\* While a server is unavailable, one attempt at most tries it: every exchange
\* that began with the server unavailable and has not heard it since owns the
\* probe, over late failures of other attempts, retirements and edits.
OneProbe ==
    \A a \in Attempt : Exchanging(a) /\ task[a].probe /\ SameRecord(a) =>
        health[Partner(a)].probe_owner = a

\* In every (well-typed) state a probe has one owner, which is at work.
ProbesExclusive == TypeOK /\ ProbesHeld /\ OneProbe

\* The state of a server changes only on the report of a current attempt that
\* runs its exchange under the same record: nothing is said of an edited server
\* on the strength of an exchange with the old one.
ReportsAreCurrent ==
    [][\A s \in Server :
         (/\ health[s] # None /\ health'[s] # None
          /\ health'[s].generation = health[s].generation
          /\ health'[s].available # health[s].available)
         => \E a \in current : Exchanging(a) /\ Partner(a) = s
                                /\ task[a].generation = health[s].generation]_vars

=============================================================================
