------------------------------- MODULE Access -------------------------------
(***************************************************************************)
(* 802.1X and MAC-based access on one port, in switchlab/engine.py:        *)
(* authentication attempts, the sessions their results grant, and the      *)
(* addresses learned under a session.                                      *)
(*                                                                         *)
(* As in the code a command works on a copy of the runtime state, is       *)
(* reconciled with the configuration and published in one step under the   *)
(* engine lock; only the RADIUS exchange of an attempt runs outside the    *)
(* lock.  The operators below map a configuration c and a runtime state s  *)
(* to the next runtime state.                                              *)
(*                                                                         *)
(* Deadlines, back-off and discovery decide only when something happens    *)
(* here: any session may expire and any eligible client may be tried in    *)
(* any command that looks at them.  One advance of the simulated clock is  *)
(* a run of Discover, Age, Observe and Discard steps that ends when an     *)
(* attempt is pending; the job command is one Observe or Discard step at   *)
(* any time.                                                               *)
(***************************************************************************)
EXTENDS Integers, FiniteSets

CONSTANTS
    Mac,           \* client addresses
    Vlan,          \* VLANs 1..N; VLAN 1 always exists
    Control,       \* settings explored by a run, of "auto",
                   \* "force-authorized", "force-unauthorized"
    Method,        \* of "dot1x", "mab", "dot1x-mab"
    Host,          \* of "single-host", "multi-auth", "multi-host"
    Client,        \* of "absent", "bare", "peer", "other": what may be attached behind
                   \* an address: nothing, a client without supplicant, or one with
                   \* either of two supplicant profiles
    Settings,      \* values of the RADIUS settings of a context
    None,
    Capacity,      \* source_limit, which bounds the sessions
    Tasks,         \* exchanges at a time (8)
    MaxId          \* ids: more than can be in use at a time

ASSUME AccessAssumption ==
    /\ Control \subseteq {"auto", "force-authorized", "force-unauthorized"}
    /\ Method \subseteq {"dot1x", "mab", "dot1x-mab"}
    /\ Host \subseteq {"single-host", "multi-auth", "multi-host"}
    /\ Client \subseteq {"absent", "bare", "peer", "other"} /\ "peer" \in Client
    /\ Vlan \subseteq Nat \ {0} /\ 1 \in Vlan
    /\ Capacity \in Nat \ {0} /\ Tasks \in Nat \ {0}
    /\ IsFiniteSet(Mac) /\ IsFiniteSet(Vlan)
    /\ MaxId \in Nat /\ MaxId > Tasks + 2 /\ MaxId > Cardinality(Mac \X Vlan) + 1
    /\ None \notin [id : Nat, grant : Nat, mab : BOOLEAN, default : BOOLEAN, vid : Nat]

\* Ids of attempts, sessions and grants; 0 stands for none.
Id == 1..MaxId

Configuration ==
    [control : Control, method : Method, host : Host, up : BOOLEAN, subject : [Mac -> Client],
     settings : Settings, vlans : SUBSET Vlan, pvid : Vlan, admitted : SUBSET Vlan,
     forbidden : SUBSET Vlan]

\* default: the session inherits the port VLAN; vid is the VLAN of the grant.
Session == [id : Id, grant : Id, mab : BOOLEAN, default : BOOLEAN, vid : Vlan]

VARIABLES
    cfg,           \* the running configuration of the port
    run,           \* radius_attempts, radius_sessions and fdb of the port
    flying,        \* exchanges whose result may still be delivered
    (***********************************************************************)
    (* History, read by the properties only.                               *)
    (***********************************************************************)
    void,          \* attempts, withdrawn or with a changed basis, that may still deliver
    late           \* the result of such an attempt was applied

vars == <<cfg, run, flying, void, late>>

-----------------------------------------------------------------------------
(***************************************************************************)
(* Contexts                                                                *)
(***************************************************************************)

authentication_of(c) == <<c.control, c.method, c.host>>

\* The capture an attempt is tied to: everything that decides the outcome.
authentication_context(c, m) ==
    IF c.up /\ c.control = "auto" /\ c.subject[m] # "absent"
    THEN <<authentication_of(c), c.forbidden,
           IF c.method = "mab" THEN "any" ELSE c.subject[m], c.settings>>
    ELSE None

\* The capture of a renewal whose client is gone: the MAB session itself.
session_authentication_context(c, s, m) ==
    IF s.session[m] # None /\ s.session[m].mab /\ c.up /\ c.control = "auto" /\ c.method # "dot1x"
    THEN <<s.session[m].id, s.session[m].grant, authentication_of(c), c.forbidden, c.settings>>
    ELSE None

Context(c, s, m, owned) ==
    IF owned THEN session_authentication_context(c, s, m) ELSE authentication_context(c, m)

SessionId(s, m) == IF s.session[m] = None THEN 0 ELSE s.session[m].id
GrantId(s, m) == IF s.session[m] = None THEN 0 ELSE s.session[m].grant

\* current_attempt: nothing the attempt was begun under has changed.
Unchanged(c, s, m, a) ==
    /\ Context(c, s, m, a.owned) = a.context
    /\ SessionId(s, m) = a.prior
    /\ GrantId(s, m) = a.grant

\* Mutation: any result for the client is taken for the pending attempt's.
mutant_current_attempt(m, id) ==
    /\ run.attempt[m] # None
    /\ Unchanged(cfg, run, m, run.attempt[m])

current_attempt(m, id) ==
    /\ run.attempt[m] # None
    /\ run.attempt[m].id = id
    /\ Unchanged(cfg, run, m, run.attempt[m])

session_vid(c, session) == IF session.default THEN c.pvid ELSE session.vid

Holders(s) == {m \in Mac : s.attempt[m] # None \/ s.session[m] # None}
Live(s) == {m \in Mac : s.session[m] # None}

\* session: the session an address uses; on a shared port its owner's.
Owner(c, s, m) == IF c.host = "multi-host" THEN Live(s) ELSE Live(s) \cap {m}

\* uid: an id that no exchange or attempt, no session, attempt or row, no
\* grant or attempt of m refers to.
Fresh(used) == CHOOSE n \in Id : n \notin used
AttemptsOf(m) == IF run.attempt[m] = None THEN {} ELSE {run.attempt[m]}
NewAttempt(m) == Fresh({a.id : a \in AttemptsOf(m)} \cup {n \in Id : <<m, n>> \in flying})
NewSession(m) ==
    Fresh({SessionId(run, m)} \cup {a.prior : a \in AttemptsOf(m)}
            \cup {n \in Id : \E r \in run.rows : r.by = <<m, n>>})
NewGrant(m) == Fresh({GrantId(run, m)} \cup {a.grant : a \in AttemptsOf(m)})

-----------------------------------------------------------------------------
(***************************************************************************)
(* Operations of Runtime                                                   *)
(***************************************************************************)

retire_authentication(s, S) ==
    [attempt |-> [m \in Mac |-> IF m \in S THEN None ELSE s.attempt[m]],
     session |-> s.session, rows |-> s.rows]

\* Mutation: only the rows of a shared port are removed.
MutantLearned(c, s, S) == {r \in s.rows : S # {} /\ c.host = "multi-host"}

\* Rows of the sessions of S: a shared port loses all its rows.
Learned(c, s, S) == {r \in s.rows : S # {} /\ (c.host = "multi-host" \/ r.mac \in S)}

\* Mutation: the pending renewal of an ended session stays.
mutant_end_session(c, s, S) ==
    LET ended == S \cap Live(s)
    IN  [attempt |-> s.attempt,
         session |-> [m \in Mac |-> IF m \in ended THEN None ELSE s.session[m]],
         rows |-> s.rows \ Learned(c, s, ended)]

\* end_session of several clients.
end_session(c, s, S) ==
    LET ended == S \cap Live(s)
    IN  [attempt |-> [m \in Mac |-> IF m \in ended /\ s.attempt[m] # None
                                       /\ s.attempt[m].prior = s.session[m].id
                                    THEN None ELSE s.attempt[m]],
         session |-> [m \in Mac |-> IF m \in ended THEN None ELSE s.session[m]],
         rows |-> s.rows \ Learned(c, s, ended)]

\* Mutation: only sessions count against the host mode, not pending attempts.
MutantRoom(c, s, m) == c.host = "multi-auth" \/ Live(s) \subseteq {m}

\* The host mode leaves room for m.
Room(c, s, m) == c.host = "multi-auth" \/ Holders(s) \subseteq {m}

\* An attempt of m: renewals of a departed MAB client are owned by their
\* session; trigger asks for MAB.
Attempt(c, s, m, trigger, renewal) ==
    LET owned == renewal /\ s.session[m] # None /\ s.session[m].mab
                   /\ authentication_context(c, m) = None
    IN  [id |-> NewAttempt(m), context |-> Context(c, s, m, owned), owned |-> owned,
         mab |-> c.method = "mab" \/ trigger \/ owned,
         prior |-> SessionId(s, m), grant |-> GrantId(s, m)]

\* The checks of begin_authentication.
Begins(c, s, m, trigger, renewal) ==
    LET a == Attempt(c, s, m, trigger, renewal)
    IN  /\ a.context # None
        /\ s.attempt[m] = None
        /\ Room(c, s, m)
        /\ IF a.mab THEN c.method # "dot1x" /\ (trigger \/ a.owned \/ s.session[m] # None)
                    ELSE c.subject[m] \in {"peer", "other"}

begin_authentication(c, s, S, trigger, renewal) ==
    [attempt |-> [m \in Mac |-> IF m \in S /\ Begins(c, s, m, trigger, renewal)
                                THEN Attempt(c, s, m, trigger, renewal) ELSE s.attempt[m]],
     session |-> s.session, rows |-> s.rows]

\* Several clients are tried in one command; unless the port is multi-auth
\* the first one takes the only place.
Tried(c, S) == c.host = "multi-auth" \/ Cardinality(S) <= 1

\* process_session_deadlines: sessions of E are over, those of R renewed.
process_session_deadlines(c, s, E, R) ==
    LET left == end_session(c, s, E)
    IN  begin_authentication(c, left, R \cap Live(left), FALSE, TRUE)

\* Mutation: only attempts whose context is gone are retired.
MutantObsolete(old, c, s) ==
    {m \in Mac : s.attempt[m] # None /\ Context(c, s, m, s.attempt[m].owned) = None}

Obsolete(old, c, s) ==
    {m \in Mac : /\ s.attempt[m] # None
                 /\ \/ Context(c, s, m, s.attempt[m].owned) # s.attempt[m].context
                    \/ old.vlans # c.vlans}

\* Mutation: a forbidden VLAN is not looked at.
MutantRevoked(old, c, s) ==
    {m \in Live(s) : \/ ~c.up
                     \/ authentication_of(c) # authentication_of(old)
                     \/ session_vid(old, s.session[m]) \notin c.vlans}

\* Sessions the changed configuration no longer permits.
Revoked(old, c, s) ==
    {m \in Live(s) : \/ ~c.up
                     \/ authentication_of(c) # authentication_of(old)
                     \/ session_vid(old, s.session[m]) \notin c.vlans
                     \/ session_vid(c, s.session[m]) \in c.forbidden}

reconcile_authentication(old, c, s) ==
    LET kept == retire_authentication(s, Obsolete(old, c, s))
    IN  end_session(c, kept, Revoked(old, c, kept))

\* The sweep of _execute over the learned addresses.
Sweep(c, s) ==
    [attempt |-> s.attempt, session |-> s.session,
     rows |-> {r \in s.rows :
                 /\ r.vid \in c.vlans /\ c.up
                 /\ \/ r.vid \in c.admitted
                    \/ \E m \in Live(s) : session_vid(c, s.session[m]) = r.vid}]

-----------------------------------------------------------------------------
(***************************************************************************)
(* Commands                                                                *)
(***************************************************************************)

Pending(s) == {<<m, s.attempt[m].id>> : m \in {k \in Mac : s.attempt[k] # None}}

\* The attempts that a step withdraws, or whose basis it changes, other than
\* the one whose result it applies.
Voided(used) ==
    {p \in Pending(run) \ used :
        \/ p \notin Pending(run')
        \/ ~Unchanged(cfg', run', p[1], run.attempt[p[1]])
        \/ cfg'.vlans # cfg.vlans}

\* _execute publishes configuration c and runtime state s.
Publish(c, s, used) ==
    /\ cfg' = c
    /\ run' = s
    /\ void' = (void \cup Voided(used)) \cap (flying' \cup Pending(s))

\* A command reconciles its result with the configuration; only an advance
\* and a job leave out the sweep.
Execute(c, s, used) == Publish(c, Sweep(c, reconcile_authentication(cfg, c, s)), used)
Command(c, s) == UNCHANGED <<flying, late>> /\ Execute(c, s, {})
Advance(s) ==
    /\ UNCHANGED <<flying, late>>
    /\ Publish(cfg, reconcile_authentication(cfg, cfg, s), {})

\* radius-discover, and the same calls inside an advance.
Discover(E, R, B, advancing) ==
    LET due == process_session_deadlines(cfg, run, E, R)
        s == begin_authentication(cfg, due, B, FALSE, FALSE)
    IN  /\ E \subseteq Live(run) /\ R \subseteq Live(run) \ E /\ B \cap Live(run) = {}
        /\ Tried(cfg, R \cup B)
        /\ IF advancing THEN Advance(s) ELSE Command(cfg, s)

\* A frame of a present client withdraws the renewal owned by its session.
Noticed(m) ==
    IF run.session[m] # None /\ run.attempt[m] # None /\ run.attempt[m].owned
    THEN retire_authentication(run, {m}) ELSE run

\* The session a frame of m uses, its VLAN when untagged (tag 0) or tagged,
\* and whether it is admitted.
Using(m) == IF cfg.control = "auto" THEN Owner(cfg, run, m) ELSE {}
The(owner) == CHOOSE o \in owner : TRUE
FrameVid(m, tag) ==
    IF Using(m) # {} THEN session_vid(cfg, run.session[The(Using(m))])
    ELSE IF tag = 0 THEN cfg.pvid ELSE tag
Admitted(m, tag) ==
    /\ FrameVid(m, tag) \in cfg.vlans \ cfg.forbidden
    /\ IF Using(m) # {} THEN tag \in {0, FrameVid(m, tag)}
       ELSE cfg.control = "force-authorized" /\ FrameVid(m, tag) \in cfg.admitted

\* An admitted frame is learned unless the table is full.
Observe(m, tag, learn) ==
    LET s == Noticed(m)
        row == [mac |-> m, vid |-> FrameVid(m, tag),
                by |-> IF Using(m) = {} THEN None
                       ELSE <<The(Using(m)), run.session[The(Using(m))].id>>]
    IN  /\ cfg.up /\ cfg.subject[m] # "absent" /\ Admitted(m, tag)
        /\ Advance([attempt |-> s.attempt, session |-> s.session,
                    rows |-> IF learn
                             THEN {r \in s.rows : ~(r.mac = m /\ r.vid = row.vid)} \cup {row}
                             ELSE s.rows])

\* A refused frame of a client without session may start its authentication.
Discard(m, tag, trigger) ==
    /\ cfg.up /\ cfg.subject[m] # "absent" /\ ~Admitted(m, tag)
    /\ trigger => cfg.method = "dot1x-mab"
    /\ Advance(IF cfg.control = "auto" /\ Using(m) = {}
               THEN begin_authentication(cfg, Noticed(m), {m}, cfg.method = "mab" \/ trigger, FALSE)
               ELSE Noticed(m))

\* A row ages, is cleared, or moves to another port.
Age(r) ==
    /\ r \in run.rows
    /\ Advance([attempt |-> run.attempt, session |-> run.session, rows |-> run.rows \ {r}])

\* Timers of the sessions of S that are due at once: they end or are renewed.
\* Timers of other sessions are processed by Discover.
Due == {"none", "end", "renew"}
Settle(s, S, due) ==
    process_session_deadlines(cfg, s, IF due = "end" THEN S ELSE {}, IF due = "renew" THEN S ELSE {})

\* radius-dynamic for the sessions of S: disconnect.
Disconnect(S) ==
    /\ S \subseteq Live(run) /\ S # {}
    /\ Command(cfg, end_session(cfg, run, S))

\* radius-dynamic: another grant, in VLAN v or in the VLAN it has (v is 0).
ChangeOfAuthorization(S, v, due) ==
    LET moved == {m \in S : v # 0 /\ session_vid(cfg, run.session[m]) # v}
        changed ==
            [attempt |-> retire_authentication(run, S).attempt,
             session |-> [m \in Mac |->
                 IF m \notin S THEN run.session[m]
                 ELSE [id |-> run.session[m].id, grant |-> NewGrant(m), mab |-> run.session[m].mab,
                       default |-> run.session[m].default /\ v = 0,
                       vid |-> IF v = 0 THEN run.session[m].vid ELSE v]],
             rows |-> run.rows \ Learned(cfg, run, moved)]
    IN  /\ S \subseteq Live(run) /\ S # {}
        /\ v # 0 => v \in cfg.vlans \ cfg.forbidden
        /\ Command(cfg, Settle(changed, S, due))

\* request_renewal by an operator: a client that left keeps its 802.1X
\* session until discovery gives up.
Reauthenticate(s, m) == begin_authentication(cfg, s, {m}, FALSE, TRUE)

\* The session of target ends and m is tried, under configuration c.
Restart(c, target, m) ==
    begin_authentication(c, end_session(c, retire_authentication(run, {target}), {target}), {m},
                         FALSE, FALSE)

\* source-authentication for a client, which may use the session of another.
SourceAction(m, restart) ==
    LET owner == Owner(cfg, run, m)
        target == IF owner # {} THEN The(owner) ELSE m
        s == retire_authentication(run, {target})
    IN  /\ cfg.subject[m] # "absent"
        /\ Command(cfg,
                   IF restart THEN Restart(cfg, target, m)
                   ELSE IF owner # {} THEN Reauthenticate(s, target)
                   ELSE begin_authentication(cfg, s, {m}, FALSE, FALSE))

\* source-supplicant-save with a restart: the new profile is used at once.
SaveSupplicant(m, x) ==
    LET c == [cfg EXCEPT !.subject[m] = x]
        owner == Owner(cfg, run, m)
    IN  /\ cfg.subject[m] # "absent" /\ x # "absent"
        /\ Command(c, Restart(c, IF owner # {} THEN The(owner) ELSE m, m))

\* radius-session-action for the session of m, whose client may be gone.
SessionAction(m, restart) ==
    /\ run.session[m] # None
    /\ Command(cfg, IF restart THEN Restart(cfg, m, m)
                    ELSE Reauthenticate(retire_authentication(run, {m}), m))

\* The PAE objects of an SNMP SET, which may set the port control as well.
\* Every client without session is tried; on a port with one place the first
\* that can be (m).
PaeAction(control, initialize, m) ==
    LET c == [cfg EXCEPT !.control = control]
        cleared == retire_authentication(end_session(c, run, Live(run)), Mac)
        renewed == IF control = "auto"
                   THEN begin_authentication(c, retire_authentication(run, Live(run)), Live(run), FALSE,
                                             TRUE)
                   ELSE run
        s == IF initialize THEN cleared ELSE renewed
        tried == (IF c.host = "multi-auth" THEN Mac ELSE {m}) \ Live(s)
    IN  Command(c, begin_authentication(c, s, tried, FALSE, FALSE))

\* An edit of the configuration, one aspect at a time, kept consistent by
\* check_port.  Deleting the port VLAN falls back to VLAN 1.
Edited ==
    {[cfg EXCEPT !.control = x] : x \in Control}
        \cup {[cfg EXCEPT !.method = x] : x \in Method}
        \cup {[cfg EXCEPT !.host = x] : x \in Host}
        \cup {[cfg EXCEPT !.up = x] : x \in BOOLEAN}
        \cup {[cfg EXCEPT !.settings = x] : x \in Settings}
        \cup {[cfg EXCEPT !.subject[p[1]] = p[2]] : p \in Mac \X Client}
        \cup {[cfg EXCEPT !.vlans = @ \cup {v}] : v \in Vlan}
        \cup {[cfg EXCEPT !.vlans = @ \ {v}, !.forbidden = @ \ {v},
                          !.pvid = IF @ = v THEN 1 ELSE @,
                          !.admitted = (@ \ {v}) \cup (IF cfg.pvid = v THEN {1} ELSE {})]
                : v \in Vlan \ {1}}
        \cup {[cfg EXCEPT !.pvid = v, !.admitted = @ \cup {v}] : v \in cfg.vlans \ cfg.forbidden}
        \cup {[cfg EXCEPT !.admitted = @ \ {v}] : v \in Vlan \ {cfg.pvid}}
        \cup {[cfg EXCEPT !.forbidden = @ \cup {v}] : v \in cfg.vlans \ cfg.admitted}
        \cup {[cfg EXCEPT !.forbidden = {}]}

Consistent(c) ==
    /\ c.pvid \in c.admitted /\ c.admitted \subseteq c.vlans
    /\ c.forbidden \subseteq c.vlans \ c.admitted

Edit(c) ==
    /\ c # cfg /\ Consistent(c)
    /\ Command(c, run)

Empty == [attempt |-> [m \in Mac |-> None], session |-> [m \in Mac |-> None], rows |-> {}]

\* reset_operational, at a reboot or an import: sessions, attempts and rows
\* are gone.  Another configuration installed with it is an edit of the empty
\* port.
Reset ==
    /\ UNCHANGED <<flying, late>>
    /\ Publish(cfg, Empty, {})

-----------------------------------------------------------------------------
(***************************************************************************)
(* Exchanges                                                               *)
(***************************************************************************)

\* service_authentication starts the exchange of a pending attempt.
Start(m) ==
    /\ run.attempt[m] # None
    /\ <<m, run.attempt[m].id>> \notin flying
    /\ Cardinality(flying) < Tasks
    /\ flying' = flying \cup {<<m, run.attempt[m].id>>}
    /\ UNCHANGED <<cfg, run, void, late>>

\* An exchange is cancelled, or its result is lost with a rolled back commit.
Drop(m, id) ==
    /\ <<m, id>> \in flying
    /\ flying' = flying \ {<<m, id>>}
    /\ void' = void \cap (flying' \cup Pending(run))
    /\ UNCHANGED <<cfg, run, late>>

\* radius-result of a stale attempt changes nothing.
Ignore(m, id) ==
    /\ Drop(m, id)
    /\ ~current_attempt(m, id)

\* No usable policy came back: the attempt ends, and the session with it,
\* unless a reject of 802.1X falls back to MAB.
Refused(m, id, fallback) ==
    LET a == run.attempt[m]
        s == retire_authentication(run, {m})
    IN  /\ <<m, id>> \in flying
        /\ flying' = flying \ {<<m, id>>}
        /\ current_attempt(m, id)
        /\ fallback => ~a.mab /\ cfg.method = "dot1x-mab"
        /\ Execute(cfg, IF fallback THEN begin_authentication(cfg, s, {m}, TRUE, FALSE)
                                    ELSE end_session(cfg, s, {m}), {<<m, id>>})
        /\ late' = (late \/ <<m, id>> \in void)

\* The state after an accept: a session with another VLAN, or with other timers
\* (timers is FALSE), is replaced.
Accepted(m, default, vid, timers) ==
    LET a == run.attempt[m]
        s == retire_authentication(run, {m})
        old == run.session[m]
        keeps == old # None /\ old.default = default /\ old.vid = vid /\ timers
        left == IF keeps THEN s ELSE end_session(cfg, s, {m})
    IN  [attempt |-> left.attempt, rows |-> left.rows,
         session |-> [left.session EXCEPT ![m] =
             [id |-> IF keeps THEN old.id ELSE NewSession(m),
              grant |-> IF keeps THEN old.grant ELSE NewGrant(m),
              mab |-> a.mab, default |-> default, vid |-> vid]]]

\* radius-result of an accept; timers that are due at once are processed.
Granted(m, id, default, v, timers, due) ==
    LET s == Accepted(m, default, v, timers)
    IN  /\ <<m, id>> \in flying
        /\ flying' = flying \ {<<m, id>>}
        /\ current_attempt(m, id)
        /\ v \in cfg.vlans \ cfg.forbidden
        /\ Cardinality(Live(s)) <= Capacity
        /\ late' = (late \/ <<m, id>> \in void)
        /\ Execute(cfg, Settle(s, {m}, due), {<<m, id>>})

\* At the capacity the command fails: the attempt stays and is tried again.
Overflow(m, id) ==
    /\ Drop(m, id)
    /\ current_attempt(m, id)
    /\ Cardinality(Live(run) \cup {m}) > Capacity

Resolve(m) ==
    \E id \in Id :
        \/ \E f \in BOOLEAN : Refused(m, id, f)
        \/ \E t \in BOOLEAN, due \in Due :
              \/ Granted(m, id, TRUE, cfg.pvid, t, due)
              \/ \E v \in Vlan : Granted(m, id, FALSE, v, t, due)

Lapse(m) == \E id \in Id : Ignore(m, id) \/ Overflow(m, id)

Init ==
    /\ cfg \in [control : Control, method : Method, host : Host, up : {TRUE},
                subject : [Mac -> {"peer"}], settings : Settings, vlans : {Vlan}, pvid : {1},
                admitted : {{1}}, forbidden : {{}}]
    /\ run = Empty
    /\ flying = {}
    /\ void = {} /\ late = FALSE

Next ==
    \/ \E E, R, B \in SUBSET Mac, a \in BOOLEAN : Discover(E, R, B, a)
    \/ \E m \in Mac, tag \in Vlan \cup {0}, learn \in BOOLEAN : Observe(m, tag, learn)
    \/ \E m \in Mac, tag \in Vlan \cup {0}, trigger \in BOOLEAN : Discard(m, tag, trigger)
    \/ \E r \in run.rows : Age(r)
    \/ \E S \in SUBSET Mac : Disconnect(S)
    \/ \E S \in SUBSET Mac, v \in Vlan \cup {0}, due \in Due : ChangeOfAuthorization(S, v, due)
    \/ \E m \in Mac, restart \in BOOLEAN : SourceAction(m, restart)
    \/ \E m \in Mac, x \in Client : SaveSupplicant(m, x)
    \/ \E m \in Mac, restart \in BOOLEAN : SessionAction(m, restart)
    \/ \E control \in Control, i \in BOOLEAN, m \in Mac : PaeAction(control, i, m)
    \/ \E c \in Edited : Edit(c)
    \/ Reset
    \/ \E m \in Mac : Start(m)
    \/ \E m \in Mac, id \in Id : Drop(m, id)
    \/ \E m \in Mac : Resolve(m)
    \/ \E m \in Mac : Lapse(m)

Spec == Init /\ [][Next]_vars

\* service_authentication, called from the application's refresh loop, starts
\* pending attempts; every exchange has a deadline, so it ends with a result
\* or with a failure.  A result can be lost with a rolled back commit, but
\* not every time.
Fairness ==
    \A m \in Mac : SF_vars(Start(m)) /\ SF_vars(Resolve(m)) /\ WF_vars(Lapse(m))

FairSpec == Spec /\ Fairness

-----------------------------------------------------------------------------
(***************************************************************************)
(* Properties                                                              *)
(***************************************************************************)

\* Every reachable state is well typed: the configuration stays consistent,
\* and so do the records of attempts, sessions and learned addresses.
TypeOK ==
    /\ cfg \in Configuration /\ Consistent(cfg)
    /\ \A m \in Mac :
          /\ run.session[m] = None \/ run.session[m] \in Session
          /\ run.attempt[m] # None =>
                /\ run.attempt[m].id \in Id
                /\ run.attempt[m].prior \in Id \cup {0} /\ run.attempt[m].grant \in Id \cup {0}
                /\ run.attempt[m].mab \in BOOLEAN /\ run.attempt[m].owned \in BOOLEAN
    /\ \A r \in run.rows : r.mac \in Mac /\ r.vid \in cfg.vlans
    /\ flying \subseteq Mac \X Id
    /\ void \subseteq Mac \X Id /\ late \in BOOLEAN

\* A pending attempt is one whose result would still be accepted: after every
\* command the port, client, settings, session and grant it was begun under
\* are the present ones.  A stale attempt would hold its key and, through
\* radius_attempts, the simulated clock, and no result could end it.
AttemptsAreCurrent ==
    \A m \in Mac : run.attempt[m] # None => Unchanged(cfg, run, m, run.attempt[m])

\* No result is applied for an attempt that was withdrawn or whose basis
\* changed after it began, even where the change was undone in between: a
\* late reply cannot restore or change a grant.
NoStaleGrant == ~late

\* Outside multi-auth at most one client of the port is being authenticated
\* or authorized, however attempts, edits and restarts interleave.
HostModeLimit == cfg.host # "multi-auth" => Cardinality(Holders(run)) <= 1

\* An address learned under its own session is not known any longer than the
\* session: when the session ends, or another takes its place, it is gone.
RowsEndWithSession ==
    \A r \in run.rows :
        r.by # None /\ r.by[1] = r.mac => SessionId(run, r.mac) = r.by[2]

\* The configuration and the records stay consistent, and a session never
\* authorizes a VLAN that does not exist or is forbidden.
SessionVlanUsable ==
    TypeOK /\ \A m \in Live(run) : session_vid(cfg, run.session[m]) \in cfg.vlans \ cfg.forbidden

\* Every attempt ends: none stays pending for ever, which would stop the
\* simulated clock.  (The sessions fit: see Overflow.)
AttemptsEnd ==
    \A m \in Mac, n \in Id :
        (run.attempt[m] # None /\ run.attempt[m].id = n)
            ~> (run.attempt[m] = None \/ run.attempt[m].id # n)

\* An address learned through the session of another client of a shared port
\* goes with that session.
SharedRowsEnd ==
    \A r \in run.rows : r.by # None => SessionId(run, r.by[1]) = r.by[2]

=============================================================================
