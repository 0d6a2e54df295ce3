----------------------------- MODULE Management -----------------------------
(***************************************************************************)
(* Management access of switchlab: management.py, the authentication and   *)
(* viewer routes of api.py, and the administrator and viewer rows of       *)
(* storage.py.                                                             *)
(*                                                                         *)
(* Passwords are hashed and verified by at most Slots worker threads       *)
(* outside the event loop, so that everything a request has read may have  *)
(* changed when it goes on: the viewer policy, the administrator, its own  *)
(* session, the health of the store.  Between two awaits a handler is one  *)
(* step.                                                                   *)
(*                                                                         *)
(* A token is the number of the session it was issued for, so the table of *)
(* sessions, a dictionary in the order of issue, is a set; all sessions    *)
(* live equally long, so the expired ones are the oldest.  A password      *)
(* stands for its hash.                                                    *)
(***************************************************************************)
EXTENDS Integers, FiniteSets

CONSTANTS
    Client,         \* browsers
    Password,
    None,           \* no password
    Limit,          \* sessions at most (20)
    Slots,          \* password workers at once (4)
    MaxToken,       \* bound: sessions a process issues
    MaxGeneration   \* bound: changes of the viewer policy

ASSUME ManagementAssumption ==
    /\ None \notin Password
    /\ Limit \in Nat \ {0} /\ Slots \in Nat \ {0}
    /\ MaxToken \in Nat /\ MaxGeneration \in Nat

Provider == {"local-admin", "local-viewer"}
Token == 0..MaxToken        \* 0: no cookie

\* generation and proof: what the holder proved, when, and of which policy.
Session == [token : 1..MaxToken, provider : Provider, generation : 0..MaxGeneration, proof : Password]

ViewerPolicy == [enabled : BOOLEAN, password : Password \cup {None}, generation : 0..MaxGeneration]

\* A request, with what it captured before its first await.
Request ==
    [kind : {"none", "setup", "login", "update"},
     phase : {"idle", "slot", "work", "lock"},
     provider : Provider,
     token : Token,
     password : Password \cup {None},
     saved : Password \cup {None},
     generation : 0..MaxGeneration,
     enabled : BOOLEAN]

VARIABLES
    sessions,       \* Management.sessions
    horizon,        \* tokens up to this one have expired
    top,            \* sessions issued
    cookie,         \* per browser: switchlab_session
    request,        \* per browser: its slow request
    permits,        \* password_slots
    orphans,        \* workers whose request was cancelled
    policy,         \* viewer_policy()
    admin,          \* administrator_hash()
    stored,         \* both in the store; they differ only while faulted
    fault           \* store.fault_reason is latched

table == <<sessions, horizon, top, cookie>>
workers == <<permits, orphans>>
confirmed == <<policy, admin>>
vars == <<table, request, workers, confirmed, stored, fault>>

Idle ==
    [kind |-> "none", phase |-> "idle", provider |-> "local-admin", token |-> 0,
     password |-> None, saved |-> None, generation |-> 0, enabled |-> FALSE]

TypeOK ==
    /\ sessions \subseteq Session
    /\ top \in Token /\ horizon \in 0..top
    /\ cookie \in [Client -> Token]
    /\ request \in [Client -> Request]
    /\ permits \in 0..Slots /\ orphans \in 0..Slots
    /\ policy \in ViewerPolicy /\ admin \in Password \cup {None}
    /\ stored \in [policy : ViewerPolicy, admin : Password \cup {None}]
    /\ fault \in BOOLEAN

-----------------------------------------------------------------------------
(***************************************************************************)
(* Sessions                                                                *)
(***************************************************************************)

Valid(s) ==
    /\ s.token > horizon
    /\ s.provider = "local-viewer" =>
          ~fault /\ policy.enabled /\ policy.generation = s.generation

\* Mutation: the session was checked when the request arrived.
MutantCurrent(token, provider) == \E s \in Session : s.token = token /\ s.provider = provider

\* Management.current, for a permission the provider has.
Current(token, provider) ==
    \E s \in sessions : s.token = token /\ s.provider = provider /\ Valid(s)

\* Management.current removes a session that is not valid any more.
Look(c) ==
    /\ \E s \in sessions : s.token = cookie[c] /\ ~Valid(s)
    /\ sessions' = {s \in sessions : s.token # cookie[c]}
    /\ UNCHANGED <<horizon, top, cookie, request, workers, confirmed, stored, fault>>

Unexpired == {s \in sessions : s.token > horizon}
Viewers(S) == {s \in S : s.provider = "local-viewer"}
Oldest(S) == {s \in S : \A t \in S : s.token <= t.token}
Previous(token) == {s \in Unexpired : s.token = token}

\* The session of the same browser makes room for the new one.
Replaceable(provider, token) ==
    IF provider = "local-admin" THEN Previous(token) ELSE Viewers(Previous(token))

Full(provider, token) ==
    Cardinality(Unexpired) - Cardinality(Replaceable(provider, token)) >= Limit

\* Mutation: the oldest session goes, whoever holds it.
MutantVictim(provider) == Oldest(Unexpired)

\* The oldest viewer, else for an administrator the oldest of all.
Victim(provider) ==
    IF Viewers(Unexpired) # {} THEN Oldest(Viewers(Unexpired))
    ELSE IF provider = "local-admin" THEN Oldest(Unexpired) ELSE {}

\* issue, for the browser c and the cookie its request brought.
Issue(c, provider, generation, proof, token) ==
    LET full == Full(provider, token)
        victim == IF full THEN Victim(provider) ELSE {}
        new == [token |-> top + 1, provider |-> provider, generation |-> generation, proof |-> proof]
    IN IF full /\ victim = {}
       THEN sessions' = Unexpired /\ UNCHANGED <<cookie, top>>
       ELSE /\ sessions' = (Unexpired \ (victim \cup Previous(token))) \cup {new}
            /\ top' = top + 1
            /\ cookie' = [cookie EXCEPT ![c] = top + 1]

-----------------------------------------------------------------------------
(***************************************************************************)
(* Requests arrive                                                         *)
(***************************************************************************)

\* Bound: every session that may yet be issued has a token.
Room == top + Cardinality({d \in Client : request[d].kind \in {"setup", "login"}}) < MaxToken

Arrive(c, r) ==
    /\ request[c] = Idle
    /\ request' = [request EXCEPT ![c] = r]
    /\ UNCHANGED <<table, workers, confirmed, stored, fault>>

\* POST auth/setup: nobody is administrator yet.
Setup(c, password) ==
    /\ admin = None /\ Room
    /\ Arrive(c, [Idle EXCEPT !.kind = "setup", !.phase = "slot", !.token = cookie[c], !.password = password])

\* POST auth/login: authenticate up to its await.
Login(c, provider, password) ==
    /\ Room
    /\ \/ provider = "local-admin" /\ admin # None
       \/ provider = "local-viewer" /\ policy.enabled /\ ~fault
    /\ LET viewer == provider = "local-viewer"
       IN Arrive(c, [Idle EXCEPT !.kind = "login", !.phase = "slot", !.provider = provider,
                         !.token = cookie[c], !.password = password,
                         !.saved = IF viewer THEN policy.password ELSE admin,
                         !.generation = IF viewer THEN policy.generation ELSE 0])

\* PUT management/viewer with the generation the form was loaded with; a new
\* password is hashed first.  The form is up to date when it is sent: an older
\* generation is refused in any case (Acceptable).
Update(c, password, enabled) ==
    /\ Current(cookie[c], "local-admin")
    /\ policy.generation < MaxGeneration
    /\ Arrive(c, [Idle EXCEPT !.kind = "update", !.token = cookie[c], !.password = password,
                      !.phase = IF password = None THEN "lock" ELSE "slot",
                      !.generation = policy.generation, !.enabled = enabled])

-----------------------------------------------------------------------------
(***************************************************************************)
(* password_call                                                           *)
(***************************************************************************)

\* password_slots.acquire, and a thread takes the work.
Permit(c) ==
    /\ request[c].phase = "slot" /\ permits > 0
    /\ request' = [request EXCEPT ![c].phase = "work"]
    /\ permits' = permits - 1
    /\ UNCHANGED <<table, orphans, confirmed, stored, fault>>

\* Mutation: the task of the worker is cancelled with the request, and the
\* permit forgotten.
MutantHeld(phase) == 0

\* Workers a cancelled request leaves behind.
Held(phase) == IF phase = "work" THEN 1 ELSE 0

\* The browser goes away.  A worker that runs is shielded: "Request cancellation
\* never releases the worker's permit."
Cancel(c) ==
    /\ request[c] # Idle
    /\ request' = [request EXCEPT ![c] = Idle]
    /\ orphans' = orphans + Held(request[c].phase)
    /\ UNCHANGED <<table, permits, confirmed, stored, fault>>

OrphanEnds ==
    /\ orphans > 0
    /\ orphans' = orphans - 1
    /\ permits' = permits + 1
    /\ UNCHANGED <<table, request, confirmed, stored, fault>>

-----------------------------------------------------------------------------
(***************************************************************************)
(* Requests go on                                                          *)
(***************************************************************************)

Finish(c) == request' = [request EXCEPT ![c] = Idle]

\* The worker of c ends and completed releases its permit.  The request goes
\* on in a later turn of the event loop, as if the worker had taken longer.
WorkerEnds(c) ==
    /\ request[c].phase = "work"
    /\ permits' = permits + 1
    /\ UNCHANGED orphans

\* Mutation: only the switch for viewers is looked at again.
MutantStillCurrent(r) == r.provider = "local-viewer" => ~fault /\ policy.enabled

\* authenticate after its await: the policy that was verified is in force.
StillCurrent(r) ==
    r.provider = "local-viewer" =>
        ~fault /\ policy.enabled /\ policy.generation = r.generation

\* The password was verified, and the session issued in the same step.
LoginEnds(c) ==
    LET r == request[c]
    IN /\ r.kind = "login" /\ WorkerEnds(c)
       /\ IF r.password = r.saved /\ StillCurrent(r)
          THEN Issue(c, r.provider, r.generation, r.password, r.token)
          ELSE UNCHANGED <<sessions, top, cookie>>
       /\ Finish(c)
       /\ UNCHANGED <<horizon, confirmed, stored, fault>>

\* A write of the store whose outcome is unknown: nothing is confirmed.
Uncertain(next) ==
    /\ fault' = TRUE
    /\ stored' \in {stored, next}
    /\ UNCHANGED <<table, confirmed>>

\* create_administrator: INSERT OR IGNORE.
create_administrator(r) == IF admin = None THEN r.password ELSE admin

\* setup after the hash: only the request that inserted the row signs in.  A
\* rollback ends it with an error.
SetupEnds(c) ==
    LET r == request[c]
        next == [stored EXCEPT !.admin = create_administrator(r)]
    IN /\ r.kind = "setup" /\ WorkerEnds(c)
       /\ \/ /\ ~fault
             /\ admin' = create_administrator(r) /\ stored' = next
             /\ IF admin' # admin
                THEN Issue(c, "local-admin", 0, r.password, r.token)
                ELSE UNCHANGED <<sessions, top, cookie>>
             /\ UNCHANGED <<horizon, policy, fault>>
          \/ ~fault /\ Uncertain(next)
          \/ UNCHANGED <<table, confirmed, stored, fault>>
       /\ Finish(c)

Hashed(c) ==
    /\ request[c].kind = "update" /\ WorkerEnds(c)
    /\ request' = [request EXCEPT ![c].phase = "lock"]
    /\ UNCHANGED <<table, confirmed, stored, fault>>

\* configure_viewer's candidate.
Candidate(r) ==
    [enabled |-> r.enabled,
     password |-> IF r.password = None THEN policy.password ELSE r.password,
     generation |-> policy.generation + 1]

\* configure_viewer: healthy, not overtaken, and a password before access.
Acceptable(r) ==
    /\ ~fault /\ policy.generation = r.generation
    /\ r.enabled => Candidate(r).password # None

\* revoke_viewers.
Revoked == sessions \ Viewers(sessions)

\* viewer_update under the io_lock: the session is checked again, the policy
\* committed and every viewer signed out.
Apply(c) ==
    LET r == request[c]
        next == [stored EXCEPT !.policy = Candidate(r)]
    IN /\ r.kind = "update" /\ r.phase = "lock"
       /\ Current(r.token, "local-admin") /\ Acceptable(r)
       /\ \/ /\ policy' = Candidate(r) /\ stored' = next
             /\ sessions' = Revoked
             /\ UNCHANGED <<horizon, top, cookie, admin, fault>>
          \/ Uncertain(next)
       /\ Finish(c)
       /\ UNCHANGED workers

\* Refused, or rolled back.  Management.current has removed the session if it
\* is not valid any more.
Refuse(c) ==
    LET r == request[c]
    IN /\ r.kind = "update" /\ r.phase = "lock"
       /\ sessions' = {s \in sessions : s.token = r.token => Valid(s)}
       /\ Finish(c)
       /\ UNCHANGED <<horizon, top, cookie, workers, confirmed, stored, fault>>

\* POST auth/logout.
Logout(c) ==
    /\ \E provider \in Provider : Current(cookie[c], provider)
    /\ sessions' = {s \in sessions : s.token # cookie[c]}
    /\ cookie' = [cookie EXCEPT ![c] = 0]
    /\ UNCHANGED <<horizon, top, request, workers, confirmed, stored, fault>>

-----------------------------------------------------------------------------
(***************************************************************************)
(* Environment                                                             *)
(***************************************************************************)

\* The browser loses its cookie.  (During a request, which captured it, this
\* would be no different from losing it afterwards.)
Forget(c) ==
    /\ cookie[c] # 0 /\ request[c] = Idle
    /\ cookie' = [cookie EXCEPT ![c] = 0]
    /\ UNCHANGED <<sessions, horizon, top, request, workers, confirmed, stored, fault>>

\* Eight hours after they were issued, sessions expire.
Expire ==
    /\ horizon < top
    /\ horizon' = horizon + 1
    /\ UNCHANGED <<sessions, top, cookie, request, workers, confirmed, stored, fault>>

\* Another write leaves the store faulted.
StoreFails ==
    /\ ~fault
    /\ fault' = TRUE
    /\ UNCHANGED <<table, request, workers, confirmed, stored>>

\* The process starts again from the store.  Tokens are random: the ones of
\* the old process are as good as none.
Restart ==
    /\ fault' = FALSE
    /\ policy' = stored.policy /\ admin' = stored.admin
    /\ sessions' = {} /\ horizon' = 0 /\ top' = 0
    /\ cookie' = [c \in Client |-> 0]
    /\ request' = [c \in Client |-> Idle]
    /\ permits' = Slots /\ orphans' = 0
    /\ UNCHANGED stored

Init ==
    /\ sessions = {} /\ horizon = 0 /\ top = 0
    /\ cookie = [c \in Client |-> 0]
    /\ request = [c \in Client |-> Idle]
    /\ permits = Slots /\ orphans = 0
    /\ policy = [enabled |-> FALSE, password |-> None, generation |-> 0]
    /\ admin = None
    /\ stored = [policy |-> policy, admin |-> None]
    /\ fault = FALSE

GoesOn(c) ==
    Permit(c) \/ LoginEnds(c) \/ SetupEnds(c) \/ Hashed(c) \/ Apply(c) \/ Refuse(c)

Next ==
    \/ \E c \in Client :
          \/ \E password \in Password :
                Setup(c, password) \/ \E provider \in Provider : Login(c, provider, password)
          \/ \E password \in Password \cup {None}, enabled \in BOOLEAN :
                Update(c, password, enabled)
          \/ GoesOn(c) \/ Cancel(c) \/ Look(c) \/ Logout(c) \/ Forget(c)
    \/ OrphanEnds \/ Expire \/ StoreFails \/ Restart

Spec == Init /\ [][Next]_vars

-----------------------------------------------------------------------------
(***************************************************************************)
(* Properties                                                              *)
(***************************************************************************)

\* The table of sessions never outgrows its limit, whichever of expiry,
\* replacement and eviction made room.
SessionsBounded == Cardinality(sessions) <= Limit

\* While the store is healthy every viewer in the table proved the password of
\* the policy in force: a policy that changed during the verification, or
\* after it, leaves no session behind (authenticate, revoke_viewers).
ViewersCurrent ==
    ~fault => \A s \in Viewers(sessions) :
        policy.enabled /\ policy.generation = s.generation /\ policy.password = s.proof

\* Every administrator in the table proved the password that is stored: of two
\* setups that race only one signs in, also when a commit was uncertain.
AdminsProven ==
    \A s \in sessions : s.provider = "local-admin" => s.proof = admin /\ s.proof = stored.admin

\* Every session in the table rests on a password that is in force.
SessionsProven == ViewersCurrent /\ AdminsProven

\* Permits and running workers always add up, though requests are cancelled
\* while their worker runs (password_call).
PermitsConserved ==
    permits + orphans + Cardinality({c \in Client : request[c].phase = "work"}) = Slots

\* The state is well typed and the limits on sessions and workers hold.
WithinLimits == TypeOK /\ SessionsBounded /\ PermitsConserved

\* A viewer that signs in takes no administrator's session but the one its own
\* browser brought (issue: "must not revoke even the caller's admin session").
AdminsNotDisplaced ==
    [][\A c \in Client :
          request[c].provider = "local-viewer" /\ LoginEnds(c) =>
              \A s \in sessions \ sessions' :
                  s.provider = "local-admin" /\ s.token > horizon =>
                      s.token = request[c].token /\ cookie'[c] # cookie[c]]_vars

\* The viewer policy changes only by an administrator whose session is in the
\* table and unexpired at that moment, however long the password was hashed.
UpdatesAuthorized ==
    [][policy' # policy /\ ~fault =>
          \E s \in sessions : s.provider = "local-admin" /\ s.token > horizon
                              /\ \E c \in Client : request[c].token = s.token /\ request'[c] = Idle]_vars

=============================================================================
