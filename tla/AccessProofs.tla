---------------------------- MODULE AccessProofs ----------------------------
(***************************************************************************)
(* Proofs about Access, for any number of clients, VLANs, settings and     *)
(* exchanges: pending attempts are current, no late result is applied, the *)
(* host mode is respected, learned addresses and VLANs end with their      *)
(* session.                                                                *)
(*                                                                         *)
(* Every command is a chain of Runtime operations on a copy of the state,  *)
(* then reconcile_authentication, then the sweep.  Sound is what each      *)
(* operation of the chain keeps; Heirs says where its attempts come from;  *)
(* reconciling turns a sound state into one that fits the configuration.   *)
(***************************************************************************)
EXTENDS Access, FiniteSetTheorems, TLAPS

\* A runtime state in the middle of a command: attempts are tied to the session
\* of their client, an address is learned once per VLAN, and one learned under
\* its own session goes with it.
Sound(s) ==
    /\ s.session \in [Mac -> Session \cup {None}]
    /\ \A m \in Mac : s.attempt[m] # None =>
          /\ s.attempt[m].id \in Id
          /\ s.attempt[m].mab \in BOOLEAN /\ s.attempt[m].owned \in BOOLEAN
          /\ s.attempt[m].context # None
          /\ SessionId(s, m) = s.attempt[m].prior
          /\ GrantId(s, m) = s.attempt[m].grant
    /\ \A r \in s.rows : r.mac \in Mac /\ r.vid \in Vlan /\ (r.by = None \/ r.by \in Mac \X Id)
    /\ \A q, r \in s.rows : q.mac = r.mac /\ q.vid = r.vid => q = r
    /\ \A r \in s.rows : r.by # None /\ r.by[1] = r.mac => SessionId(s, r.mac) = r.by[2]

\* Attempts are pending ones or have a new id.
Heirs(s) ==
    \A m \in Mac : s.attempt[m] # None =>
        s.attempt[m] = run.attempt[m] \/ s.attempt[m].id = NewAttempt(m)

\* One client at most holds a place.
Single(c, s) == c.host # "multi-auth" => \A m, n \in Holders(s) : m = n

\* Attempts are for the configuration.
Fitting(c, s) ==
    \A m \in Mac : s.attempt[m] # None => Context(c, s, m, s.attempt[m].owned) = s.attempt[m].context

\* Sessions authorize VLANs that exist and are not forbidden.
Usable(c, s) == \A m \in Live(s) : session_vid(c, s.session[m]) \in c.vlans \ c.forbidden

\* Exchanges are within their limit.
Flights == flying \subseteq Mac \X Id /\ IsFiniteSet(flying) /\ Cardinality(flying) <= Tasks

\* An attempt that is withdrawn or lost its basis can only deliver in vain.
Voids == void \subseteq flying /\ void \cap Pending(run) = {}

IInv ==
    /\ cfg \in Configuration /\ Consistent(cfg)
    /\ Sound(run) /\ Single(cfg, run) /\ Fitting(cfg, run) /\ Usable(cfg, run)
    /\ \A r \in run.rows : r.vid \in cfg.vlans
    /\ Flights /\ Voids /\ late = FALSE

-----------------------------------------------------------------------------
(***************************************************************************)
(* Ids                                                                     *)
(***************************************************************************)

\* There is an id that is not in use.
LEMMA FreshExists ==
    ASSUME NEW used, IsFiniteSet(used), Cardinality(used) < MaxId
    PROVE  Fresh(used) \in Id /\ Fresh(used) \notin used
<1>1. MaxId \in Nat /\ MaxId > 0
  BY AccessAssumption
<1>2. IsFiniteSet(Id) /\ Cardinality(Id) = MaxId
  BY <1>1, FS_Interval DEF Id
<1>3. ~(Id \subseteq used)
  <2> SUFFICES ASSUME Id \subseteq used PROVE FALSE
    OBVIOUS
  <2>1. Cardinality(Id) <= Cardinality(used)
    BY FS_Subset
  <2>2. Cardinality(used) \in Nat
    BY FS_CardinalityType
  <2> QED BY <1>1, <1>2, <2>1, <2>2
<1>4. \E n \in Id : n \notin used
  BY <1>3
<1> QED BY <1>4 DEF Fresh

\* At most one more.
LEMMA OneMore ==
    ASSUME NEW S, IsFiniteSet(S), NEW T, \A x, y \in T : x = y
    PROVE  IsFiniteSet(S \cup T) /\ Cardinality(S \cup T) <= Cardinality(S) + 1
<1>0. Cardinality(S) \in Nat
  BY FS_CardinalityType
<1>1. CASE T = {}
  <2>1. S \cup T = S
    BY <1>1
  <2> QED BY <1>0, <2>1
<1>2. CASE T # {}
  <2>1. PICK x \in T : TRUE
    BY <1>2
  <2>2. S \cup T = S \cup {x}
    BY <2>1
  <2>3. IsFiniteSet(S \cup {x}) /\ Cardinality(S \cup {x}) <= Cardinality(S) + 1
    BY <1>0, FS_AddElement
  <2> QED BY <2>2, <2>3
<1> QED BY <1>1, <1>2

\* The id of a new attempt is neither the pending one's nor an exchange's.
LEMMA NewAttemptFresh ==
    ASSUME IInv, NEW m \in Mac
    PROVE  /\ NewAttempt(m) \in Id
           /\ run.attempt[m] # None => NewAttempt(m) # run.attempt[m].id
           /\ <<m, NewAttempt(m)>> \notin flying
<1> DEFINE F == {n \in Id : <<m, n>> \in flying}
           P == {a.id : a \in AttemptsOf(m)}
           f == [n \in F |-> <<m, n>>]
<1>0. Tasks \in Nat /\ MaxId \in Nat /\ MaxId > Tasks + 2
  BY AccessAssumption
<1>1. f \in Injection(F, flying)
  BY DEF Injection, IsInjective
<1>2. IsFiniteSet(flying) /\ Cardinality(flying) <= Tasks
  BY DEF IInv, Flights
<1>3. IsFiniteSet(F) /\ Cardinality(F) <= Cardinality(flying)
  <2> HIDE DEF f, F
  <2> QED BY <1>1, <1>2, FS_Injection
<1>4. Cardinality(F) \in Nat /\ Cardinality(flying) \in Nat
  BY <1>2, <1>3, FS_CardinalityType
<1>5. \A x, y \in P : x = y
  BY DEF AttemptsOf
<1>6. NewAttempt(m) = Fresh(F \cup P)
  BY DEF NewAttempt
<1>7. run.attempt[m] # None => run.attempt[m].id \in P
  BY DEF AttemptsOf
<1>8. \A n \in Id : <<m, n>> \in flying => n \in F
  OBVIOUS
<1> HIDE DEF F, P
<1>9. IsFiniteSet(F \cup P) /\ Cardinality(F \cup P) <= Cardinality(F) + 1
  BY <1>3, <1>5, OneMore
<1>10. Cardinality(F \cup P) \in Nat
  BY <1>9, FS_CardinalityType
<1>11. Cardinality(F \cup P) < MaxId
  BY <1>0, <1>2, <1>3, <1>4, <1>9, <1>10
<1>12. NewAttempt(m) \in Id /\ NewAttempt(m) \notin F \cup P
  BY <1>6, <1>9, <1>11, FreshExists
<1> QED BY <1>7, <1>8, <1>12

\* The id of a new session: no more ids are in use than addresses are learned,
\* and that of the session itself, to which its attempt is tied.
LEMMA NewSessionFresh ==
    ASSUME IInv, NEW m \in Mac
    PROVE  NewSession(m) \in Id
<1> DEFINE R == {n \in Id : \E r \in run.rows : r.by = <<m, n>>}
           T == {SessionId(run, m)} \cup {a.prior : a \in AttemptsOf(m)}
           row(n) == CHOOSE r \in run.rows : r.by = <<m, n>>
           f == [n \in R |-> <<row(n).mac, row(n).vid>>]
<1>0. MaxId \in Nat /\ MaxId > Cardinality(Mac \X Vlan) + 1 /\ IsFiniteSet(Mac \X Vlan)
  BY AccessAssumption, FS_Product
<1>1. \A n \in R : row(n) \in run.rows /\ row(n).by = <<m, n>>
  OBVIOUS
<1>2. f \in Injection(R, Mac \X Vlan)
  <2>1. \A n \in R : row(n).mac \in Mac /\ row(n).vid \in Vlan
    BY <1>1 DEF IInv, Sound
  <2>2. ASSUME NEW a \in R, NEW b \in R, f[a] = f[b] PROVE a = b
    <3>1. row(a).mac = row(b).mac /\ row(a).vid = row(b).vid
      BY <2>2
    <3>2. row(a) = row(b)
      BY <1>1, <3>1 DEF IInv, Sound
    <3> QED BY <1>1, <3>2
  <2>3. f \in [R -> Mac \X Vlan]
    BY <2>1
  <2> HIDE DEF f, R
  <2> QED BY <2>2, <2>3 DEF Injection, IsInjective
<1>3. IsFiniteSet(R) /\ Cardinality(R) <= Cardinality(Mac \X Vlan)
  <2> HIDE DEF f, R
  <2> QED BY <1>0, <1>2, FS_Injection
<1>4. \A x, y \in T : x = y
  BY DEF AttemptsOf, IInv, Sound
<1>5. NewSession(m) = Fresh(R \cup T)
  <2>1. R \cup T = {SessionId(run, m)} \cup {a.prior : a \in AttemptsOf(m)} \cup R
    OBVIOUS
  <2> QED BY <2>1 DEF NewSession
<1> HIDE DEF R, T
<1>6. IsFiniteSet(R \cup T) /\ Cardinality(R \cup T) <= Cardinality(R) + 1
  BY <1>3, <1>4, OneMore
<1>7. Cardinality(R \cup T) \in Nat /\ Cardinality(R) \in Nat /\ Cardinality(Mac \X Vlan) \in Nat
  BY <1>0, <1>3, <1>6, FS_CardinalityType
<1>8. Cardinality(R \cup T) < MaxId
  BY <1>0, <1>3, <1>6, <1>7
<1> QED BY <1>5, <1>6, <1>8, FreshExists

\* The id of a new grant.
LEMMA NewGrantFresh ==
    ASSUME NEW m \in Mac
    PROVE  NewGrant(m) \in Id
<1> DEFINE T == {a.grant : a \in AttemptsOf(m)}
           S == {GrantId(run, m)}
<1>0. MaxId \in Nat /\ MaxId > 2
  BY AccessAssumption
<1>1. \A x, y \in T : x = y
  BY DEF AttemptsOf
<1>2. IsFiniteSet(S) /\ Cardinality(S) = 1
  BY FS_Singleton
<1>3. NewGrant(m) = Fresh(S \cup T)
  BY DEF NewGrant
<1> HIDE DEF S, T
<1>4. IsFiniteSet(S \cup T) /\ Cardinality(S \cup T) <= 2
  BY <1>1, <1>2, OneMore
<1>5. Cardinality(S \cup T) \in Nat
  BY <1>4, FS_CardinalityType
<1>6. Cardinality(S \cup T) < MaxId
  BY <1>0, <1>4, <1>5
<1> QED BY <1>3, <1>4, <1>6, FreshExists

-----------------------------------------------------------------------------
(***************************************************************************)
(* Operations of Runtime                                                   *)
(***************************************************************************)

\* What the operations that only take away do: attempts and rows of t are some
\* of those of s, and its sessions are those of s.
LEMMA RetireSound ==
    ASSUME NEW s, Sound(s), Heirs(s), NEW S, NEW c
    PROVE  LET t == retire_authentication(s, S)
           IN /\ Sound(t) /\ Heirs(t) /\ (Single(c, s) => Single(c, t))
              /\ Holders(t) \subseteq Holders(s) /\ Live(t) = Live(s)
              /\ t.session = s.session /\ t.rows = s.rows
              /\ \A m \in Mac : t.attempt[m] = IF m \in S THEN None ELSE s.attempt[m]
<1> DEFINE t == retire_authentication(s, S)
<1>1. /\ t.session = s.session /\ t.rows = s.rows
      /\ \A m \in Mac : t.attempt[m] = IF m \in S THEN None ELSE s.attempt[m]
  BY DEF retire_authentication
<1> HIDE DEF t
<1>2. \A m \in Mac : SessionId(t, m) = SessionId(s, m) /\ GrantId(t, m) = GrantId(s, m)
  BY <1>1 DEF SessionId, GrantId
<1>3. \A m \in Mac : t.attempt[m] # None => t.attempt[m] = s.attempt[m]
  BY <1>1
<1>4. Sound(t)
  BY <1>1, <1>2, <1>3 DEF Sound
<1>5. Heirs(t)
  BY <1>3 DEF Heirs
<1>6. Holders(t) \subseteq Holders(s) /\ Live(t) = Live(s)
  BY <1>1, <1>3 DEF Holders, Live
<1>7. Single(c, s) => Single(c, t)
  BY <1>6 DEF Single
<1> QED BY <1>1, <1>4, <1>5, <1>6, <1>7 DEF t

\* end_session takes the renewal that is tied to the session along, and the
\* addresses learned under it.
LEMMA EndSound ==
    ASSUME NEW s, Sound(s), Heirs(s), NEW S, NEW c, NEW d
    PROVE  LET t == end_session(c, s, S)
           IN /\ Sound(t) /\ Heirs(t) /\ (Single(d, s) => Single(d, t))
              /\ Holders(t) \subseteq Holders(s) /\ Live(t) = Live(s) \ S
              /\ t.rows \subseteq s.rows
              /\ \A r \in t.rows : r.mac \notin S \cap Live(s)
              /\ \A m \in Mac : /\ t.session[m] = IF m \in S THEN None ELSE s.session[m]
                                /\ t.attempt[m] = IF m \in S \cap Live(s) THEN None ELSE s.attempt[m]
<1> DEFINE t == end_session(c, s, S)
           E == S \cap Live(s)
<1>1. /\ t.rows = s.rows \ Learned(c, s, E)
      /\ t.session = [m \in Mac |-> IF m \in E THEN None ELSE s.session[m]]
      /\ \A m \in Mac : t.attempt[m] = IF m \in E /\ s.attempt[m] # None
                                          /\ s.attempt[m].prior = s.session[m].id
                                       THEN None ELSE s.attempt[m]
  BY DEF end_session
<1>2. \A m \in E : m \in Mac /\ s.session[m] # None /\ SessionId(s, m) = s.session[m].id
  BY DEF Live, SessionId
<1>3. \A m \in Mac : m \notin E /\ m \in S => s.session[m] = None
  BY DEF Live
<1>4. \A m \in Mac : t.attempt[m] = IF m \in E THEN None ELSE s.attempt[m]
  BY <1>1, <1>2 DEF Sound
<1>5. \A m \in Mac : t.session[m] = IF m \in S THEN None ELSE s.session[m]
  BY <1>1, <1>3, <1>2
<1>6. \A r \in t.rows : r \in s.rows /\ r.mac \notin E
  BY <1>1 DEF Learned
<1>7. t.session \in [Mac -> Session \cup {None}]
  BY <1>1 DEF Sound
<1> HIDE DEF t, E
<1>8. \A m \in Mac : m \notin E => /\ t.session[m] = s.session[m]
                                   /\ SessionId(t, m) = SessionId(s, m) /\ GrantId(t, m) = GrantId(s, m)
  BY <1>3, <1>5 DEF SessionId, GrantId
<1>9. Sound(t)
  <2>1. \A m \in Mac : t.attempt[m] # None => m \notin E /\ t.attempt[m] = s.attempt[m]
    BY <1>4
  <2>2. \A r \in t.rows : r.mac \in Mac /\ r.vid \in Vlan /\ (r.by = None \/ r.by \in Mac \X Id)
    BY <1>6 DEF Sound
  <2>3. \A r \in t.rows : r.by # None /\ r.by[1] = r.mac => SessionId(t, r.mac) = r.by[2]
    BY <1>6, <1>8, <2>2 DEF Sound
  <2>4. \A q, r \in t.rows : q.mac = r.mac /\ q.vid = r.vid => q = r
    BY <1>6 DEF Sound
  <2>5. \A m \in Mac : t.attempt[m] # None =>
          /\ t.attempt[m].id \in Id
          /\ t.attempt[m].mab \in BOOLEAN /\ t.attempt[m].owned \in BOOLEAN
          /\ t.attempt[m].context # None
          /\ SessionId(t, m) = t.attempt[m].prior
          /\ GrantId(t, m) = t.attempt[m].grant
    BY <1>8, <2>1 DEF Sound
  <2> QED BY <1>7, <2>2, <2>3, <2>4, <2>5 DEF Sound
<1>10. Heirs(t)
  BY <1>4 DEF Heirs
<1>11. Holders(t) \subseteq Holders(s) /\ Live(t) = Live(s) \ S
  BY <1>4, <1>5 DEF Holders, Live
<1>12. Single(d, s) => Single(d, t)
  BY <1>11 DEF Single
<1> QED BY <1>4, <1>5, <1>6, <1>9, <1>10, <1>11, <1>12 DEF t, E

\* begin_authentication: new attempts are tied to the sessions of their clients,
\* and on a port with one place their client is the only one.
LEMMA BeginSound ==
    ASSUME IInv, NEW s, Sound(s), Heirs(s), NEW S, NEW c, NEW trigger \in BOOLEAN, NEW renewal \in BOOLEAN
    PROVE  LET t == begin_authentication(c, s, S, trigger, renewal)
           IN /\ Sound(t) /\ Heirs(t)
              /\ Single(c, s) /\ ((\A x, y \in S : x = y) \/ S \subseteq Live(s)) => Single(c, t)
              /\ t.session = s.session /\ t.rows = s.rows /\ Live(t) = Live(s)
<1> DEFINE t == begin_authentication(c, s, S, trigger, renewal)
           a(m) == Attempt(c, s, m, trigger, renewal)
           B(m) == m \in S /\ Begins(c, s, m, trigger, renewal)
<1>1. /\ t.session = s.session /\ t.rows = s.rows
      /\ \A m \in Mac : t.attempt[m] = IF B(m) THEN a(m) ELSE s.attempt[m]
  BY DEF begin_authentication
<1>2. \A m \in Mac : /\ a(m).id = NewAttempt(m) /\ a(m).prior = SessionId(s, m) /\ a(m).grant = GrantId(s, m)
                     /\ a(m).mab \in BOOLEAN /\ a(m).owned \in BOOLEAN
  BY DEF Attempt
<1>3. \A m \in Mac : B(m) => a(m).context # None /\ s.attempt[m] = None /\ Room(c, s, m)
  BY DEF Begins
<1>4. \A m \in Mac : NewAttempt(m) \in Id
  BY NewAttemptFresh
<1> HIDE DEF t, a, B
<1>5. \A m \in Mac : SessionId(t, m) = SessionId(s, m) /\ GrantId(t, m) = GrantId(s, m)
  BY <1>1 DEF SessionId, GrantId
<1>6. Sound(t)
  <2>1. ASSUME NEW m \in Mac, t.attempt[m] # None
        PROVE  /\ t.attempt[m].id \in Id
               /\ t.attempt[m].mab \in BOOLEAN /\ t.attempt[m].owned \in BOOLEAN
               /\ t.attempt[m].context # None
               /\ SessionId(t, m) = t.attempt[m].prior
               /\ GrantId(t, m) = t.attempt[m].grant
    <3>1. CASE B(m)
      BY <1>1, <1>2, <1>3, <1>4, <1>5, <3>1
    <3>2. CASE ~B(m)
      BY <1>1, <1>5, <2>1, <3>2 DEF Sound
    <3> QED BY <3>1, <3>2
  <2> QED BY <1>1, <1>5, <2>1 DEF Sound
<1>7. Heirs(t)
  BY <1>1, <1>2 DEF Heirs
<1>8. Live(t) = Live(s)
  BY <1>1 DEF Live
<1>9. ASSUME Single(c, s), (\A x, y \in S : x = y) \/ S \subseteq Live(s), c.host # "multi-auth",
             NEW x \in Holders(t), NEW y \in Holders(t)
      PROVE  x = y
  <2>1. \A m \in Holders(t) : m \in Mac /\ (m \in Holders(s) \/ B(m))
    BY <1>1 DEF Holders
  <2>2. \A m \in Mac : B(m) => m \in S /\ Holders(s) \subseteq {m}
    BY <1>3, <1>9 DEF Room, B
  <2>3. \A m, n \in Holders(s) : m = n
    BY <1>9 DEF Single
  <2>4. Live(s) \subseteq Holders(s)
    BY DEF Live, Holders
  <2>5. CASE S \subseteq Live(s)
    BY <2>1, <2>2, <2>3, <2>4, <2>5
  <2>6. CASE \A u, v \in S : u = v
    BY <2>1, <2>2, <2>3, <2>6
  <2> QED BY <1>9, <2>5, <2>6
<1>10. Single(c, s) /\ ((\A x, y \in S : x = y) \/ S \subseteq Live(s)) => Single(c, t)
  BY <1>9 DEF Single
<1> QED BY <1>1, <1>6, <1>7, <1>8, <1>10 DEF t

-----------------------------------------------------------------------------
(***************************************************************************)
(* Reconciling and publishing                                              *)
(***************************************************************************)

\* c may follow cfg: either the host mode stays and s respects it, or nothing
\* was done yet under the new one.
Reconcilable(c, s) == (c.host = cfg.host /\ Single(c, s)) \/ s = run

\* reconcile_authentication: what is left fits the configuration.
LEMMA ReconcileSound ==
    ASSUME IInv, NEW c \in Configuration, Consistent(c), NEW s, Sound(s), Heirs(s), Reconcilable(c, s)
    PROVE  LET t == reconcile_authentication(cfg, c, s)
           IN /\ Sound(t) /\ Heirs(t) /\ Single(c, t) /\ Fitting(c, t) /\ Usable(c, t)
              /\ t.rows \subseteq s.rows
              /\ cfg.vlans # c.vlans => \A m \in Mac : t.attempt[m] = None
<1> DEFINE O == Obsolete(cfg, c, s)
           k == retire_authentication(s, O)
           R == Revoked(cfg, c, k)
           t == end_session(c, k, R)
<1>1. reconcile_authentication(cfg, c, s) = t
  BY DEF reconcile_authentication
<1>2. /\ Sound(k) /\ Heirs(k) /\ (Single(c, s) => Single(c, k))
      /\ Holders(k) \subseteq Holders(s) /\ Live(k) = Live(s)
      /\ k.session = s.session /\ k.rows = s.rows
      /\ \A m \in Mac : k.attempt[m] = IF m \in O THEN None ELSE s.attempt[m]
  BY RetireSound
<1> HIDE DEF k, R
<1>3. /\ Sound(t) /\ Heirs(t) /\ (Single(c, k) => Single(c, t))
      /\ Holders(t) \subseteq Holders(k) /\ Live(t) = Live(k) \ R
      /\ t.rows \subseteq k.rows
      /\ \A m \in Mac : /\ t.session[m] = IF m \in R THEN None ELSE k.session[m]
                        /\ t.attempt[m] = IF m \in R \cap Live(k) THEN None ELSE k.attempt[m]
  <2>1. Sound(k) /\ Heirs(k)
    BY <1>2
  <2> QED BY <2>1, EndSound
<1> HIDE DEF t
<1>4. R \subseteq Live(k)
  BY DEF R, Revoked
<1>5. \A m \in Mac : m \in O <=>
        /\ s.attempt[m] # None
        /\ \/ Context(c, s, m, s.attempt[m].owned) # s.attempt[m].context
           \/ cfg.vlans # c.vlans
  BY DEF Obsolete
<1>6. \A m \in Live(k) : m \in R <=>
        \/ ~c.up
        \/ authentication_of(c) # authentication_of(cfg)
        \/ session_vid(cfg, k.session[m]) \notin c.vlans
        \/ session_vid(c, k.session[m]) \in c.forbidden
  BY DEF R, Revoked
<1> HIDE DEF O
<1>7. \A m \in Mac : t.attempt[m] # None =>
        /\ t.attempt[m] = s.attempt[m] /\ t.session[m] = s.session[m]
        /\ m \notin O /\ m \notin R
  BY <1>2, <1>3, <1>4
<1>8. Fitting(c, t)
  <2> SUFFICES ASSUME NEW m \in Mac, t.attempt[m] # None
               PROVE  Context(c, t, m, t.attempt[m].owned) = t.attempt[m].context
    BY DEF Fitting
  <2>1. Context(c, s, m, s.attempt[m].owned) = s.attempt[m].context
    BY <1>5, <1>7
  <2>2. t.attempt[m] = s.attempt[m] /\ t.session[m] = s.session[m]
    BY <1>7
  <2> QED BY <2>1, <2>2 DEF Context, session_authentication_context
<1>9. cfg.vlans # c.vlans => \A m \in Mac : t.attempt[m] = None
  BY <1>5, <1>7
<1>10. Usable(c, t)
  <2> SUFFICES ASSUME NEW m \in Live(t) PROVE session_vid(c, t.session[m]) \in c.vlans \ c.forbidden
    BY DEF Usable
  <2>1. m \in Mac /\ m \in Live(k) /\ m \notin R /\ t.session[m] = k.session[m]
    BY <1>3 DEF Live
  <2>2. session_vid(cfg, k.session[m]) \in c.vlans /\ session_vid(c, k.session[m]) \notin c.forbidden
    BY <1>6, <2>1
  <2>3. c.pvid \in c.vlans
    BY DEF Consistent
  <2> QED BY <2>1, <2>2, <2>3 DEF session_vid
<1>11. Single(c, t)
  <2>1. CASE c.host = cfg.host /\ Single(c, s)
    BY <1>2, <1>3, <2>1
  <2>2. CASE s = run /\ c.host = cfg.host
    <3>1. Single(c, s)
      BY <2>2 DEF IInv, Single
    <3> QED BY <1>2, <1>3, <3>1
  <2>3. CASE s = run /\ c.host # cfg.host
    <3>1. authentication_of(c) # authentication_of(cfg)
      BY <2>3 DEF authentication_of
    <3>2. \A m \in Mac : t.session[m] = None
      BY <1>3, <1>6, <3>1 DEF Live
    <3>3. ASSUME NEW m \in Mac, t.attempt[m] # None PROVE FALSE
      <4> DEFINE b == run.attempt[m]
      <4>1. b = t.attempt[m] /\ m \notin O
        BY <1>7, <2>3, <3>3
      <4>2. b # None /\ b.context # None /\ b.owned \in BOOLEAN
        BY <3>3, <4>1 DEF IInv, Sound
      <4>3. Context(c, run, m, b.owned) = b.context
        BY <1>5, <2>3, <4>1, <4>2
      <4>4. Context(cfg, run, m, b.owned) = b.context
        BY <4>2 DEF IInv, Fitting
      <4> HIDE DEF b
      <4>5. CASE b.owned
        <5>1. session_authentication_context(c, run, m) = b.context
              /\ session_authentication_context(cfg, run, m) = b.context
          BY <4>3, <4>4, <4>5 DEF Context
        <5>2. b.context = <<run.session[m].id, run.session[m].grant, authentication_of(c), c.forbidden, c.settings>>
          BY <4>2, <5>1 DEF session_authentication_context
        <5>3. b.context = <<run.session[m].id, run.session[m].grant, authentication_of(cfg), cfg.forbidden, cfg.settings>>
          BY <4>2, <5>1 DEF session_authentication_context
        <5> QED BY <3>1, <5>2, <5>3
      <4>6. CASE ~b.owned
        <5> DEFINE peer(d) == IF d.method = "mab" THEN "any" ELSE d.subject[m]
        <5>1. authentication_context(c, m) = b.context /\ authentication_context(cfg, m) = b.context
          BY <4>3, <4>4, <4>6 DEF Context
        <5>2. b.context = <<authentication_of(c), c.forbidden, peer(c), c.settings>>
          BY <4>2, <5>1 DEF authentication_context
        <5>3. b.context = <<authentication_of(cfg), cfg.forbidden, peer(cfg), cfg.settings>>
          BY <4>2, <5>1 DEF authentication_context
        <5> HIDE DEF peer
        <5> QED BY <3>1, <5>2, <5>3
      <4> QED BY <4>5, <4>6
    <3>4. Holders(t) = {}
      BY <3>2, <3>3 DEF Holders
    <3> QED BY <3>4 DEF Single
  <2> QED BY <2>1, <2>2, <2>3 DEF Reconcilable
<1> QED BY <1>1, <1>2, <1>3, <1>8, <1>9, <1>10, <1>11

\* The sweep only takes addresses away.
LEMMA SweepSound ==
    ASSUME NEW c, NEW s, Sound(s), Heirs(s), Single(c, s), Fitting(c, s), Usable(c, s)
    PROVE  LET t == Sweep(c, s)
           IN /\ Sound(t) /\ Heirs(t) /\ Single(c, t) /\ Fitting(c, t) /\ Usable(c, t)
              /\ t.attempt = s.attempt
              /\ \A r \in t.rows : r.vid \in c.vlans
<1> DEFINE t == Sweep(c, s)
<1>1. /\ t.attempt = s.attempt /\ t.session = s.session /\ t.rows \subseteq s.rows
      /\ \A r \in t.rows : r.vid \in c.vlans
  BY DEF Sweep
<1> HIDE DEF t
<1>2. \A m : SessionId(t, m) = SessionId(s, m) /\ GrantId(t, m) = GrantId(s, m)
  BY <1>1 DEF SessionId, GrantId
<1>3. Sound(t)
  <2>1. \A r \in t.rows : r \in s.rows
    BY <1>1
  <2> QED BY <1>1, <1>2, <2>1 DEF Sound
<1>4. Heirs(t)
  BY <1>1 DEF Heirs
<1>5. Live(t) = Live(s) /\ Holders(t) = Holders(s)
  BY <1>1 DEF Live, Holders
<1>6. Single(c, t) /\ Usable(c, t)
  BY <1>1, <1>5 DEF Single, Usable
<1>7. Fitting(c, t)
  <2>1. \A m, b : Context(c, t, m, b) = Context(c, s, m, b)
    BY <1>1 DEF Context, session_authentication_context
  <2> QED BY <1>1, <2>1 DEF Fitting
<1> QED BY <1>1, <1>3, <1>4, <1>6, <1>7 DEF t

\* Attempts that are tied and fit are current.
LEMMA FittingUnchanged ==
    ASSUME NEW c, NEW s, Sound(s), Fitting(c, s), NEW m \in Mac, s.attempt[m] # None
    PROVE  Unchanged(c, s, m, s.attempt[m])
BY DEF Sound, Fitting, Unchanged

\* _execute publishes a state that fits.
LEMMA PublishKeeps ==
    ASSUME IInv, NEW c \in Configuration, Consistent(c),
           NEW t, Sound(t), Heirs(t), Single(c, t), Fitting(c, t), Usable(c, t),
           \A r \in t.rows : r.vid \in c.vlans,
           cfg.vlans # c.vlans => \A m \in Mac : t.attempt[m] = None,
           NEW used, Publish(c, t, used), flying' \subseteq flying, late' = FALSE
    PROVE  IInv'
<1>1. /\ cfg' = c /\ run' = t
      /\ void' = (void \cup Voided(used)) \cap (flying' \cup Pending(t))
  BY DEF Publish
<1>2. Flights'
  <2>1. IsFiniteSet(flying) /\ Cardinality(flying) <= Tasks /\ flying \subseteq Mac \X Id
    BY DEF IInv, Flights
  <2>2. IsFiniteSet(flying') /\ Cardinality(flying') <= Cardinality(flying)
    BY <2>1, FS_Subset
  <2>3. Cardinality(flying) \in Nat /\ Cardinality(flying') \in Nat /\ Tasks \in Nat
    BY <2>1, <2>2, FS_CardinalityType, AccessAssumption
  <2> QED BY <2>1, <2>2, <2>3 DEF Flights
<1>3. ASSUME NEW p \in void', p \in Pending(t) PROVE FALSE
  <2>1. PICK m \in Mac : t.attempt[m] # None /\ p = <<m, t.attempt[m].id>>
    BY <1>3 DEF Pending
  <2>2. t.attempt[m] = run.attempt[m] \/ t.attempt[m].id = NewAttempt(m)
    BY <2>1 DEF Heirs
  <2>3. CASE p \in void
    <3>1. p \in flying /\ p \notin Pending(run)
      BY <2>3 DEF IInv, Voids
    <3>2. t.attempt[m] # run.attempt[m]
      BY <2>1, <3>1 DEF Pending
    <3> QED BY <2>1, <2>2, <3>1, <3>2, NewAttemptFresh
  <2>4. CASE p \in Voided(used)
    <3>1. /\ p \in Pending(run)
          /\ \/ p \notin Pending(run')
             \/ ~Unchanged(cfg', run', p[1], run.attempt[p[1]])
             \/ cfg'.vlans # cfg.vlans
      BY <2>4 DEF Voided
    <3>2. run.attempt[m] # None /\ run.attempt[m].id = t.attempt[m].id
      BY <2>1, <3>1 DEF Pending
    <3>3. t.attempt[m] = run.attempt[m]
      BY <2>2, <3>2, NewAttemptFresh
    <3>4. Unchanged(c, t, m, t.attempt[m])
      BY <2>1, FittingUnchanged
    <3>5. p[1] = m
      BY <2>1
    <3> QED BY <1>1, <1>3, <2>1, <3>1, <3>3, <3>4, <3>5
  <2> QED BY <1>1, <2>3, <2>4
<1>4. Voids'
  <2>1. void' \cap Pending(t) = {}
    BY <1>3
  <2>2. Pending(run)' = Pending(t)
    BY <1>1 DEF Pending
  <2> QED BY <1>1, <2>1, <2>2 DEF Voids
<1>5. Sound(run)' /\ Single(cfg, run)' /\ Fitting(cfg, run)' /\ Usable(cfg, run)'
  BY <1>1 DEF Sound, Single, Fitting, Usable, SessionId, GrantId, Holders, Live
<1>6. (cfg \in Configuration /\ Consistent(cfg))' /\ (\A r \in run.rows : r.vid \in cfg.vlans)'
  BY <1>1
<1> QED BY <1>2, <1>4, <1>5, <1>6 DEF IInv

-----------------------------------------------------------------------------
(***************************************************************************)
(* Commands                                                                *)
(***************************************************************************)

\* A state in the middle of a command that keeps the host mode.
Sane(c, s) == Sound(s) /\ Heirs(s) /\ Single(c, s)

\* The published state is such a state.
LEMMA RunSane ==
    ASSUME IInv, NEW c, c.host = cfg.host
    PROVE  Sane(c, run)
BY DEF IInv, Sane, Heirs, Single

\* A set of at most one element.
LEMMA FewSame ==
    ASSUME NEW S, IsFiniteSet(S), Cardinality(S) <= 1
    PROVE  \A x, y \in S : x = y
<1>1. Cardinality(S) \in Nat
  BY FS_CardinalityType
<1>2. CASE Cardinality(S) = 0
  BY <1>2, FS_EmptySet
<1>3. CASE Cardinality(S) = 1
  <2>1. PICK x : S = {x}
    BY <1>3, FS_Singleton
  <2> QED BY <2>1
<1> QED BY <1>1, <1>2, <1>3

\* The operations, for a command that keeps the host mode.
LEMMA RetireSane ==
    ASSUME NEW c, NEW s, Sane(c, s), NEW S
    PROVE  LET t == retire_authentication(s, S)
           IN Sane(c, t) /\ t.session = s.session /\ t.rows = s.rows /\ Live(t) = Live(s)
<1> DEFINE t == retire_authentication(s, S)
<1>1. /\ Sound(t) /\ Heirs(t) /\ (Single(c, s) => Single(c, t)) /\ Live(t) = Live(s)
      /\ t.session = s.session /\ t.rows = s.rows
  BY RetireSound DEF Sane
<1> HIDE DEF t
<1>2. Sane(c, t)
  BY <1>1 DEF Sane
<1> QED BY <1>1, <1>2 DEF t

\* Ending sessions leaves the port with no more clients.
LEMMA EndSane ==
    ASSUME NEW c, NEW s, Sane(c, s), NEW S, NEW d
    PROVE  LET t == end_session(d, s, S)
           IN Sane(c, t) /\ t.rows \subseteq s.rows
<1> DEFINE t == end_session(d, s, S)
<1>1. Sound(t) /\ Heirs(t) /\ (Single(c, s) => Single(c, t)) /\ t.rows \subseteq s.rows
  BY EndSound DEF Sane
<1> HIDE DEF t
<1>2. Sane(c, t)
  BY <1>1 DEF Sane
<1> QED BY <1>1, <1>2 DEF t

\* Those of S are tried: several only where several have a place, or where each
\* has one.
Few(c, s, S) == c.host = "multi-auth" \/ (\A x, y \in S : x = y) \/ S \subseteq Live(s)

\* Beginning attempts where the host mode leaves room for them.
LEMMA BeginSane ==
    ASSUME IInv, NEW c, NEW s, Sane(c, s), NEW S, NEW trigger \in BOOLEAN, NEW renewal \in BOOLEAN,
           Few(c, s, S)
    PROVE  LET t == begin_authentication(c, s, S, trigger, renewal)
           IN Sane(c, t) /\ t.rows = s.rows
<1> DEFINE t == begin_authentication(c, s, S, trigger, renewal)
<1>1. /\ Sound(t) /\ Heirs(t) /\ t.rows = s.rows
      /\ Single(c, s) /\ ((\A x, y \in S : x = y) \/ S \subseteq Live(s)) => Single(c, t)
  BY BeginSound DEF Sane
<1> HIDE DEF t
<1>2. c.host = "multi-auth" => Single(c, t)
  BY DEF Single
<1>3. Sane(c, t)
  BY <1>1, <1>2 DEF Sane, Few
<1> QED BY <1>1, <1>3 DEF t

\* process_session_deadlines: sessions end and others are renewed.
LEMMA ProcessSane ==
    ASSUME IInv, NEW c, NEW s, Sane(c, s), NEW E, NEW R
    PROVE  LET t == process_session_deadlines(c, s, E, R)
           IN Sane(c, t) /\ t.rows \subseteq s.rows
<1> DEFINE left == end_session(c, s, E)
           live == R \cap Live(left)
           t == begin_authentication(c, left, live, FALSE, TRUE)
<1>1. Sane(c, left) /\ left.rows \subseteq s.rows
  BY EndSane
<1>2. process_session_deadlines(c, s, E, R) = t
  BY DEF process_session_deadlines
<1>3. live \subseteq Live(left)
  OBVIOUS
<1> HIDE DEF left, live
<1>4. Sane(c, t) /\ t.rows = left.rows
  <2>1. Few(c, left, live)
    BY <1>3 DEF Few
  <2>2. \A x, y \in BOOLEAN : LET b == begin_authentication(c, left, live, x, y)
                              IN Sane(c, b) /\ b.rows = left.rows
    BY <1>1, <2>1, BeginSane
  <2> QED BY <2>2
<1> QED BY <1>1, <1>2, <1>4

\* The session of a client ends, and one is tried.
LEMMA RestartSane ==
    ASSUME IInv, NEW c, c.host = cfg.host, NEW target, NEW m
    PROVE  Sane(c, Restart(c, target, m))
<1> DEFINE s == retire_authentication(run, {target})
           left == end_session(c, s, {target})
           t == begin_authentication(c, left, {m}, FALSE, FALSE)
<1>1. Sane(c, s)
  BY RunSane, RetireSane
<1> HIDE DEF s
<1>2. Sane(c, left)
  BY <1>1, EndSane
<1> HIDE DEF left
<1>3. Few(c, left, {m})
  BY DEF Few
<1>4. Sane(c, t)
  BY <1>2, <1>3, BeginSane
<1> QED BY <1>4 DEF Restart, t, left, s

\* Withdrawing a renewal when its client is heard.
LEMMA NoticedSane ==
    ASSUME IInv, NEW m \in Mac
    PROVE  Sane(cfg, Noticed(m)) /\ Noticed(m).rows = run.rows /\ Noticed(m).session = run.session
BY RunSane, RetireSane DEF Noticed

\* A command with an exchange's result or without.
LEMMA ExecuteKeeps ==
    ASSUME IInv, NEW c \in Configuration, Consistent(c), NEW s, Sound(s), Heirs(s), Reconcilable(c, s),
           NEW used, Execute(c, s, used), flying' \subseteq flying, late' = FALSE
    PROVE  IInv'
<1> DEFINE k == reconcile_authentication(cfg, c, s)
           t == Sweep(c, k)
<1>1. /\ Sound(k) /\ Heirs(k) /\ Single(c, k) /\ Fitting(c, k) /\ Usable(c, k)
      /\ cfg.vlans # c.vlans => \A m \in Mac : k.attempt[m] = None
  BY ReconcileSound
<1>2. Publish(c, t, used)
  BY DEF Execute
<1> HIDE DEF k
<1>3. /\ Sound(t) /\ Heirs(t) /\ Single(c, t) /\ Fitting(c, t) /\ Usable(c, t)
      /\ t.attempt = k.attempt
      /\ \A r \in t.rows : r.vid \in c.vlans
  BY <1>1, SweepSound
<1> HIDE DEF t
<1>4. cfg.vlans # c.vlans => \A m \in Mac : t.attempt[m] = None
  BY <1>1, <1>3
<1> QED BY <1>2, <1>3, <1>4, PublishKeeps

\* A command, which leaves the exchanges alone.
LEMMA CommandKeeps ==
    ASSUME IInv, NEW c \in Configuration, Consistent(c), NEW s, Sound(s), Heirs(s), Reconcilable(c, s),
           Command(c, s)
    PROVE  IInv'
<1>1. Execute(c, s, {}) /\ flying' \subseteq flying /\ late' = FALSE
  BY DEF Command, IInv
<1> QED BY <1>1, ExecuteKeeps

\* The same under the configuration in force.
LEMMA SaneCommand ==
    ASSUME IInv, NEW s, Sane(cfg, s), Command(cfg, s)
    PROVE  IInv'
<1>1. cfg \in Configuration /\ Consistent(cfg) /\ Reconcilable(cfg, s) /\ Sound(s) /\ Heirs(s)
  BY DEF IInv, Reconcilable, Sane
<1> QED BY <1>1, CommandKeeps

\* Without the sweep.
LEMMA AdvanceKeeps ==
    ASSUME IInv, NEW s, Sane(cfg, s), \A r \in s.rows : r.vid \in cfg.vlans, Advance(s)
    PROVE  IInv'
<1> DEFINE t == reconcile_authentication(cfg, cfg, s)
<1>1. cfg \in Configuration /\ Consistent(cfg) /\ Reconcilable(cfg, s) /\ Sound(s) /\ Heirs(s)
  BY DEF IInv, Reconcilable, Sane
<1>2. /\ Sound(t) /\ Heirs(t) /\ Single(cfg, t) /\ Fitting(cfg, t) /\ Usable(cfg, t)
      /\ t.rows \subseteq s.rows
  BY <1>1, ReconcileSound
<1>3. Publish(cfg, t, {}) /\ flying' \subseteq flying /\ late' = FALSE
  BY DEF Advance, IInv
<1> HIDE DEF t
<1>4. \A r \in t.rows : r.vid \in cfg.vlans
  BY <1>2
<1> QED BY <1>1, <1>2, <1>3, <1>4, PublishKeeps

-----------------------------------------------------------------------------
(***************************************************************************)
(* One lemma per action                                                    *)
(***************************************************************************)

\* radius-discover: of the clients tried, those with a session have their place
\* and on a port with one place there is at most one other.
LEMMA DiscoverKeeps ==
    ASSUME IInv, NEW E \in SUBSET Mac, NEW R \in SUBSET Mac, NEW B \in SUBSET Mac, NEW a \in BOOLEAN,
           Discover(E, R, B, a)
    PROVE  IInv'
<1> DEFINE due == process_session_deadlines(cfg, run, E, R)
           s == begin_authentication(cfg, due, B, FALSE, FALSE)
<1>1. Tried(cfg, R \cup B) /\ IF a THEN Advance(s) ELSE Command(cfg, s)
  BY DEF Discover
<1>2. Sane(cfg, due) /\ due.rows \subseteq run.rows
  <2>1. Sane(cfg, run)
    BY RunSane
  <2> QED BY <2>1, ProcessSane
<1> HIDE DEF due
<1>3. cfg.host = "multi-auth" \/ \A x, y \in B : x = y
  <2>1. CASE Cardinality(R \cup B) <= 1
    <3>1. IsFiniteSet(R \cup B)
      BY AccessAssumption, FS_Subset
    <3>2. \A x, y \in R \cup B : x = y
      BY <2>1, <3>1, FewSame
    <3> QED BY <3>2
  <2> QED BY <1>1, <2>1 DEF Tried
<1>4. Sane(cfg, s) /\ s.rows = due.rows
  <2>1. Few(cfg, due, B)
    BY <1>3 DEF Few
  <2>2. \A x, y \in BOOLEAN : LET t == begin_authentication(cfg, due, B, x, y)
                              IN Sane(cfg, t) /\ t.rows = due.rows
    BY <1>2, <2>1, BeginSane
  <2> QED BY <2>2
<1> HIDE DEF s
<1>5. \A r \in s.rows : r.vid \in cfg.vlans
  BY <1>2, <1>4 DEF IInv
<1>6. CASE a
  <2>1. Advance(s)
    BY <1>1, <1>6
  <2> QED BY <1>4, <1>5, <2>1, AdvanceKeeps
<1>7. CASE ~a
  <2>1. Command(cfg, s)
    BY <1>1, <1>7
  <2> QED BY <1>4, <2>1, SaneCommand
<1> QED BY <1>6, <1>7

\* An admitted frame: the row it leaves is the only one of its address in its
\* VLAN, and names the session that admits it.
LEMMA ObserveKeeps ==
    ASSUME IInv, NEW m \in Mac, NEW tag \in Vlan \cup {0}, NEW learn \in BOOLEAN, Observe(m, tag, learn)
    PROVE  IInv'
<1> DEFINE s == Noticed(m)
           own == The(Using(m))
           row == [mac |-> m, vid |-> FrameVid(m, tag),
                   by |-> IF Using(m) = {} THEN None ELSE <<own, run.session[own].id>>]
           rows == IF learn THEN {r \in s.rows : ~(r.mac = m /\ r.vid = row.vid)} \cup {row} ELSE s.rows
           t == [attempt |-> s.attempt, session |-> s.session, rows |-> rows]
<1>1. FrameVid(m, tag) \in cfg.vlans /\ Advance(t)
  BY DEF Observe, Admitted
<1>2. Sane(cfg, s) /\ s.rows = run.rows /\ s.session = run.session
  BY NoticedSane
<1>3. row.mac = m /\ row.vid = FrameVid(m, tag) /\ row.vid \in cfg.vlans /\ row.vid \in Vlan
  BY <1>1 DEF IInv, Configuration
<1>4. row.by = None \/ (row.by \in Mac \X Id /\ (row.by[1] = m => SessionId(run, m) = row.by[2]))
  <2>1. CASE Using(m) = {}
    BY <2>1
  <2>2. CASE Using(m) # {}
    <3>1. own \in Live(run)
      BY <2>2 DEF The, Using, Owner
    <3>2. own \in Mac /\ run.session[own] # None /\ run.session[own] \in Session
      BY <3>1 DEF Live, IInv, Sound
    <3>3. run.session[own].id \in Id
      BY <3>2 DEF Session
    <3>4. row.by = <<own, run.session[own].id>>
      BY <2>2
    <3> HIDE DEF row, own
    <3> QED BY <3>2, <3>3, <3>4 DEF SessionId
  <2> QED BY <2>1, <2>2
<1>5. \A r \in rows : r \in run.rows \/ r = row
  BY <1>2
<1>6. \A q, r \in rows : q.mac = r.mac /\ q.vid = r.vid => q = r
  BY <1>2, <1>3 DEF Sane, Sound
<1>7. t.attempt = s.attempt /\ t.session = s.session /\ t.rows = rows
  OBVIOUS
<1> HIDE DEF rows, row, t, s
<1>8. \A n : SessionId(t, n) = SessionId(s, n) /\ GrantId(t, n) = GrantId(s, n)
             /\ SessionId(t, n) = SessionId(run, n)
  BY <1>2, <1>7 DEF SessionId, GrantId
<1>9. Sound(t)
  <2>1. \A r \in t.rows : r.mac \in Mac /\ r.vid \in Vlan /\ (r.by = None \/ r.by \in Mac \X Id)
    BY <1>3, <1>4, <1>5, <1>7 DEF IInv, Sound
  <2>2. \A r \in t.rows : r.by # None /\ r.by[1] = r.mac => SessionId(t, r.mac) = r.by[2]
    BY <1>3, <1>4, <1>5, <1>7, <1>8 DEF IInv, Sound
  <2> QED BY <1>2, <1>6, <1>7, <1>8, <2>1, <2>2 DEF Sane, Sound
<1>10. Heirs(t) /\ Single(cfg, t)
  BY <1>2, <1>7 DEF Sane, Heirs, Single, Holders
<1>11. \A r \in t.rows : r.vid \in cfg.vlans
  BY <1>3, <1>5, <1>7 DEF IInv
<1>12. Sane(cfg, t)
  BY <1>9, <1>10 DEF Sane
<1> QED BY <1>1, <1>11, <1>12, AdvanceKeeps

\* A refused frame, which may start an attempt.
LEMMA DiscardKeeps ==
    ASSUME IInv, NEW m \in Mac, NEW tag \in Vlan \cup {0}, NEW trigger \in BOOLEAN, Discard(m, tag, trigger)
    PROVE  IInv'
<1> DEFINE s == Noticed(m)
           mab == cfg.method = "mab" \/ trigger
           t == begin_authentication(cfg, s, {m}, mab, FALSE)
<1>1. Advance(t) \/ Advance(s)
  BY DEF Discard
<1>2. Sane(cfg, s) /\ s.rows = run.rows
  BY NoticedSane
<1>3. mab \in BOOLEAN /\ FALSE \in BOOLEAN
  OBVIOUS
<1> HIDE DEF s, mab
<1>4. Sane(cfg, t) /\ t.rows = s.rows
  <2>1. Few(cfg, s, {m})
    BY DEF Few
  <2>2. \A x, y \in BOOLEAN : LET b == begin_authentication(cfg, s, {m}, x, y)
                              IN Sane(cfg, b) /\ b.rows = s.rows
    BY <1>2, <2>1, BeginSane
  <2> QED BY <1>3, <2>2
<1> HIDE DEF t
<1>5. \A r \in run.rows : r.vid \in cfg.vlans
  BY DEF IInv
<1> QED BY <1>1, <1>2, <1>4, <1>5, AdvanceKeeps

\* A learned address is gone.
LEMMA AgeKeeps ==
    ASSUME IInv, NEW r \in run.rows, Age(r)
    PROVE  IInv'
<1> DEFINE t == [attempt |-> run.attempt, session |-> run.session, rows |-> run.rows \ {r}]
<1>1. Advance(t)
  BY DEF Age
<1>2. t.attempt = run.attempt /\ t.session = run.session /\ t.rows \subseteq run.rows
  OBVIOUS
<1> HIDE DEF t
<1>3. \A n : SessionId(t, n) = SessionId(run, n) /\ GrantId(t, n) = GrantId(run, n)
  BY <1>2 DEF SessionId, GrantId
<1>4. \A q \in t.rows : q \in run.rows
  BY <1>2
<1>5. Sound(t)
  BY <1>2, <1>3, <1>4 DEF IInv, Sound
<1>6. Heirs(t) /\ Single(cfg, t)
  BY <1>2 DEF IInv, Heirs, Single, Holders
<1>7. Sane(cfg, t) /\ \A q \in t.rows : q.vid \in cfg.vlans
  BY <1>4, <1>5, <1>6 DEF Sane, IInv
<1> QED BY <1>1, <1>7, AdvanceKeeps

\* A disconnect of some sessions.
LEMMA DisconnectKeeps ==
    ASSUME IInv, NEW S \in SUBSET Mac, Disconnect(S)
    PROVE  IInv'
<1> DEFINE t == end_session(cfg, run, S)
<1>1. Command(cfg, t)
  BY DEF Disconnect
<1>2. Sane(cfg, run)
  BY RunSane
<1>3. Sane(cfg, t)
  BY <1>2, EndSane
<1> HIDE DEF t
<1> QED BY <1>1, <1>3, SaneCommand

\* A session is told from none.
LEMMA SessionNotNone == None \notin Session
<1>1. Session \subseteq [id : Nat, grant : Nat, mab : BOOLEAN, default : BOOLEAN, vid : Nat]
  <2>1. Id \subseteq Nat /\ Vlan \subseteq Nat
    BY AccessAssumption DEF Id
  <2> QED BY <2>1 DEF Session
<1> QED BY <1>1, AccessAssumption

\* Another grant for the sessions of S: their renewals are withdrawn, and a
\* session that moves to another VLAN loses its addresses.
LEMMA ChangeKeeps ==
    ASSUME IInv, NEW S \in SUBSET Mac, NEW v \in Vlan \cup {0}, NEW due \in Due,
           ChangeOfAuthorization(S, v, due)
    PROVE  IInv'
<1> DEFINE moved == {m \in S : v # 0 /\ session_vid(cfg, run.session[m]) # v}
           granted(m) == [id |-> run.session[m].id, grant |-> NewGrant(m), mab |-> run.session[m].mab,
                          default |-> run.session[m].default /\ v = 0,
                          vid |-> IF v = 0 THEN run.session[m].vid ELSE v]
           s == [attempt |-> retire_authentication(run, S).attempt,
                 session |-> [m \in Mac |-> IF m \notin S THEN run.session[m] ELSE granted(m)],
                 rows |-> run.rows \ Learned(cfg, run, moved)]
           E == IF due = "end" THEN S ELSE {}
           R == IF due = "renew" THEN S ELSE {}
           t == process_session_deadlines(cfg, s, E, R)
<1>1. S \subseteq Live(run) /\ Command(cfg, t)
  BY DEF ChangeOfAuthorization, Settle
<1>2. \A m \in S : m \in Mac /\ run.session[m] # None /\ run.session[m] \in Session
  BY <1>1 DEF Live, IInv, Sound
<1>3. \A m \in S : granted(m) \in Session /\ granted(m).id = run.session[m].id
  <2>1. SUFFICES ASSUME NEW m \in S
                 PROVE  granted(m) \in Session /\ granted(m).id = run.session[m].id
    OBVIOUS
  <2>2. NewGrant(m) \in Id
    BY <1>2, NewGrantFresh
  <2>3. run.session[m] \in Session
    BY <1>2
  <2>4. run.session[m].id \in Id /\ run.session[m].mab \in BOOLEAN /\ run.session[m].default \in BOOLEAN
        /\ run.session[m].vid \in Vlan
    BY <2>3 DEF Session
  <2>5. (run.session[m].default /\ v = 0) \in BOOLEAN
    OBVIOUS
  <2>6. (IF v = 0 THEN run.session[m].vid ELSE v) \in Vlan
    BY <2>4
  <2> QED BY <2>2, <2>4, <2>5, <2>6 DEF Session
<1>4. None \notin Session
  BY SessionNotNone
<1>5. /\ s.session \in [Mac -> Session \cup {None}] /\ s.rows \subseteq run.rows
      /\ \A m \in Mac : s.session[m] = IF m \notin S THEN run.session[m] ELSE granted(m)
      /\ \A m \in Mac : s.attempt[m] = IF m \in S THEN None ELSE run.attempt[m]
  BY <1>3 DEF IInv, Sound, retire_authentication
<1> HIDE DEF s, granted
<1>6. \A m \in Mac : SessionId(s, m) = SessionId(run, m)
  BY <1>2, <1>3, <1>4, <1>5 DEF SessionId
<1>7. \A m \in Mac : m \notin S => GrantId(s, m) = GrantId(run, m)
  BY <1>5 DEF GrantId
<1>8. \A m \in Mac : s.attempt[m] # None => m \notin S /\ s.attempt[m] = run.attempt[m]
  BY <1>5
<1>9. Sound(s)
  <2>1. \A r \in s.rows : r \in run.rows
    BY <1>5
  <2>2. \A r \in s.rows : r.mac \in Mac /\ r.vid \in Vlan /\ (r.by = None \/ r.by \in Mac \X Id)
    BY <2>1 DEF IInv, Sound
  <2>3. \A r \in s.rows : r.by # None /\ r.by[1] = r.mac => SessionId(s, r.mac) = r.by[2]
    BY <1>6, <2>1, <2>2 DEF IInv, Sound
  <2>4. \A q, r \in s.rows : q.mac = r.mac /\ q.vid = r.vid => q = r
    BY <2>1 DEF IInv, Sound
  <2>5. \A m \in Mac : s.attempt[m] # None =>
          /\ s.attempt[m].id \in Id
          /\ s.attempt[m].mab \in BOOLEAN /\ s.attempt[m].owned \in BOOLEAN
          /\ s.attempt[m].context # None
          /\ SessionId(s, m) = s.attempt[m].prior
          /\ GrantId(s, m) = s.attempt[m].grant
    BY <1>6, <1>7, <1>8 DEF IInv, Sound
  <2> QED BY <1>5, <2>2, <2>3, <2>4, <2>5 DEF Sound
<1>10. Heirs(s)
  BY <1>8 DEF Heirs
<1>11. Holders(s) \subseteq Holders(run)
  BY <1>2, <1>5 DEF Holders
<1>12. Sane(cfg, s)
  BY <1>9, <1>10, <1>11 DEF Sane, IInv, Single
<1> HIDE DEF E, R
<1>13. Sane(cfg, t)
  BY <1>12, ProcessSane
<1> HIDE DEF t
<1> QED BY <1>1, <1>13, SaneCommand

\* One client is tried.
LEMMA TrySane ==
    ASSUME IInv, NEW c, NEW s, Sane(c, s), NEW m
    PROVE  \A x, y \in BOOLEAN : Sane(c, begin_authentication(c, s, {m}, x, y))
<1>1. Few(c, s, {m})
  BY DEF Few
<1> QED BY <1>1, BeginSane

\* source-authentication restarts or renews the session the client uses.
LEMMA SourceActionKeeps ==
    ASSUME IInv, NEW m \in Mac, NEW restart \in BOOLEAN, SourceAction(m, restart)
    PROVE  IInv'
<1> DEFINE owner == Owner(cfg, run, m)
           target == IF owner # {} THEN The(owner) ELSE m
           s == retire_authentication(run, {target})
           a == Restart(cfg, target, m)
           b == begin_authentication(cfg, s, {target}, FALSE, TRUE)
           d == begin_authentication(cfg, s, {m}, FALSE, FALSE)
<1>1. Command(cfg, a) \/ Command(cfg, b) \/ Command(cfg, d)
  BY DEF SourceAction, Reauthenticate
<1> HIDE DEF target
<1>2. Sane(cfg, a)
  BY RestartSane
<1>3. Sane(cfg, s)
  BY RunSane, RetireSane
<1> HIDE DEF s, a
<1>4. Sane(cfg, b) /\ Sane(cfg, d)
  BY <1>3, TrySane
<1> HIDE DEF b, d
<1> QED BY <1>1, <1>2, <1>4, SaneCommand

\* radius-session-action restarts or renews a session.
LEMMA SessionActionKeeps ==
    ASSUME IInv, NEW m \in Mac, NEW restart \in BOOLEAN, SessionAction(m, restart)
    PROVE  IInv'
<1> DEFINE s == retire_authentication(run, {m})
           a == Restart(cfg, m, m)
           b == begin_authentication(cfg, s, {m}, FALSE, TRUE)
<1>1. Command(cfg, a) \/ Command(cfg, b)
  BY DEF SessionAction, Reauthenticate
<1>2. Sane(cfg, a)
  BY RestartSane
<1>3. Sane(cfg, s)
  BY RunSane, RetireSane
<1> HIDE DEF s, a
<1>4. Sane(cfg, b)
  BY <1>3, TrySane
<1> HIDE DEF b
<1> QED BY <1>1, <1>2, <1>4, SaneCommand

\* Another configuration of the same host mode.
LEMMA SaneChange ==
    ASSUME IInv, NEW c \in Configuration, Consistent(c), c.host = cfg.host, NEW s, Sane(c, s), Command(c, s)
    PROVE  IInv'
<1>1. Reconcilable(c, s) /\ Sound(s) /\ Heirs(s)
  BY DEF Reconcilable, Sane
<1> QED BY <1>1, CommandKeeps

\* A new supplicant profile, used at once under the changed configuration.
LEMMA SaveSupplicantKeeps ==
    ASSUME IInv, NEW m \in Mac, NEW x \in Client, SaveSupplicant(m, x)
    PROVE  IInv'
<1> DEFINE c == [cfg EXCEPT !.subject[m] = x]
           owner == Owner(cfg, run, m)
           target == IF owner # {} THEN The(owner) ELSE m
           s == Restart(c, target, m)
<1>1. Command(c, s)
  BY DEF SaveSupplicant
<1>2. c \in Configuration
  BY DEF IInv, Configuration
<1>3. Consistent(c) /\ c.host = cfg.host
  BY DEF IInv, Configuration, Consistent
<1> HIDE DEF c, target
<1>4. Sane(c, s)
  BY <1>3, RestartSane
<1> HIDE DEF s
<1> QED BY <1>1, <1>2, <1>3, <1>4, SaneChange

\* The PAE objects, with the port control that may be set with them.
LEMMA PaeActionKeeps ==
    ASSUME IInv, NEW control \in Control, NEW i \in BOOLEAN, NEW m \in Mac, PaeAction(control, i, m)
    PROVE  IInv'
<1> DEFINE c == [cfg EXCEPT !.control = control]
           ended == end_session(c, run, Live(run))
           cleared == retire_authentication(ended, Mac)
           kept == retire_authentication(run, Live(run))
           tried == begin_authentication(c, kept, Live(run), FALSE, TRUE)
           renewed == IF control = "auto" THEN tried ELSE run
           s == IF i THEN cleared ELSE renewed
           T == (IF c.host = "multi-auth" THEN Mac ELSE {m}) \ Live(s)
           t == begin_authentication(c, s, T, FALSE, FALSE)
<1>1. Command(c, t)
  BY DEF PaeAction
<1>2. c \in Configuration
  BY DEF IInv, Configuration
<1>3. Consistent(c) /\ c.host = cfg.host
  BY DEF IInv, Configuration, Consistent
<1> HIDE DEF c
<1>4. Sane(c, run)
  BY <1>3, RunSane
<1>5. Sane(c, cleared)
  <2>1. Sane(c, ended)
    BY <1>4, EndSane
  <2> HIDE DEF ended
  <2> QED BY <2>1, RetireSane
<1>6. Sane(c, tried)
  <2>1. Sane(c, kept) /\ Live(kept) = Live(run)
    BY <1>4, RetireSane
  <2> HIDE DEF kept
  <2>2. Few(c, kept, Live(run))
    BY <2>1 DEF Few
  <2>3. \A x, y \in BOOLEAN : Sane(c, begin_authentication(c, kept, Live(run), x, y))
    BY <2>1, <2>2, BeginSane
  <2> QED BY <2>3
<1> HIDE DEF cleared, tried
<1>7. Sane(c, s)
  BY <1>4, <1>5, <1>6
<1> HIDE DEF s
<1>8. Few(c, s, T)
  BY DEF Few
<1> HIDE DEF T
<1>9. Sane(c, t)
  <2>1. \A x, y \in BOOLEAN : Sane(c, begin_authentication(c, s, T, x, y))
    BY <1>7, <1>8, BeginSane
  <2> QED BY <2>1
<1> HIDE DEF t
<1> QED BY <1>1, <1>2, <1>3, <1>9, SaneChange

\* An edit: whatever aspect changes, reconciling suffices, also for another host
\* mode, since the copy it reconciles is the published state itself.
LEMMA EditKeeps ==
    ASSUME IInv, NEW c \in Edited, Edit(c)
    PROVE  IInv'
<1>1. c \in Configuration
  <2> DEFINE A == {[cfg EXCEPT !.control = x] : x \in Control}
             B == {[cfg EXCEPT !.method = x] : x \in Method}
             C == {[cfg EXCEPT !.host = x] : x \in Host}
             D == {[cfg EXCEPT !.up = x] : x \in BOOLEAN}
             E == {[cfg EXCEPT !.settings = x] : x \in Settings}
             F == {[cfg EXCEPT !.subject[p[1]] = p[2]] : p \in Mac \X Client}
             G == {[cfg EXCEPT !.vlans = @ \cup {v}] : v \in Vlan}
             less(v) == [cfg EXCEPT !.vlans = @ \ {v}, !.forbidden = @ \ {v},
                                    !.pvid = IF @ = v THEN 1 ELSE @,
                                    !.admitted = (@ \ {v}) \cup (IF cfg.pvid = v THEN {1} ELSE {})]
             H == {less(v) : v \in Vlan \ {1}}
             I == {[cfg EXCEPT !.pvid = v, !.admitted = @ \cup {v}] : v \in cfg.vlans \ cfg.forbidden}
             J == {[cfg EXCEPT !.admitted = @ \ {v}] : v \in Vlan \ {cfg.pvid}}
             K == {[cfg EXCEPT !.forbidden = @ \cup {v}] : v \in cfg.vlans \ cfg.admitted}
             L == {[cfg EXCEPT !.forbidden = {}]}
  <2>1. cfg \in Configuration /\ 1 \in Vlan
    BY AccessAssumption DEF IInv
  <2>2. Edited = A \cup B \cup C \cup D \cup E \cup F \cup G \cup H \cup I \cup J \cup K \cup L
    BY Zenon DEF Edited
  <2>3. c \in A \/ c \in B \/ c \in C \/ c \in D \/ c \in E => c \in Configuration
    BY <2>1 DEF Configuration
  <2>4. c \in F \/ c \in G \/ c \in J \/ c \in L => c \in Configuration
    BY <2>1 DEF Configuration
  <2>5. ASSUME c \in H PROVE c \in Configuration
    <3>1. PICK v \in Vlan : c = less(v)
      BY <2>5
    <3> DEFINE p == IF cfg.pvid = v THEN 1 ELSE cfg.pvid
               a == (cfg.admitted \ {v}) \cup (IF cfg.pvid = v THEN {1} ELSE {})
               w == cfg.vlans \ {v}
               f == cfg.forbidden \ {v}
    <3>2. p \in Vlan /\ a \in SUBSET Vlan /\ w \in SUBSET Vlan /\ f \in SUBSET Vlan
      BY <2>1 DEF Configuration
    <3>3. c = [cfg EXCEPT !.vlans = w, !.forbidden = f, !.pvid = p, !.admitted = a]
      BY <3>1
    <3> HIDE DEF p, a, w, f
    <3> QED BY <2>1, <3>2, <3>3 DEF Configuration
  <2>6. ASSUME c \in I PROVE c \in Configuration
    <3>1. PICK v \in cfg.vlans : c = [cfg EXCEPT !.pvid = v, !.admitted = @ \cup {v}]
      BY <2>6
    <3>2. v \in Vlan /\ cfg.admitted \cup {v} \in SUBSET Vlan
      BY <2>1 DEF Configuration
    <3> QED BY <2>1, <3>1, <3>2 DEF Configuration
  <2>7. ASSUME c \in K PROVE c \in Configuration
    <3>1. PICK v \in cfg.vlans : c = [cfg EXCEPT !.forbidden = @ \cup {v}]
      BY <2>7
    <3>2. cfg.forbidden \cup {v} \in SUBSET Vlan
      BY <2>1 DEF Configuration
    <3> QED BY <2>1, <3>1, <3>2 DEF Configuration
  <2> HIDE DEF A, B, C, D, E, F, G, H, I, J, K, L
  <2> QED BY <2>2, <2>3, <2>4, <2>5, <2>6, <2>7
<1>2. Consistent(c) /\ Command(c, run)
  BY DEF Edit
<1>3. Reconcilable(c, run) /\ Sound(run) /\ Heirs(run)
  BY DEF Reconcilable, IInv, Heirs
<1> QED BY <1>1, <1>2, <1>3, CommandKeeps

\* A reset, which has nothing to reconcile.
LEMMA ResetKeeps ==
    ASSUME IInv, Reset
    PROVE  IInv'
<1> DEFINE t == Empty
<1>1. Publish(cfg, t, {}) /\ flying' \subseteq flying /\ late' = FALSE
  BY DEF Reset, IInv
<1>2. /\ t.rows = {} /\ t.session \in [Mac -> Session \cup {None}]
      /\ \A m \in Mac : t.attempt[m] = None /\ t.session[m] = None
  BY DEF Empty
<1> HIDE DEF t
<1>3. Sound(t) /\ Heirs(t) /\ Fitting(cfg, t) /\ Usable(cfg, t) /\ Single(cfg, t)
  BY <1>2 DEF Sound, Heirs, Fitting, Usable, Single, Live, Holders
<1>4. \A r \in t.rows : r.vid \in cfg.vlans
  BY <1>2
<1>5. cfg \in Configuration /\ Consistent(cfg)
  BY DEF IInv
<1> QED BY <1>1, <1>3, <1>4, <1>5, PublishKeeps

\* The exchange of a pending attempt starts below the limit.
LEMMA StartKeeps ==
    ASSUME IInv, NEW m \in Mac, Start(m)
    PROVE  IInv'
<1> DEFINE p == <<m, run.attempt[m].id>>
<1>1. /\ p \notin flying /\ Cardinality(flying) < Tasks /\ flying' = flying \cup {p}
      /\ run.attempt[m] # None /\ UNCHANGED <<cfg, run, void, late>>
  BY DEF Start
<1>2. p \in Mac \X Id
  BY <1>1 DEF IInv, Sound
<1> HIDE DEF p
<1>3. IsFiniteSet(flying) /\ flying \subseteq Mac \X Id
  BY DEF IInv, Flights
<1>4. IsFiniteSet(flying') /\ Cardinality(flying') = Cardinality(flying) + 1
  BY <1>1, <1>3, FS_AddElement
<1>5. Cardinality(flying) \in Nat /\ Tasks \in Nat
  BY <1>3, FS_CardinalityType, AccessAssumption
<1>6. Flights'
  BY <1>1, <1>2, <1>3, <1>4, <1>5 DEF Flights
<1>7. Voids'
  BY <1>1 DEF IInv, Voids, Pending
<1>8. Sound(run)' /\ Single(cfg, run)' /\ Fitting(cfg, run)' /\ Usable(cfg, run)'
  BY <1>1 DEF IInv, Sound, Single, Fitting, Usable, SessionId, GrantId, Holders, Live
<1> QED BY <1>1, <1>6, <1>7, <1>8 DEF IInv

\* An exchange that ends without a result, or whose result changes nothing.
LEMMA DropKeeps ==
    ASSUME IInv, NEW m \in Mac, NEW id \in Id, Drop(m, id)
    PROVE  IInv'
<1>1. /\ flying' = flying \ {<<m, id>>} /\ UNCHANGED <<cfg, run, late>>
      /\ void' = void \cap (flying' \cup Pending(run))
  BY DEF Drop
<1>2. IsFiniteSet(flying) /\ flying \subseteq Mac \X Id /\ Cardinality(flying) <= Tasks
  BY DEF IInv, Flights
<1>3. IsFiniteSet(flying') /\ Cardinality(flying') <= Cardinality(flying)
  BY <1>1, <1>2, FS_Subset
<1>4. Cardinality(flying) \in Nat /\ Cardinality(flying') \in Nat /\ Tasks \in Nat
  BY <1>2, <1>3, FS_CardinalityType, AccessAssumption
<1>5. Flights'
  BY <1>1, <1>2, <1>3, <1>4 DEF Flights
<1>6. Voids'
  <2>1. Pending(run)' = Pending(run)
    BY <1>1 DEF Pending
  <2> QED BY <1>1, <2>1 DEF IInv, Voids
<1>7. Sound(run)' /\ Single(cfg, run)' /\ Fitting(cfg, run)' /\ Usable(cfg, run)'
  BY <1>1 DEF IInv, Sound, Single, Fitting, Usable, SessionId, GrantId, Holders, Live
<1> QED BY <1>1, <1>5, <1>6, <1>7 DEF IInv

\* The attempt whose result is applied is not a void one.
LEMMA CurrentNotVoid ==
    ASSUME IInv, NEW m \in Mac, NEW id, current_attempt(m, id)
    PROVE  <<m, id>> \notin void
BY DEF IInv, Voids, Pending, current_attempt

\* A reject or a failure, with or without the fallback to MAB.
LEMMA RefusedKeeps ==
    ASSUME IInv, NEW m \in Mac, NEW id \in Id, NEW fallback \in BOOLEAN, Refused(m, id, fallback)
    PROVE  IInv'
<1> DEFINE s == retire_authentication(run, {m})
           a == begin_authentication(cfg, s, {m}, TRUE, FALSE)
           b == end_session(cfg, s, {m})
           t == IF fallback THEN a ELSE b
<1>1. flying' \subseteq flying /\ current_attempt(m, id) /\ Execute(cfg, t, {<<m, id>>})
  BY DEF Refused
<1>2. late' = FALSE
  <2>1. late' = (late \/ <<m, id>> \in void)
    BY DEF Refused
  <2> QED BY <1>1, <2>1, CurrentNotVoid DEF IInv
<1>3. Sane(cfg, s)
  BY RunSane, RetireSane
<1> HIDE DEF s
<1>4. Sane(cfg, a)
  BY <1>3, TrySane
<1>5. Sane(cfg, b)
  BY <1>3, EndSane
<1> HIDE DEF a, b
<1>6. Sane(cfg, t)
  BY <1>4, <1>5
<1> HIDE DEF t
<1>7. cfg \in Configuration /\ Consistent(cfg) /\ Reconcilable(cfg, t) /\ Sound(t) /\ Heirs(t)
  BY <1>6 DEF IInv, Reconcilable, Sane
<1> QED BY <1>1, <1>2, <1>7, ExecuteKeeps

\* An accept: the session is kept, or another takes its place and the addresses
\* learned under it are gone.
LEMMA AcceptedSane ==
    ASSUME IInv, NEW m \in Mac, run.attempt[m] # None, NEW default \in BOOLEAN, NEW v \in Vlan,
           NEW timers \in BOOLEAN
    PROVE  Sane(cfg, Accepted(m, default, v, timers))
<1> DEFINE s == retire_authentication(run, {m})
           old == run.session[m]
           keeps == old # None /\ old.default = default /\ old.vid = v /\ timers
           left == IF keeps THEN s ELSE end_session(cfg, s, {m})
           new == [id |-> IF keeps THEN old.id ELSE NewSession(m),
                   grant |-> IF keeps THEN old.grant ELSE NewGrant(m),
                   mab |-> run.attempt[m].mab, default |-> default, vid |-> v]
           t == [attempt |-> left.attempt, rows |-> left.rows, session |-> [left.session EXCEPT ![m] = new]]
<1>1. Accepted(m, default, v, timers) = t
  BY DEF Accepted
<1>2. /\ Sound(s) /\ Heirs(s) /\ Live(s) = Live(run) /\ s.session = run.session /\ s.rows = run.rows
      /\ \A n \in Mac : s.attempt[n] = IF n \in {m} THEN None ELSE run.attempt[n]
  <2>1. Sound(run) /\ Heirs(run)
    BY DEF IInv, Heirs
  <2> QED BY <2>1, RetireSound
<1>3. old = None \/ (old \in Session /\ old # None)
  BY DEF IInv, Sound
<1>4. new \in Session /\ (keeps => new.id = old.id)
  <2>1. NewSession(m) \in Id /\ NewGrant(m) \in Id
    BY NewSessionFresh, NewGrantFresh
  <2>2. run.attempt[m].mab \in BOOLEAN
    BY DEF IInv, Sound
  <2>3. keeps => old.id \in Id /\ old.grant \in Id
    BY <1>3 DEF Session
  <2> HIDE DEF keeps, old
  <2> QED BY <2>1, <2>2, <2>3 DEF Session
<1> HIDE DEF s, new
<1>5. /\ Sound(left) /\ Heirs(left) /\ left.rows \subseteq run.rows /\ left.attempt[m] = None
      /\ \A n \in Mac : n # m => left.session[n] = run.session[n] /\ left.attempt[n] = run.attempt[n]
      /\ ~keeps => \A r \in left.rows : r.mac \notin {m} \cap Live(run)
  <2>1. CASE keeps
    BY <1>2, <2>1
  <2>2. CASE ~keeps
    <3> DEFINE e == end_session(cfg, s, {m})
    <3>1. /\ Sound(e) /\ Heirs(e) /\ e.rows \subseteq s.rows
          /\ \A r \in e.rows : r.mac \notin {m} \cap Live(s)
          /\ \A n \in Mac : /\ e.session[n] = IF n \in {m} THEN None ELSE s.session[n]
                            /\ e.attempt[n] = IF n \in {m} \cap Live(s) THEN None ELSE s.attempt[n]
      BY <1>2, EndSound
    <3>2. left = e
      BY <2>2
    <3> HIDE DEF e, left, keeps
    <3> QED BY <1>2, <2>2, <3>1, <3>2
  <2> QED BY <2>1, <2>2
<1>6. /\ t.attempt = left.attempt /\ t.rows = left.rows
      /\ t.session = [left.session EXCEPT ![m] = new]
  OBVIOUS
<1> HIDE DEF t, left
<1>7. /\ t.session \in [Mac -> Session \cup {None}] /\ t.session[m] = new
      /\ \A n \in Mac : n # m => t.session[n] = left.session[n]
  BY <1>4, <1>5, <1>6 DEF Sound
<1>8. \A n \in Mac : n # m => SessionId(t, n) = SessionId(left, n) /\ GrantId(t, n) = GrantId(left, n)
                              /\ SessionId(t, n) = SessionId(run, n)
  BY <1>5, <1>7 DEF SessionId, GrantId
<1>9. new # None
  BY <1>4, SessionNotNone
<1>10. \A r \in t.rows : r.by # None /\ r.by[1] = r.mac => SessionId(t, r.mac) = r.by[2]
  <2> SUFFICES ASSUME NEW r \in t.rows, r.by # None, r.by[1] = r.mac PROVE SessionId(t, r.mac) = r.by[2]
    OBVIOUS
  <2>1. r \in run.rows
    BY <1>5, <1>6
  <2>2. r.mac \in Mac /\ r.by \in Mac \X Id /\ SessionId(run, r.mac) = r.by[2]
    BY <2>1 DEF IInv, Sound
  <2>3. CASE r.mac # m
    BY <1>8, <2>2, <2>3
  <2>4. CASE r.mac = m /\ keeps
    BY <1>4, <1>7, <1>9, <2>2, <2>4 DEF SessionId
  <2>5. CASE r.mac = m /\ ~keeps
    <3>1. m \notin Live(run)
      BY <1>5, <1>6, <2>5
    <3>2. SessionId(run, m) = 0
      BY <3>1 DEF Live, SessionId
    <3>3. r.by[2] \in Id /\ 0 \notin Id
      BY <2>2, AccessAssumption DEF Id
    <3> QED BY <2>2, <2>5, <3>2, <3>3
  <2> QED BY <2>3, <2>4, <2>5
<1>11. Sound(t)
  <2>1. \A n \in Mac : t.attempt[n] # None => n # m /\ t.attempt[n] = left.attempt[n]
    BY <1>5, <1>6
  <2>2. \A n \in Mac : t.attempt[n] # None =>
          /\ t.attempt[n].id \in Id
          /\ t.attempt[n].mab \in BOOLEAN /\ t.attempt[n].owned \in BOOLEAN
          /\ t.attempt[n].context # None
          /\ SessionId(t, n) = t.attempt[n].prior
          /\ GrantId(t, n) = t.attempt[n].grant
    BY <1>5, <1>8, <2>1 DEF Sound
  <2>3. /\ \A r \in t.rows : r.mac \in Mac /\ r.vid \in Vlan /\ (r.by = None \/ r.by \in Mac \X Id)
        /\ \A q, r \in t.rows : q.mac = r.mac /\ q.vid = r.vid => q = r
    BY <1>5, <1>6 DEF Sound
  <2> QED BY <1>7, <1>10, <2>2, <2>3 DEF Sound
<1>12. Heirs(t)
  BY <1>5, <1>6 DEF Heirs
<1>13. Single(cfg, t)
  <2>1. m \in Holders(run)
    BY DEF Holders
  <2>2. Holders(t) \subseteq Holders(run)
    BY <1>5, <1>6, <1>7, <2>1 DEF Holders
  <2> QED BY <2>2 DEF IInv, Single
<1>14. Sane(cfg, t)
  BY <1>11, <1>12, <1>13 DEF Sane
<1> QED BY <1>1, <1>14

\* An accept, and timers that are due at once.
LEMMA GrantedKeeps ==
    ASSUME IInv, NEW m \in Mac, NEW id \in Id, NEW default \in BOOLEAN, NEW v \in Vlan,
           NEW timers \in BOOLEAN, NEW due \in Due, Granted(m, id, default, v, timers, due)
    PROVE  IInv'
<1> DEFINE s == Accepted(m, default, v, timers)
           E == IF due = "end" THEN {m} ELSE {}
           R == IF due = "renew" THEN {m} ELSE {}
           t == process_session_deadlines(cfg, s, E, R)
<1>1. flying' \subseteq flying /\ current_attempt(m, id) /\ Execute(cfg, t, {<<m, id>>})
  BY DEF Granted, Settle
<1>2. late' = FALSE
  <2>1. late' = (late \/ <<m, id>> \in void)
    BY DEF Granted
  <2> QED BY <1>1, <2>1, CurrentNotVoid DEF IInv
<1>3. Sane(cfg, s)
  <2>1. run.attempt[m] # None
    BY <1>1 DEF current_attempt
  <2> QED BY <2>1, AcceptedSane
<1> HIDE DEF s, E, R
<1>4. Sane(cfg, t)
  BY <1>3, ProcessSane
<1> HIDE DEF t
<1>5. cfg \in Configuration /\ Consistent(cfg) /\ Reconcilable(cfg, t) /\ Sound(t) /\ Heirs(t)
  BY <1>4 DEF IInv, Reconcilable, Sane
<1> QED BY <1>1, <1>2, <1>5, ExecuteKeeps

-----------------------------------------------------------------------------
(***************************************************************************)
(* The invariant and what follows                                          *)
(***************************************************************************)

\* The invariant holds at the start.
LEMMA InitKeeps == Init => IInv
<1> SUFFICES ASSUME Init PROVE IInv
  OBVIOUS
<1>1. cfg \in [control : Control, method : Method, host : Host, up : {TRUE},
               subject : [Mac -> {"peer"}], settings : Settings, vlans : {Vlan}, pvid : {1},
               admitted : {{1}}, forbidden : {{}}]
  BY DEF Init
<1>2. cfg \in Configuration /\ Consistent(cfg)
  <2>1. 1 \in Vlan /\ [Mac -> {"peer"}] \subseteq [Mac -> Client]
    BY AccessAssumption
  <2>2. /\ cfg.vlans = Vlan /\ cfg.pvid = 1 /\ cfg.admitted = {1} /\ cfg.forbidden = {}
        /\ cfg.subject \in [Mac -> Client]
    BY <1>1, <2>1
  <2>3. cfg \in Configuration
    BY <1>1, <2>1, <2>2 DEF Configuration
  <2> QED BY <2>1, <2>2, <2>3 DEF Consistent
<1>3. /\ run.rows = {} /\ run.session \in [Mac -> Session \cup {None}]
      /\ \A m \in Mac : run.attempt[m] = None /\ run.session[m] = None
  BY DEF Init, Empty
<1>4. Sound(run) /\ Fitting(cfg, run) /\ Usable(cfg, run) /\ Single(cfg, run)
  BY <1>3 DEF Sound, Fitting, Usable, Single, Live, Holders
<1>5. Flights
  <2>1. flying = {} /\ Tasks \in Nat
    BY AccessAssumption DEF Init
  <2>2. IsFiniteSet({}) /\ Cardinality({}) = 0
    BY FS_EmptySet
  <2> QED BY <2>1, <2>2 DEF Flights
<1>6. Voids /\ late = FALSE
  BY DEF Init, Voids
<1> QED BY <1>2, <1>3, <1>4, <1>5, <1>6 DEF IInv

\* Every step keeps the invariant.
LEMMA StepKeeps == IInv /\ [Next]_vars => IInv'
<1> SUFFICES ASSUME IInv, [Next]_vars PROVE IInv'
  OBVIOUS
<1>1. ASSUME NEW E \in SUBSET Mac, NEW R \in SUBSET Mac, NEW B \in SUBSET Mac, NEW a \in BOOLEAN,
             Discover(E, R, B, a)
      PROVE  IInv'
  BY <1>1, DiscoverKeeps
<1>2. ASSUME NEW m \in Mac, NEW tag \in Vlan \cup {0}, NEW b \in BOOLEAN,
             Observe(m, tag, b) \/ Discard(m, tag, b)
      PROVE  IInv'
  BY <1>2, ObserveKeeps, DiscardKeeps
<1>3. ASSUME NEW r \in run.rows, Age(r) PROVE IInv'
  BY <1>3, AgeKeeps
<1>4. ASSUME NEW S \in SUBSET Mac, Disconnect(S) PROVE IInv'
  BY <1>4, DisconnectKeeps
<1>5. ASSUME NEW S \in SUBSET Mac, NEW v \in Vlan \cup {0}, NEW due \in Due,
             ChangeOfAuthorization(S, v, due)
      PROVE  IInv'
  BY <1>5, ChangeKeeps
<1>6. ASSUME NEW m \in Mac, NEW restart \in BOOLEAN, SourceAction(m, restart) \/ SessionAction(m, restart)
      PROVE  IInv'
  BY <1>6, SourceActionKeeps, SessionActionKeeps
<1>7. ASSUME NEW m \in Mac, NEW x \in Client, SaveSupplicant(m, x) PROVE IInv'
  BY <1>7, SaveSupplicantKeeps
<1>8. ASSUME NEW control \in Control, NEW i \in BOOLEAN, NEW m \in Mac, PaeAction(control, i, m)
      PROVE  IInv'
  BY <1>8, PaeActionKeeps
<1>9. ASSUME NEW c \in Edited, Edit(c) PROVE IInv'
  BY <1>9, EditKeeps
<1>10. CASE Reset
  BY <1>10, ResetKeeps
<1>11. ASSUME NEW m \in Mac, Start(m) PROVE IInv'
  BY <1>11, StartKeeps
<1>12. ASSUME NEW m \in Mac, NEW id \in Id, Drop(m, id) PROVE IInv'
  BY <1>12, DropKeeps
<1>13. ASSUME NEW m \in Mac, Resolve(m) PROVE IInv'
  <2>1. ASSUME NEW id \in Id, NEW f \in BOOLEAN, Refused(m, id, f) PROVE IInv'
    BY <2>1, RefusedKeeps
  <2>2. ASSUME NEW id \in Id, NEW t \in BOOLEAN, NEW due \in Due, Granted(m, id, TRUE, cfg.pvid, t, due)
        PROVE  IInv'
    <3>1. TRUE \in BOOLEAN /\ cfg.pvid \in Vlan
      BY DEF IInv, Configuration
    <3>2. \A d \in BOOLEAN, v \in Vlan : Granted(m, id, d, v, t, due) => IInv'
      BY GrantedKeeps
    <3> QED BY <2>2, <3>1, <3>2
  <2>3. ASSUME NEW id \in Id, NEW t \in BOOLEAN, NEW due \in Due, NEW v \in Vlan,
               Granted(m, id, FALSE, v, t, due)
        PROVE  IInv'
    <3>1. \A d \in BOOLEAN : Granted(m, id, d, v, t, due) => IInv'
      BY GrantedKeeps
    <3> QED BY <2>3, <3>1
  <2> QED BY <1>13, <2>1, <2>2, <2>3 DEF Resolve
<1>14. ASSUME NEW m \in Mac, Lapse(m) PROVE IInv'
  BY <1>14, DropKeeps DEF Lapse, Ignore, Overflow
<1>15. CASE UNCHANGED vars
  BY <1>15 DEF vars, IInv, Sound, Single, Fitting, Usable, Flights, Voids, SessionId, GrantId, Holders,
               Live, Pending
<1> QED BY <1>1, <1>2, <1>3, <1>4, <1>5, <1>6, <1>7, <1>8, <1>9, <1>10, <1>11, <1>12, <1>13, <1>14, <1>15
           DEF Next

\* In every reachable state attempts are tied to the session and grant they were
\* begun under and fit the configuration, sessions and addresses have usable
\* VLANs, the host mode and the limit of exchanges hold, and no exchange of a
\* withdrawn attempt is taken for a pending one.
THEOREM Invariance == Spec => []IInv
<1> QED BY InitKeeps, StepKeeps, PTL DEF Spec

\* After every command each pending attempt is one whose result would still be
\* accepted: reconcile_authentication leaves none whose port, client, settings,
\* session or grant has changed, and no operation changes the session of a
\* client without withdrawing its attempt.
THEOREM AttemptsCurrent == Spec => []AttemptsAreCurrent
<1>1. IInv => AttemptsAreCurrent
  BY FittingUnchanged DEF IInv, AttemptsAreCurrent
<1> QED BY <1>1, Invariance, PTL

\* No result is applied for an attempt that was withdrawn or lost its basis, even
\* if the change was undone before the result arrived: such an attempt is not
\* pending, and the id of a new attempt is not one of an exchange under way, so
\* current_attempt does not take one for the other.
THEOREM NoLateGrants == Spec => []NoStaleGrant
<1>1. IInv => NoStaleGrant
  BY DEF IInv, NoStaleGrant
<1> QED BY <1>1, Invariance, PTL

\* Outside multi-auth at most one client of the port is being authenticated or
\* authorized: an edit of the host mode ends every session and attempt, and
\* begin_authentication starts one only where there is room.
THEOREM HostsLimited == Spec => []HostModeLimit
<1>1. ASSUME IInv PROVE HostModeLimit
  <2> SUFFICES ASSUME cfg.host # "multi-auth" PROVE Cardinality(Holders(run)) <= 1
    BY DEF HostModeLimit
  <2>1. \A m, n \in Holders(run) : m = n
    BY <1>1 DEF IInv, Single
  <2>2. IsFiniteSet({}) /\ Cardinality({}) = 0
    BY FS_EmptySet
  <2> DEFINE H == Holders(run)
  <2> HIDE DEF H
  <2>3. Cardinality({} \cup H) <= 1
    <3>1. \A m, n \in H : m = n
      BY <2>1 DEF H
    <3> QED BY <2>2, <3>1, OneMore
  <2>4. {} \cup H = H
    OBVIOUS
  <2> QED BY <2>3, <2>4 DEF H
<1> QED BY <1>1, Invariance, PTL

\* An address learned under its own session is gone when the session ends or
\* another takes its place: end_session removes it, and an accept that replaces
\* the session ends the old one first.
THEOREM RowsEnd == Spec => []RowsEndWithSession
<1>1. IInv => RowsEndWithSession
  BY DEF IInv, Sound, RowsEndWithSession
<1> QED BY <1>1, Invariance, PTL

\* The configuration and the records stay consistent, and no session authorizes
\* a VLAN that does not exist or is forbidden: reconcile_authentication ends the
\* sessions that a change of the VLANs leaves without theirs, and a session that
\* inherits the port VLAN moves with it.
THEOREM VlansUsable == Spec => []SessionVlanUsable
<1>1. ASSUME IInv PROVE SessionVlanUsable
  <2>1. \A m \in Mac : run.session[m] = None \/ run.session[m] \in Session
    BY <1>1 DEF IInv, Sound
  <2>2. \A m \in Mac : SessionId(run, m) \in Id \cup {0} /\ GrantId(run, m) \in Id \cup {0}
    BY <2>1 DEF SessionId, GrantId, Session
  <2>3. \A m \in Mac : run.attempt[m] # None =>
                /\ run.attempt[m].id \in Id
                /\ run.attempt[m].prior \in Id \cup {0} /\ run.attempt[m].grant \in Id \cup {0}
                /\ run.attempt[m].mab \in BOOLEAN /\ run.attempt[m].owned \in BOOLEAN
    BY <1>1, <2>2 DEF IInv, Sound
  <2>4. \A r \in run.rows : r.mac \in Mac /\ r.vid \in cfg.vlans
    BY <1>1 DEF IInv, Sound
  <2>5. flying \subseteq Mac \X Id /\ void \subseteq Mac \X Id /\ late \in BOOLEAN
    BY <1>1 DEF IInv, Flights, Voids
  <2>6. TypeOK
    BY <1>1, <2>1, <2>3, <2>4, <2>5 DEF TypeOK, IInv
  <2> QED BY <1>1, <2>6 DEF SessionVlanUsable, IInv, Usable
<1> QED BY <1>1, Invariance, PTL

=============================================================================
