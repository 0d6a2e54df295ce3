-------------------------- MODULE ManagementProofs --------------------------
(***************************************************************************)
(* Sessions, passwords and workers of management access, for any number of *)
(* browsers, sessions and workers: proofs about Management.                *)
(***************************************************************************)
EXTENDS Management, FiniteSetTheorems, TLAPS

-----------------------------------------------------------------------------
(***************************************************************************)
(* The inductive invariant                                                 *)
(***************************************************************************)

\* What a request captured before its await is still true of the present, or
\* the generation of the policy tells that it is not.
RequestSound(r) ==
    /\ r.kind \in {"setup", "login"} => r.password \in Password
    /\ r.kind = "login" /\ r.provider = "local-viewer" =>
          /\ r.generation <= policy.generation
          /\ r.generation = policy.generation => r.saved = policy.password
    /\ r.kind = "login" /\ r.provider = "local-admin" => r.saved = admin /\ admin # None
    /\ r.kind = "update" => r.generation < MaxGeneration

RequestsSound == \A c \in Client : RequestSound(request[c])

\* No browser has a cookie of a session that is still to be issued.
CookiesKnown == \A c \in Client : cookie[c] <= top

\* The store holds the policy in force while it is healthy, and an
\* administrator for good.
StoreAgrees ==
    /\ ~fault => stored.policy = policy
    /\ admin # None => stored.admin = admin

Working == {c \in Client : request[c].phase = "work"}
Pending == {d \in Client : request[d].kind \in {"setup", "login"}}

SessionsCounted == IsFiniteSet(sessions) /\ Cardinality(sessions) <= Limit
WorkersCounted == IsFiniteSet(Working) /\ permits + orphans + Cardinality(Working) = Slots
TokensLeft == IsFiniteSet(Pending) /\ top + Cardinality(Pending) <= MaxToken

IInv ==
    /\ TypeOK
    /\ RequestsSound
    /\ CookiesKnown
    /\ StoreAgrees
    /\ SessionsCounted
    /\ WorkersCounted
    /\ TokensLeft
    /\ SessionsProven

-----------------------------------------------------------------------------
(***************************************************************************)
(* Counting                                                                *)
(***************************************************************************)

\* The size of a set with one more element.
LEMMA CountAdd ==
    ASSUME NEW S, IsFiniteSet(S), NEW x
    PROVE  /\ IsFiniteSet(S \cup {x}) /\ Cardinality(S) \in Nat
           /\ Cardinality(S \cup {x}) = IF x \in S THEN Cardinality(S) ELSE Cardinality(S) + 1
BY FS_AddElement, FS_CardinalityType

\* The size of a set with one element less.
LEMMA CountRemove ==
    ASSUME NEW S, IsFiniteSet(S), NEW x
    PROVE  /\ IsFiniteSet(S \ {x}) /\ Cardinality(S) \in Nat /\ Cardinality(S \ {x}) \in Nat
           /\ Cardinality(S \ {x}) = IF x \in S THEN Cardinality(S) - 1 ELSE Cardinality(S)
BY FS_RemoveElement, FS_CardinalityType

\* The size of a part of a set.
LEMMA CountSubset ==
    ASSUME NEW S, IsFiniteSet(S), NEW T \in SUBSET S
    PROVE  /\ IsFiniteSet(T) /\ Cardinality(T) \in Nat /\ Cardinality(S) \in Nat
           /\ Cardinality(T) <= Cardinality(S)
           /\ Cardinality(S \ T) = Cardinality(S) - Cardinality(T)
           /\ T # {} => Cardinality(T) >= 1
<1>1. IsFiniteSet(T) /\ Cardinality(T) <= Cardinality(S)
  BY FS_Subset
<1>2. Cardinality(T) \in Nat /\ Cardinality(S) \in Nat
  BY <1>1, FS_CardinalityType
<1>3. Cardinality(S \ T) = Cardinality(S) - Cardinality(T)
  <2>1. S \cap T = T
    OBVIOUS
  <2>2. Cardinality(S \ T) = Cardinality(S) - Cardinality(S \cap T)
    BY FS_Difference
  <2> QED BY <2>1, <2>2
<1>4. T # {} => Cardinality(T) # 0
  BY <1>1, FS_EmptySet
<1>5. T # {} => Cardinality(T) >= 1
  BY <1>2, <1>4
<1> QED BY <1>1, <1>2, <1>3, <1>5

-----------------------------------------------------------------------------
(***************************************************************************)
(* Issuing a session                                                       *)
(***************************************************************************)

\* issue keeps the limit, by replacing, evicting or refusing, and adds at most
\* the session that was asked for.
LEMMA IssueSound ==
    ASSUME IInv, NEW c \in Client, NEW provider \in Provider, NEW generation \in 0..MaxGeneration,
           NEW proof \in Password, NEW token \in Token, top < MaxToken,
           Issue(c, provider, generation, proof, token)
    PROVE  /\ sessions' \subseteq Session /\ SessionsCounted'
           /\ top' \in {top, top + 1} /\ top' \in Token
           /\ cookie' \in [Client -> Token] /\ CookiesKnown'
           /\ \A s \in sessions' : s \in sessions \/
                 (s.provider = provider /\ s.generation = generation /\ s.proof = proof)
<1> DEFINE full == Full(provider, token)
           victim == IF full THEN Victim(provider) ELSE {}
           new == [token |-> top + 1, provider |-> provider, generation |-> generation, proof |-> proof]
           kept == Unexpired \ (victim \cup Previous(token))
<1>0. /\ top \in Token /\ top \in Nat /\ MaxToken \in Nat /\ Limit \in Nat \ {0}
      /\ sessions \subseteq Session /\ cookie \in [Client -> Token]
      /\ CookiesKnown /\ IsFiniteSet(sessions) /\ Cardinality(sessions) <= Limit
  BY ManagementAssumption DEF IInv, TypeOK, Token, SessionsCounted
<1>1. Unexpired \subseteq sessions
  BY DEF Unexpired
<1>2. /\ IsFiniteSet(Unexpired) /\ Cardinality(Unexpired) \in Nat /\ Cardinality(Unexpired) <= Limit
  <2>1. /\ IsFiniteSet(Unexpired) /\ Cardinality(Unexpired) \in Nat /\ Cardinality(sessions) \in Nat
        /\ Cardinality(Unexpired) <= Cardinality(sessions)
    BY <1>0, <1>1, CountSubset
  <2> QED BY <1>0, <2>1
<1>3. CASE full /\ victim = {}
  <2>1. sessions' = Unexpired /\ cookie' = cookie /\ top' = top
    BY <1>3 DEF Issue
  <2> QED BY <1>0, <1>1, <1>2, <2>1 DEF SessionsCounted, CookiesKnown
<1>4. CASE ~(full /\ victim = {})
  <2>1. /\ sessions' = kept \cup {new} /\ top' = top + 1
        /\ cookie' = [cookie EXCEPT ![c] = top + 1]
    BY <1>4 DEF Issue
  <2>2. new \in Session
    BY <1>0 DEF Session, Token
  <2>3. top + 1 \in Token /\ cookie' \in [Client -> Token]
    BY <1>0, <2>1 DEF Token
  <2>4. CookiesKnown'
    BY <1>0, <2>1 DEF CookiesKnown, Token
  <2>5. IsFiniteSet(kept) /\ Cardinality(kept) \in Nat /\ Cardinality(kept) < Limit
    <3>0. kept \subseteq Unexpired
      OBVIOUS
    <3>1. CASE full
      <4>1. victim \subseteq Unexpired /\ victim # {}
        BY <1>4, <3>1 DEF Victim, Viewers, Oldest
      <4> HIDE DEF victim
      <4>2. /\ Cardinality(Unexpired \ victim) = Cardinality(Unexpired) - Cardinality(victim)
            /\ Cardinality(victim) >= 1 /\ Cardinality(victim) \in Nat
        BY <1>2, <4>1, CountSubset
      <4>3. IsFiniteSet(Unexpired \ victim) /\ Unexpired \ victim \subseteq Unexpired
        BY <1>2, FS_Difference
      <4>4. kept \in SUBSET (Unexpired \ victim)
        OBVIOUS
      <4> HIDE DEF kept
      <4>5. /\ IsFiniteSet(kept) /\ Cardinality(kept) \in Nat
            /\ Cardinality(kept) <= Cardinality(Unexpired \ victim)
        BY <4>3, <4>4, CountSubset
      <4> QED BY <1>0, <1>2, <4>2, <4>5
    <3>2. CASE ~full
      <4> DEFINE gone == Replaceable(provider, token)
      <4>1. gone \subseteq Unexpired /\ gone \subseteq Previous(token)
        BY DEF Replaceable, Viewers, Previous
      <4>2. Cardinality(Unexpired) - Cardinality(gone) < Limit
        <5>1. ~(Cardinality(Unexpired) - Cardinality(gone) >= Limit)
          BY <3>2 DEF Full
        <5>2. Cardinality(gone) \in Nat
          BY <1>2, <4>1, CountSubset
        <5> HIDE DEF gone
        <5> QED BY <1>0, <1>2, <5>1, <5>2
      <4>3. kept \in SUBSET (Unexpired \ gone)
        BY <4>1
      <4> HIDE DEF gone, kept
      <4>4. Cardinality(Unexpired \ gone) = Cardinality(Unexpired) - Cardinality(gone)
        BY <1>2, <4>1, CountSubset
      <4>5. IsFiniteSet(Unexpired \ gone)
        BY <1>2, FS_Difference
      <4>6. /\ IsFiniteSet(kept) /\ Cardinality(kept) \in Nat
            /\ Cardinality(kept) <= Cardinality(Unexpired \ gone)
            /\ Cardinality(Unexpired \ gone) \in Nat
        BY <4>3, <4>5, CountSubset
      <4> QED BY <1>0, <4>2, <4>4, <4>6
    <3> QED BY <3>1, <3>2
  <2>6. kept \subseteq sessions
    BY <1>1
  <2> HIDE DEF kept
  <2>7. IsFiniteSet(sessions') /\ Cardinality(sessions') <= Limit
    <3> HIDE DEF new
    <3>1. /\ IsFiniteSet(kept \cup {new})
          /\ Cardinality(kept \cup {new}) = IF new \in kept THEN Cardinality(kept) ELSE Cardinality(kept) + 1
      BY <2>5, CountAdd
    <3> QED BY <1>0, <2>1, <2>5, <3>1
  <2>8. new.provider = provider /\ new.generation = generation /\ new.proof = proof
    OBVIOUS
  <2> HIDE DEF new
  <2> QED BY <1>0, <2>1, <2>2, <2>3, <2>4, <2>6, <2>7, <2>8 DEF SessionsCounted
<1> QED BY <1>3, <1>4

-----------------------------------------------------------------------------
(***************************************************************************)
(* Requests                                                                *)
(***************************************************************************)

\* A set after one of its possible members entered or left it.
LEMMA CountChange ==
    ASSUME NEW S, NEW T, IsFiniteSet(S), NEW x, T \ {x} = S \ {x}
    PROVE  /\ IsFiniteSet(T) /\ Cardinality(S) \in Nat /\ Cardinality(T) \in Nat
           /\ Cardinality(T) = Cardinality(S) - (IF x \in S THEN 1 ELSE 0) + (IF x \in T THEN 1 ELSE 0)
<1> DEFINE R == S \ {x}
<1>1. /\ IsFiniteSet(R) /\ Cardinality(S) \in Nat /\ Cardinality(R) \in Nat
      /\ Cardinality(R) = IF x \in S THEN Cardinality(S) - 1 ELSE Cardinality(S)
  BY CountRemove
<1>2. x \notin R /\ (x \in T => T = R \cup {x}) /\ (x \notin T => T = R)
  OBVIOUS
<1> HIDE DEF R
<1>3. /\ IsFiniteSet(R \cup {x})
      /\ Cardinality(R \cup {x}) = Cardinality(R) + 1
  BY <1>1, <1>2, CountAdd
<1>4. CASE x \in T
  <2>1. IsFiniteSet(T) /\ Cardinality(T) = Cardinality(R) + 1
    BY <1>2, <1>3, <1>4
  <2> QED BY <1>1, <1>4, <2>1
<1>5. CASE x \notin T
  <2>1. IsFiniteSet(T) /\ Cardinality(T) = Cardinality(R)
    BY <1>1, <1>2, <1>5
  <2> QED BY <1>1, <1>5, <2>1
<1> QED BY <1>4, <1>5

\* One request changes.
LEMMA RequestChange ==
    ASSUME IInv, NEW c \in Client, NEW r \in Request, request' = [request EXCEPT ![c] = r]
    PROVE  /\ request' \in [Client -> Request] /\ request'[c] = r
           /\ \A d \in Client \ {c} : request'[d] = request[d]
           /\ IsFiniteSet(Working') /\ Cardinality(Working) \in Nat /\ Cardinality(Working') \in Nat
           /\ Cardinality(Working') = Cardinality(Working)
                - (IF request[c].phase = "work" THEN 1 ELSE 0) + (IF r.phase = "work" THEN 1 ELSE 0)
           /\ IsFiniteSet(Pending') /\ Cardinality(Pending) \in Nat /\ Cardinality(Pending') \in Nat
           /\ Cardinality(Pending') = Cardinality(Pending)
                - (IF request[c].kind \in {"setup", "login"} THEN 1 ELSE 0)
                + (IF r.kind \in {"setup", "login"} THEN 1 ELSE 0)
<1>1. /\ request' \in [Client -> Request] /\ request'[c] = r
      /\ \A d \in Client \ {c} : request'[d] = request[d]
  BY DEF IInv, TypeOK
<1>2. /\ Working' \ {c} = Working \ {c} /\ IsFiniteSet(Working)
      /\ (c \in Working <=> request[c].phase = "work") /\ (c \in Working' <=> r.phase = "work")
  BY <1>1 DEF Working, IInv, WorkersCounted
<1>3. /\ Pending' \ {c} = Pending \ {c} /\ IsFiniteSet(Pending)
      /\ (c \in Pending <=> request[c].kind \in {"setup", "login"})
      /\ (c \in Pending' <=> r.kind \in {"setup", "login"})
  BY <1>1 DEF Pending, IInv, TokensLeft
<1>4. /\ IsFiniteSet(Working') /\ Cardinality(Working) \in Nat /\ Cardinality(Working') \in Nat
      /\ Cardinality(Working') = Cardinality(Working)
           - (IF c \in Working THEN 1 ELSE 0) + (IF c \in Working' THEN 1 ELSE 0)
  <2>1. IsFiniteSet(Working) /\ Working' \ {c} = Working \ {c}
    BY <1>2
  <2> QED BY <2>1, CountChange
<1>5. /\ IsFiniteSet(Pending') /\ Cardinality(Pending) \in Nat /\ Cardinality(Pending') \in Nat
      /\ Cardinality(Pending') = Cardinality(Pending)
           - (IF c \in Pending THEN 1 ELSE 0) + (IF c \in Pending' THEN 1 ELSE 0)
  <2>1. IsFiniteSet(Pending) /\ Pending' \ {c} = Pending \ {c}
    BY <1>3
  <2> QED BY <2>1, CountChange
<1> QED BY <1>1, <1>2, <1>3, <1>4, <1>5

\* The request of a browser that waits for nothing.
LEMMA IdleRequest ==
    Idle \in Request /\ Idle.phase = "idle" /\ Idle.kind = "none"
BY ManagementAssumption DEF Idle, Request, Provider, Token

\* Captured facts survive what happens to the policy and the administrator.
LEMMA SoundKept ==
    ASSUME IInv, NEW r \in Request, RequestSound(r), policy' \in ViewerPolicy,
           policy' = policy \/ policy'.generation > policy.generation,
           admin' = admin \/ admin = None
    PROVE  RequestSound(r)'
<1>1. r.generation \in Nat /\ policy.generation \in Nat /\ policy'.generation \in Nat
  BY DEF Request, IInv, TypeOK, ViewerPolicy
<1> QED BY <1>1 DEF RequestSound

\* A request that is over, or replaced by a sound one; the rest as said.
LEMMA RequestsKept ==
    ASSUME IInv, NEW c \in Client, NEW r \in Request, request' = [request EXCEPT ![c] = r],
           policy' \in ViewerPolicy,
           policy' = policy \/ policy'.generation > policy.generation,
           admin' = admin \/ admin = None, RequestSound(r)'
    PROVE  RequestsSound'
<1>1. request' \in [Client -> Request] /\ request'[c] = r
      /\ \A d \in Client \ {c} : request'[d] = request[d]
  BY RequestChange
<1>2. ASSUME NEW d \in Client PROVE RequestSound(request[d])'
  <2>1. CASE d = c
    BY <1>1, <2>1 DEF RequestSound
  <2>2. CASE d # c
    <3>1. request[d] \in Request /\ RequestSound(request[d])
      BY DEF IInv, TypeOK, RequestsSound
    <3>2. PICK q \in Request : q = request[d]
      BY <3>1
    <3>3. RequestSound(q)'
      BY <3>1, <3>2, SoundKept
    <3> QED BY <1>1, <2>2, <3>2, <3>3 DEF RequestSound
  <2> QED BY <2>1, <2>2
<1> QED BY <1>2 DEF RequestsSound

\* It has captured nothing.
LEMMA IdleSound == RequestSound(Idle)'
BY IdleRequest DEF RequestSound

-----------------------------------------------------------------------------
(***************************************************************************)
(* The steps                                                               *)
(***************************************************************************)

\* A request arrives with what it captured.
LEMMA ArriveInv ==
    ASSUME IInv, NEW c \in Client, NEW r \in Request, Arrive(c, r), r.phase # "work",
           RequestSound(r), r.kind \in {"setup", "login"} => Room
    PROVE  IInv'
<1>0. /\ request[c] = Idle /\ request' = [request EXCEPT ![c] = r]
      /\ UNCHANGED <<sessions, horizon, top, cookie, permits, orphans, policy, admin, stored, fault>>
      /\ policy \in ViewerPolicy /\ top \in Nat /\ MaxToken \in Nat
  BY ManagementAssumption DEF Arrive, table, workers, confirmed, IInv, TypeOK, Token
<1>1. /\ request' \in [Client -> Request]
      /\ IsFiniteSet(Working') /\ Cardinality(Working') = Cardinality(Working)
      /\ IsFiniteSet(Pending') /\ Cardinality(Pending) \in Nat /\ Cardinality(Pending') \in Nat
      /\ Cardinality(Pending') = Cardinality(Pending) + (IF r.kind \in {"setup", "login"} THEN 1 ELSE 0)
  <2>1. /\ request' \in [Client -> Request]
        /\ IsFiniteSet(Working') /\ Cardinality(Working) \in Nat /\ Cardinality(Working') \in Nat
        /\ Cardinality(Working') = Cardinality(Working)
             - (IF request[c].phase = "work" THEN 1 ELSE 0) + (IF r.phase = "work" THEN 1 ELSE 0)
        /\ IsFiniteSet(Pending') /\ Cardinality(Pending) \in Nat /\ Cardinality(Pending') \in Nat
        /\ Cardinality(Pending') = Cardinality(Pending)
             - (IF request[c].kind \in {"setup", "login"} THEN 1 ELSE 0)
             + (IF r.kind \in {"setup", "login"} THEN 1 ELSE 0)
    BY <1>0, RequestChange
  <2>2. request[c].phase # "work" /\ request[c].kind \notin {"setup", "login"}
    BY <1>0, IdleRequest
  <2> QED BY <2>1, <2>2
<1>2. TypeOK'
  BY <1>0, <1>1 DEF IInv, TypeOK
<1>3. RequestsSound'
  <2>1. RequestSound(r)'
    BY <1>0, SoundKept
  <2> QED BY <1>0, <2>1, RequestsKept
<1>4. WorkersCounted'
  BY <1>0, <1>1 DEF IInv, WorkersCounted
<1>5. TokensLeft'
  <2>1. r.kind \in {"setup", "login"} => top + Cardinality(Pending) < MaxToken
    BY DEF Room, Pending
  <2>2. top + Cardinality(Pending) <= MaxToken
    BY DEF IInv, TokensLeft
  <2>3. top + Cardinality(Pending') <= MaxToken
    BY <1>0, <1>1, <2>1, <2>2
  <2> QED BY <1>0, <1>1, <2>3 DEF TokensLeft
<1>6. CookiesKnown' /\ StoreAgrees' /\ SessionsCounted' /\ SessionsProven'
  BY <1>0 DEF IInv, CookiesKnown, StoreAgrees, SessionsCounted, SessionsProven, ViewersCurrent,
              AdminsProven, Viewers
<1> QED BY <1>2, <1>3, <1>4, <1>5, <1>6 DEF IInv

\* A setup arrives.
LEMMA SetupInv == ASSUME IInv, NEW c \in Client, NEW password \in Password, Setup(c, password) PROVE IInv'
<1> DEFINE r == [Idle EXCEPT !.kind = "setup", !.phase = "slot", !.token = cookie[c],
                             !.password = password]
<1>1. Arrive(c, r) /\ Room /\ cookie[c] \in Token
  BY DEF Setup, IInv, TypeOK
<1>2. r \in Request /\ r.phase = "slot" /\ r.kind = "setup" /\ r.password = password
  BY <1>1, IdleRequest DEF Idle, Request
<1> HIDE DEF r
<1>3. RequestSound(r)
  BY <1>2 DEF RequestSound
<1> QED BY <1>1, <1>2, <1>3, ArriveInv

\* A sign-in arrives and captures the policy.
LEMMA LoginInv ==
    ASSUME IInv, NEW c \in Client, NEW provider \in Provider, NEW password \in Password,
           Login(c, provider, password)
    PROVE  IInv'
<1> DEFINE viewer == provider = "local-viewer"
           r == [Idle EXCEPT !.kind = "login", !.phase = "slot", !.provider = provider,
                             !.token = cookie[c], !.password = password,
                             !.saved = IF viewer THEN policy.password ELSE admin,
                             !.generation = IF viewer THEN policy.generation ELSE 0]
<1>1. /\ Arrive(c, r) /\ Room /\ cookie[c] \in Token
      /\ ~viewer => admin # None
  BY DEF Login, IInv, TypeOK
<1>2. /\ (IF viewer THEN policy.password ELSE admin) \in Password \cup {None}
      /\ (IF viewer THEN policy.generation ELSE 0) \in 0..MaxGeneration
  BY ManagementAssumption DEF IInv, TypeOK, ViewerPolicy
<1>3. /\ r \in Request /\ r.phase = "slot" /\ r.kind = "login" /\ r.password = password
      /\ r.provider = provider /\ r.saved = (IF viewer THEN policy.password ELSE admin)
      /\ r.generation = (IF viewer THEN policy.generation ELSE 0)
  BY <1>1, <1>2, IdleRequest DEF Idle, Request
<1> HIDE DEF r
<1>4. RequestSound(r)
  BY <1>1, <1>3 DEF RequestSound, IInv, TypeOK, ViewerPolicy, Provider
<1> QED BY <1>1, <1>3, <1>4, ArriveInv

\* A change of the viewer policy arrives.
LEMMA UpdateInv ==
    ASSUME IInv, NEW c \in Client, NEW password \in Password \cup {None}, NEW enabled \in BOOLEAN,
           Update(c, password, enabled)
    PROVE  IInv'
<1> DEFINE phase == IF password = None THEN "lock" ELSE "slot"
           r == [Idle EXCEPT !.kind = "update", !.token = cookie[c], !.password = password,
                             !.phase = phase,
                             !.generation = policy.generation, !.enabled = enabled]
<1>1. /\ Arrive(c, r) /\ cookie[c] \in Token /\ policy.generation < MaxGeneration
      /\ policy.generation \in 0..MaxGeneration /\ phase \in {"lock", "slot"}
  BY DEF Update, IInv, TypeOK, ViewerPolicy
<1> HIDE DEF phase
<1>2. /\ r \in Request /\ r.phase # "work" /\ r.kind = "update"
      /\ r.generation = policy.generation
  BY <1>1, IdleRequest DEF Idle, Request
<1> HIDE DEF r
<1>3. RequestSound(r)
  BY <1>1, <1>2 DEF RequestSound
<1> QED BY <1>1, <1>2, <1>3, ArriveInv

\* Fewer sessions, while policy, administrator and store stay as they are.
LEMMA FewerSessions ==
    ASSUME IInv, sessions' \subseteq sessions, UNCHANGED <<policy, admin, stored, fault>>
    PROVE  sessions' \subseteq Session /\ SessionsCounted' /\ SessionsProven' /\ StoreAgrees'
<1>1. IsFiniteSet(sessions) /\ Cardinality(sessions) <= Limit /\ Limit \in Nat
  BY ManagementAssumption DEF IInv, SessionsCounted
<1>2. /\ IsFiniteSet(sessions') /\ Cardinality(sessions') \in Nat /\ Cardinality(sessions) \in Nat
      /\ Cardinality(sessions') <= Cardinality(sessions)
  <2>1. PICK T \in SUBSET sessions : T = sessions'
    OBVIOUS
  <2> QED BY <1>1, <2>1, CountSubset
<1>3. SessionsCounted'
  BY <1>1, <1>2 DEF SessionsCounted
<1>4. SessionsProven' /\ StoreAgrees'
  BY DEF IInv, SessionsProven, ViewersCurrent, AdminsProven, Viewers, StoreAgrees
<1> QED BY <1>3, <1>4 DEF IInv, TypeOK

\* A step of the sessions alone.
LEMMA TableInv ==
    ASSUME IInv, sessions' \subseteq sessions, top' = top, horizon' \in 0..top,
           cookie' \in [Client -> Token], CookiesKnown',
           UNCHANGED <<request, workers, confirmed, stored, fault>>
    PROVE  IInv'
<1>1. UNCHANGED <<request, permits, orphans, policy, admin, stored, fault, top>>
  BY DEF workers, confirmed
<1>2. sessions' \subseteq Session /\ SessionsCounted' /\ SessionsProven' /\ StoreAgrees'
  BY <1>1, FewerSessions
<1>3. TypeOK' /\ RequestsSound'
  BY <1>1, <1>2 DEF IInv, TypeOK, RequestsSound, RequestSound
<1>4. WorkersCounted' /\ TokensLeft'
  BY <1>1 DEF IInv, WorkersCounted, TokensLeft, Working, Pending
<1> QED BY <1>2, <1>3, <1>4 DEF IInv

\* A request that changes and the permit and orphans of its worker; everything
\* else stays.
LEMMA WorkInv ==
    ASSUME IInv, NEW c \in Client, NEW r \in Request, request' = [request EXCEPT ![c] = r],
           RequestSound(r), r.kind \in {"setup", "login"} => request[c].kind \in {"setup", "login"},
           permits' \in Int, orphans' \in Int, permits' >= 0, orphans' >= 0,
           permits' + orphans' = permits + orphans
                + (IF request[c].phase = "work" THEN 1 ELSE 0) - (IF r.phase = "work" THEN 1 ELSE 0),
           UNCHANGED <<table, confirmed, stored, fault>>
    PROVE  IInv'
<1>0. /\ UNCHANGED <<sessions, horizon, top, cookie, policy, admin, stored, fault>>
      /\ top \in Nat /\ MaxToken \in Nat /\ Slots \in Nat
      /\ permits \in Nat /\ orphans \in Nat /\ policy \in ViewerPolicy
  BY ManagementAssumption DEF table, confirmed, IInv, TypeOK, Token
<1>1. /\ request' \in [Client -> Request]
      /\ IsFiniteSet(Working') /\ Cardinality(Working) \in Nat /\ Cardinality(Working') \in Nat
      /\ Cardinality(Working') = Cardinality(Working)
           - (IF request[c].phase = "work" THEN 1 ELSE 0) + (IF r.phase = "work" THEN 1 ELSE 0)
      /\ IsFiniteSet(Pending') /\ Cardinality(Pending) \in Nat /\ Cardinality(Pending') \in Nat
      /\ Cardinality(Pending') = Cardinality(Pending)
           - (IF request[c].kind \in {"setup", "login"} THEN 1 ELSE 0)
           + (IF r.kind \in {"setup", "login"} THEN 1 ELSE 0)
  BY RequestChange
<1>2. permits + orphans + Cardinality(Working) = Slots /\ top + Cardinality(Pending) <= MaxToken
  BY DEF IInv, WorkersCounted, TokensLeft
<1>3. permits' + orphans' + Cardinality(Working') = Slots
  <2> DEFINE x == IF request[c].phase = "work" THEN 1 ELSE 0
             y == IF r.phase = "work" THEN 1 ELSE 0
  <2>1. /\ Cardinality(Working') = Cardinality(Working) - x + y
        /\ permits' + orphans' = permits + orphans + x - y
    BY <1>1
  <2>2. x \in Int /\ y \in Int
    OBVIOUS
  <2> HIDE DEF x, y
  <2>3. (permits + orphans + x - y) + (Cardinality(Working) - x + y) = permits + orphans + Cardinality(Working)
    BY <1>0, <1>1, <2>2
  <2> QED BY <1>2, <2>1, <2>3
<1>4. permits' \in 0..Slots /\ orphans' \in 0..Slots
  BY <1>0, <1>1, <1>3
<1>5. top + Cardinality(Pending') <= MaxToken
  BY <1>0, <1>1, <1>2
<1>6. TypeOK' /\ WorkersCounted' /\ TokensLeft'
  BY <1>0, <1>1, <1>3, <1>4, <1>5 DEF IInv, TypeOK, WorkersCounted, TokensLeft
<1>7. RequestsSound'
  <2>1. RequestSound(r)'
    BY <1>0, SoundKept
  <2> QED BY <1>0, <2>1, RequestsKept
<1>8. CookiesKnown' /\ StoreAgrees' /\ SessionsCounted' /\ SessionsProven'
  BY <1>0 DEF IInv, CookiesKnown, StoreAgrees, SessionsCounted, SessionsProven, ViewersCurrent,
              AdminsProven, Viewers
<1> QED BY <1>6, <1>7, <1>8 DEF IInv

\* A request gets a permit and goes to work.
LEMMA PermitInv == ASSUME IInv, NEW c \in Client, Permit(c) PROVE IInv'
<1> DEFINE r == [request[c] EXCEPT !.phase = "work"]
<1>1. request[c] \in Request /\ RequestSound(request[c]) /\ permits \in Nat /\ orphans \in Nat
  BY DEF IInv, TypeOK, RequestsSound
<1>2. /\ r \in Request /\ r.phase = "work" /\ r.kind = request[c].kind
      /\ r.provider = request[c].provider /\ r.password = request[c].password
      /\ r.saved = request[c].saved /\ r.generation = request[c].generation
  BY <1>1 DEF Request
<1>3. request' = [request EXCEPT ![c] = r]
  BY DEF Permit
<1> HIDE DEF r
<1>4. RequestSound(r)
  BY <1>1, <1>2 DEF RequestSound
<1>5. /\ permits' \in Int /\ orphans' \in Int /\ permits' >= 0 /\ orphans' >= 0
      /\ permits' + orphans' = permits + orphans
            + (IF request[c].phase = "work" THEN 1 ELSE 0) - (IF r.phase = "work" THEN 1 ELSE 0)
  BY <1>1, <1>2 DEF Permit
<1> QED BY <1>2, <1>3, <1>4, <1>5, WorkInv DEF Permit

\* The hash of a new viewer password is ready.
LEMMA HashedInv == ASSUME IInv, NEW c \in Client, Hashed(c) PROVE IInv'
<1> DEFINE r == [request[c] EXCEPT !.phase = "lock"]
<1>1. request[c] \in Request /\ RequestSound(request[c]) /\ permits \in Nat /\ orphans \in Nat
  BY DEF IInv, TypeOK, RequestsSound
<1>2. /\ r \in Request /\ r.phase = "lock" /\ r.kind = request[c].kind
      /\ r.provider = request[c].provider /\ r.password = request[c].password
      /\ r.saved = request[c].saved /\ r.generation = request[c].generation
  BY <1>1 DEF Request
<1>3. request' = [request EXCEPT ![c] = r]
  BY DEF Hashed
<1> HIDE DEF r
<1>4. RequestSound(r)
  BY <1>1, <1>2 DEF RequestSound
<1>5. /\ permits' \in Int /\ orphans' \in Int /\ permits' >= 0 /\ orphans' >= 0
      /\ permits' + orphans' = permits + orphans
            + (IF request[c].phase = "work" THEN 1 ELSE 0) - (IF r.phase = "work" THEN 1 ELSE 0)
  BY <1>1, <1>2 DEF Hashed, WorkerEnds
<1> QED BY <1>2, <1>3, <1>4, <1>5, WorkInv DEF Hashed

\* A request is cancelled wherever it is, and may leave its thread behind.
LEMMA CancelInv == ASSUME IInv, NEW c \in Client, Cancel(c) PROVE IInv'
<1>1. permits \in Nat /\ orphans \in Nat /\ RequestSound(Idle)
  BY IdleRequest DEF IInv, TypeOK, RequestSound
<1>2. /\ permits' \in Int /\ orphans' \in Int /\ permits' >= 0 /\ orphans' >= 0
      /\ permits' + orphans' = permits + orphans
            + (IF request[c].phase = "work" THEN 1 ELSE 0) - (IF Idle.phase = "work" THEN 1 ELSE 0)
  BY <1>1, IdleRequest DEF Cancel, Held
<1> QED BY <1>1, <1>2, IdleRequest, WorkInv DEF Cancel

\* The thread of a cancelled request ends and gives its permit back.
LEMMA OrphanInv == ASSUME IInv, OrphanEnds PROVE IInv'
<1>0. /\ UNCHANGED <<sessions, horizon, top, cookie, request, policy, admin, stored, fault>>
      /\ permits \in Nat /\ orphans \in Nat /\ Slots \in Nat
      /\ orphans > 0 /\ orphans' = orphans - 1 /\ permits' = permits + 1
  BY ManagementAssumption DEF OrphanEnds, table, confirmed, IInv, TypeOK
<1>1. Cardinality(Working) \in Nat /\ permits + orphans + Cardinality(Working) = Slots /\ Working' = Working
  BY <1>0, FS_CardinalityType DEF IInv, WorkersCounted, Working
<1>2. permits' \in 0..Slots /\ orphans' \in 0..Slots
      /\ permits' + orphans' + Cardinality(Working) = Slots
  BY <1>0, <1>1
<1>3. WorkersCounted'
  BY <1>1, <1>2 DEF IInv, WorkersCounted
<1>4. TypeOK' /\ RequestsSound' /\ TokensLeft'
  BY <1>0, <1>2 DEF IInv, TypeOK, RequestsSound, RequestSound, TokensLeft, Pending
<1>5. CookiesKnown' /\ StoreAgrees' /\ SessionsCounted' /\ SessionsProven'
  BY <1>0 DEF IInv, CookiesKnown, StoreAgrees, SessionsCounted, SessionsProven, ViewersCurrent,
              AdminsProven, Viewers
<1> QED BY <1>3, <1>4, <1>5 DEF IInv

\* A request whose worker has ended is over.
LEMMA EndSound ==
    ASSUME IInv, NEW c \in Client, WorkerEnds(c), Finish(c), request[c].kind \in {"setup", "login"}
    PROVE  /\ request' \in [Client -> Request] /\ permits' \in 0..Slots /\ orphans' \in 0..Slots
           /\ WorkersCounted'
           /\ IsFiniteSet(Pending') /\ Cardinality(Pending') \in Nat
           /\ top < MaxToken /\ top + 1 + Cardinality(Pending') <= MaxToken
<1>0. /\ request[c].phase = "work" /\ request' = [request EXCEPT ![c] = Idle]
      /\ permits' = permits + 1 /\ orphans' = orphans
      /\ permits \in Nat /\ orphans \in Nat /\ Slots \in Nat /\ top \in Nat /\ MaxToken \in Nat
  BY ManagementAssumption DEF WorkerEnds, Finish, IInv, TypeOK, Token
<1>1. /\ request' \in [Client -> Request]
      /\ IsFiniteSet(Working') /\ Cardinality(Working) \in Nat /\ Cardinality(Working') \in Nat
      /\ Cardinality(Working') = Cardinality(Working)
           - (IF request[c].phase = "work" THEN 1 ELSE 0) + (IF Idle.phase = "work" THEN 1 ELSE 0)
      /\ IsFiniteSet(Pending') /\ Cardinality(Pending) \in Nat /\ Cardinality(Pending') \in Nat
      /\ Cardinality(Pending') = Cardinality(Pending)
           - (IF request[c].kind \in {"setup", "login"} THEN 1 ELSE 0)
           + (IF Idle.kind \in {"setup", "login"} THEN 1 ELSE 0)
  BY <1>0, IdleRequest, RequestChange
<1>2. permits + orphans + Cardinality(Working) = Slots /\ top + Cardinality(Pending) <= MaxToken
  BY DEF IInv, WorkersCounted, TokensLeft
<1>3. Cardinality(Working') = Cardinality(Working) - 1 /\ Cardinality(Pending') = Cardinality(Pending) - 1
  BY <1>0, <1>1, IdleRequest
<1>4. permits' + orphans' + Cardinality(Working') = Slots
  BY <1>0, <1>1, <1>2, <1>3
<1>5. permits' \in 0..Slots /\ orphans' \in 0..Slots
  BY <1>0, <1>1, <1>4
<1>6. top < MaxToken /\ top + 1 + Cardinality(Pending') <= MaxToken
  BY <1>0, <1>1, <1>2, <1>3
<1> QED BY <1>1, <1>4, <1>5, <1>6 DEF WorkersCounted

\* A session that is issued to the proof of the password in force.
LEMMA LoginEndsInv == ASSUME IInv, NEW c \in Client, LoginEnds(c) PROVE IInv'
<1> DEFINE r == request[c]
<1>0. /\ r.kind = "login" /\ WorkerEnds(c) /\ Finish(c) /\ r \in Request /\ RequestSound(r)
      /\ UNCHANGED <<horizon, policy, admin, stored, fault>>
      /\ policy \in ViewerPolicy /\ top \in Nat /\ MaxToken \in Nat
  BY ManagementAssumption DEF LoginEnds, confirmed, IInv, TypeOK, RequestsSound, Token
<1>1. /\ request' \in [Client -> Request] /\ permits' \in 0..Slots /\ orphans' \in 0..Slots
      /\ WorkersCounted'
      /\ IsFiniteSet(Pending') /\ Cardinality(Pending') \in Nat
      /\ top < MaxToken /\ top + 1 + Cardinality(Pending') <= MaxToken
  BY <1>0, EndSound
<1>2. RequestsSound'
  BY <1>0, IdleRequest, IdleSound, RequestsKept DEF Finish
<1>3. /\ sessions' \subseteq Session /\ SessionsCounted'
      /\ top' \in {top, top + 1} /\ top' \in Token
      /\ cookie' \in [Client -> Token] /\ CookiesKnown' /\ SessionsProven'
  <2>1. CASE r.password = r.saved /\ StillCurrent(r)
    <3>1. Issue(c, r.provider, r.generation, r.password, r.token)
      BY <2>1 DEF LoginEnds
    <3>2. /\ r.provider \in Provider /\ r.generation \in 0..MaxGeneration
          /\ r.password \in Password /\ r.token \in Token
      BY <1>0 DEF Request, RequestSound
    <3>3. /\ sessions' \subseteq Session /\ SessionsCounted'
          /\ top' \in {top, top + 1} /\ top' \in Token
          /\ cookie' \in [Client -> Token] /\ CookiesKnown'
          /\ \A s \in sessions' : s \in sessions \/
                (s.provider = r.provider /\ s.generation = r.generation /\ s.proof = r.password)
      BY <1>1, <3>1, <3>2, IssueSound
    <3>4. /\ r.provider = "local-viewer" =>
                ~fault /\ policy.enabled /\ policy.generation = r.generation
                /\ policy.password = r.password
          /\ r.provider = "local-admin" => r.password = admin /\ admin # None
      BY <1>0, <2>1 DEF StillCurrent, RequestSound
    <3>5. stored.admin = admin \/ admin = None
      BY DEF IInv, StoreAgrees
    <3> HIDE DEF r
    <3>6. ViewersCurrent'
      BY <1>0, <3>3, <3>4 DEF IInv, SessionsProven, ViewersCurrent, Viewers
    <3>7. AdminsProven'
      BY <1>0, <3>3, <3>4, <3>5 DEF IInv, SessionsProven, AdminsProven
    <3> QED BY <3>3, <3>6, <3>7 DEF SessionsProven
  <2>2. CASE ~(r.password = r.saved /\ StillCurrent(r))
    <3>1. UNCHANGED <<sessions, top, cookie>>
      BY <2>2 DEF LoginEnds
    <3>2. sessions' \subseteq Session /\ SessionsCounted' /\ SessionsProven'
      BY <1>0, <3>1, FewerSessions
    <3> QED BY <3>1, <3>2 DEF IInv, TypeOK, CookiesKnown
  <2> QED BY <2>1, <2>2
<1>4. TypeOK' /\ TokensLeft'
  <2>1. horizon \in 0..top'
    BY <1>0, <1>3 DEF IInv, TypeOK
  <2>2. top' + Cardinality(Pending') <= MaxToken
    BY <1>0, <1>1, <1>3
  <2> QED BY <1>0, <1>1, <1>3, <2>1, <2>2 DEF IInv, TypeOK, TokensLeft
<1>5. StoreAgrees'
  BY <1>0 DEF IInv, StoreAgrees
<1> QED BY <1>1, <1>2, <1>3, <1>4, <1>5 DEF IInv

\* An uncertain write of the store: what is confirmed stays.
LEMMA UncertainSound ==
    ASSUME IInv, NEW next, Uncertain(next),
           next \in [policy : ViewerPolicy, admin : Password \cup {None}],
           admin # None => next.admin = admin
    PROVE  /\ UNCHANGED <<sessions, horizon, top, cookie, policy, admin>>
           /\ fault' = TRUE /\ stored' \in [policy : ViewerPolicy, admin : Password \cup {None}]
           /\ StoreAgrees' /\ SessionsProven' /\ SessionsCounted' /\ CookiesKnown'
<1>0. /\ UNCHANGED <<sessions, horizon, top, cookie, policy, admin>> /\ fault' = TRUE
      /\ stored' \in {stored, next}
  BY DEF Uncertain, table, confirmed
<1>1. ASSUME NEW s \in sessions, s.provider = "local-admin"
      PROVE  s.proof = admin /\ admin # None
  <2>1. s.proof \in Password /\ s.proof = admin
    BY <1>1 DEF IInv, TypeOK, Session, SessionsProven, AdminsProven
  <2> QED BY <2>1, ManagementAssumption
<1>2. StoreAgrees'
  BY <1>0 DEF IInv, StoreAgrees
<1>3. SessionsProven'
  BY <1>0, <1>1, <1>2 DEF SessionsProven, ViewersCurrent, AdminsProven, StoreAgrees
<1> QED BY <1>0, <1>2, <1>3 DEF IInv, TypeOK, SessionsCounted, CookiesKnown

\* Of several setups the first one that is stored makes the administrator.
LEMMA SetupEndsInv == ASSUME IInv, NEW c \in Client, SetupEnds(c) PROVE IInv'
<1> DEFINE r == request[c]
           next == [stored EXCEPT !.admin = create_administrator(r)]
<1>0. /\ r.kind = "setup" /\ WorkerEnds(c) /\ Finish(c) /\ r \in Request /\ RequestSound(r)
      /\ policy \in ViewerPolicy /\ top \in Nat /\ MaxToken \in Nat /\ admin \in Password \cup {None}
  BY ManagementAssumption DEF SetupEnds, IInv, TypeOK, RequestsSound, Token
<1>1. /\ request' \in [Client -> Request] /\ permits' \in 0..Slots /\ orphans' \in 0..Slots
      /\ WorkersCounted'
      /\ IsFiniteSet(Pending') /\ Cardinality(Pending') \in Nat
      /\ top < MaxToken /\ top + 1 + Cardinality(Pending') <= MaxToken
  BY <1>0, EndSound
<1>2. r.password \in Password /\ r.token \in Token /\ None \notin Password
  BY <1>0, ManagementAssumption DEF RequestSound, Request
<1>3. /\ create_administrator(r) \in Password
      /\ admin # None => create_administrator(r) = admin
      /\ admin = None => create_administrator(r) = r.password
  BY <1>0, <1>2 DEF create_administrator
<1>4. /\ next \in [policy : ViewerPolicy, admin : Password \cup {None}]
      /\ next.admin = create_administrator(r) /\ next.policy = stored.policy
  BY <1>3 DEF IInv, TypeOK
<1> HIDE DEF next
<1>5. top' \in {top, top + 1} => TokensLeft' /\ horizon \in 0..top' /\ top' \in Token
  <2> SUFFICES ASSUME top' \in {top, top + 1}
               PROVE  TokensLeft' /\ horizon \in 0..top' /\ top' \in Token
    OBVIOUS
  <2>1. top' + Cardinality(Pending') <= MaxToken /\ top' \in Token
    BY <1>0, <1>1 DEF Token
  <2>2. horizon \in 0..top'
    BY <1>0 DEF IInv, TypeOK
  <2> QED BY <1>1, <2>1, <2>2 DEF TokensLeft
<1>6. CASE ~fault /\ Uncertain(next)
  <2>1. /\ UNCHANGED <<sessions, horizon, top, cookie, policy, admin>>
        /\ fault' = TRUE /\ stored' \in [policy : ViewerPolicy, admin : Password \cup {None}]
        /\ StoreAgrees' /\ SessionsProven' /\ SessionsCounted' /\ CookiesKnown'
    BY <1>3, <1>4, <1>6, UncertainSound
  <2>2. RequestsSound'
    BY <1>0, <2>1, IdleRequest, IdleSound, RequestsKept DEF Finish
  <2>3. TypeOK'
    BY <1>1, <2>1 DEF IInv, TypeOK
  <2> QED BY <1>1, <1>5, <2>1, <2>2, <2>3 DEF IInv
<1>7. CASE UNCHANGED <<table, confirmed, stored, fault>>
  <2>1. UNCHANGED <<sessions, horizon, top, cookie, policy, admin, stored, fault>>
    BY <1>7 DEF table, confirmed
  <2>2. RequestsSound'
    BY <1>0, <2>1, IdleRequest, IdleSound, RequestsKept DEF Finish
  <2>3. sessions' \subseteq Session /\ SessionsCounted' /\ SessionsProven' /\ StoreAgrees'
    BY <2>1, FewerSessions
  <2>4. TypeOK' /\ CookiesKnown'
    BY <1>1, <2>1 DEF IInv, TypeOK, CookiesKnown
  <2> QED BY <1>1, <1>5, <2>1, <2>2, <2>3, <2>4 DEF IInv
<1>8. CASE /\ ~fault
           /\ admin' = create_administrator(r) /\ stored' = next
           /\ IF admin' # admin
              THEN Issue(c, "local-admin", 0, r.password, r.token)
              ELSE UNCHANGED <<sessions, top, cookie>>
           /\ UNCHANGED <<horizon, policy, fault>>
  <2>1. stored.policy = policy /\ (admin # None => stored.admin = admin)
    BY <1>8 DEF IInv, StoreAgrees
  <2>2. StoreAgrees'
    BY <1>4, <1>8, <2>1 DEF StoreAgrees
  <2>3. RequestsSound'
    <3>1. admin' = admin \/ admin = None
      BY <1>3, <1>8
    <3> QED BY <1>0, <1>8, <3>1, IdleRequest, IdleSound, RequestsKept DEF Finish
  <2>4. /\ sessions' \subseteq Session /\ SessionsCounted'
        /\ top' \in {top, top + 1}
        /\ cookie' \in [Client -> Token] /\ CookiesKnown' /\ SessionsProven'
    <3>1. CASE admin = None
      <4>1. admin' = r.password /\ Issue(c, "local-admin", 0, r.password, r.token)
        BY <1>2, <1>3, <1>8, <3>1
      <4>2. "local-admin" \in Provider /\ 0 \in 0..MaxGeneration
        BY ManagementAssumption DEF Provider
      <4>3. /\ sessions' \subseteq Session /\ SessionsCounted'
            /\ top' \in {top, top + 1}
            /\ cookie' \in [Client -> Token] /\ CookiesKnown'
            /\ \A s \in sessions' : s \in sessions \/
                  (s.provider = "local-admin" /\ s.generation = 0 /\ s.proof = r.password)
        BY <1>1, <1>2, <4>1, <4>2, IssueSound
      <4>4. \A s \in sessions : s.provider # "local-admin"
        <5>1. \A s \in sessions : s.provider = "local-admin" => s.proof = admin /\ s.proof \in Password
          BY DEF IInv, TypeOK, Session, SessionsProven, AdminsProven
        <5> QED BY <1>2, <3>1, <5>1
      <4>5. stored'.admin = admin'
        BY <1>4, <1>8
      <4> HIDE DEF r
      <4>6. AdminsProven'
        BY <4>1, <4>3, <4>4, <4>5 DEF AdminsProven
      <4>7. ViewersCurrent'
        BY <1>8, <4>3 DEF IInv, SessionsProven, ViewersCurrent, Viewers
      <4> QED BY <4>3, <4>6, <4>7 DEF SessionsProven
    <3>2. CASE admin # None
      <4>1. admin' = admin /\ UNCHANGED <<sessions, top, cookie>> /\ stored'.admin = stored.admin
        BY <1>3, <1>4, <1>8, <2>1, <3>2
      <4>2. SessionsProven'
        BY <1>8, <4>1 DEF IInv, SessionsProven, ViewersCurrent, Viewers, AdminsProven
      <4> QED BY <4>1, <4>2 DEF IInv, TypeOK, SessionsCounted, CookiesKnown
    <3> QED BY <3>1, <3>2
  <2>5. TypeOK' /\ TokensLeft'
    BY <1>1, <1>3, <1>4, <1>5, <1>8, <2>4 DEF IInv, TypeOK
  <2> QED BY <1>1, <2>2, <2>3, <2>4, <2>5 DEF IInv
<1> QED BY <1>6, <1>7, <1>8 DEF SetupEnds, next

\* The end of an update leaves workers and sign-ins alone.
LEMMA UpdateOver ==
    ASSUME IInv, NEW c \in Client, request[c].kind = "update", request[c].phase = "lock", Finish(c),
           UNCHANGED <<permits, orphans, top>>
    PROVE  request' \in [Client -> Request] /\ WorkersCounted' /\ TokensLeft'
<1>0. request' = [request EXCEPT ![c] = Idle] /\ request \in [Client -> Request]
  BY DEF Finish, IInv, TypeOK
<1>1. Working' = Working /\ Pending' = Pending /\ request' \in [Client -> Request]
  BY <1>0, IdleRequest DEF Working, Pending
<1> QED BY <1>1 DEF IInv, WorkersCounted, TokensLeft

\* A new policy signs every viewer out.
LEMMA ApplyInv == ASSUME IInv, NEW c \in Client, Apply(c) PROVE IInv'
<1> DEFINE r == request[c]
           next == [stored EXCEPT !.policy = Candidate(r)]
<1>0. /\ r.kind = "update" /\ r.phase = "lock" /\ Finish(c) /\ r \in Request /\ RequestSound(r)
      /\ permits' = permits /\ orphans' = orphans /\ Acceptable(r)
      /\ policy \in ViewerPolicy /\ policy.generation \in Nat /\ MaxGeneration \in Nat
  BY ManagementAssumption DEF Apply, workers, IInv, TypeOK, RequestsSound, ViewerPolicy
<1>1. Candidate(r) \in ViewerPolicy /\ Candidate(r).generation > policy.generation
  <2>1. /\ policy.generation + 1 \in 0..MaxGeneration /\ r.enabled \in BOOLEAN
        /\ (IF r.password = None THEN policy.password ELSE r.password) \in Password \cup {None}
    BY <1>0 DEF Acceptable, RequestSound, Request, ViewerPolicy
  <2> HIDE DEF r
  <2> QED BY <1>0, <2>1 DEF Candidate, ViewerPolicy
<1>2. /\ next \in [policy : ViewerPolicy, admin : Password \cup {None}]
      /\ next.admin = stored.admin /\ next.policy = Candidate(r)
  BY <1>1 DEF IInv, TypeOK
<1> HIDE DEF next
<1>3. admin # None => stored.admin = admin
  BY DEF IInv, StoreAgrees
<1>4. CASE Uncertain(next)
  <2>1. /\ UNCHANGED <<sessions, horizon, top, cookie, policy, admin>>
        /\ fault' = TRUE /\ stored' \in [policy : ViewerPolicy, admin : Password \cup {None}]
        /\ StoreAgrees' /\ SessionsProven' /\ SessionsCounted' /\ CookiesKnown'
    BY <1>2, <1>3, <1>4, UncertainSound
  <2>2. RequestsSound'
    BY <1>0, <2>1, IdleRequest, IdleSound, RequestsKept DEF Finish
  <2>3. request' \in [Client -> Request] /\ WorkersCounted' /\ TokensLeft'
    BY <1>0, <2>1, UpdateOver
  <2>4. TypeOK'
    BY <1>0, <2>1, <2>3 DEF IInv, TypeOK
  <2> QED BY <2>1, <2>2, <2>3, <2>4 DEF IInv
<1>5. CASE /\ policy' = Candidate(r) /\ stored' = next
           /\ sessions' = Revoked
           /\ UNCHANGED <<horizon, top, cookie, admin, fault>>
  <2>1. RequestsSound'
    BY <1>0, <1>1, <1>5, IdleRequest, IdleSound, RequestsKept DEF Finish
  <2>2. request' \in [Client -> Request] /\ WorkersCounted' /\ TokensLeft'
    BY <1>0, <1>5, UpdateOver
  <2>3. sessions' \subseteq sessions /\ Viewers(sessions)' = {}
    BY <1>5 DEF Revoked, Viewers
  <2>4. SessionsCounted'
    <3>1. IsFiniteSet(sessions) /\ Cardinality(sessions) <= Limit /\ Limit \in Nat
      BY ManagementAssumption DEF IInv, SessionsCounted
    <3>2. PICK T \in SUBSET sessions : T = sessions'
      BY <2>3
    <3>3. IsFiniteSet(T) /\ Cardinality(T) \in Nat /\ Cardinality(sessions) \in Nat
          /\ Cardinality(T) <= Cardinality(sessions)
      BY <3>1, CountSubset
    <3>4. Cardinality(T) <= Limit
      BY <3>1, <3>3
    <3> QED BY <3>2, <3>3, <3>4 DEF SessionsCounted
  <2>5. StoreAgrees'
    BY <1>2, <1>3, <1>5 DEF StoreAgrees
  <2>6. SessionsProven'
    <3>1. ViewersCurrent'
      BY <2>3 DEF ViewersCurrent
    <3>2. AdminsProven'
      BY <1>2, <1>5, <2>3 DEF IInv, SessionsProven, AdminsProven
    <3> QED BY <3>1, <3>2 DEF SessionsProven
  <2>7. TypeOK' /\ CookiesKnown'
    BY <1>0, <1>1, <1>2, <1>5, <2>2, <2>3 DEF IInv, TypeOK, CookiesKnown
  <2> QED BY <2>1, <2>2, <2>4, <2>5, <2>6, <2>7 DEF IInv
<1> QED BY <1>4, <1>5 DEF Apply, next

\* A request is refused.
LEMMA RefuseInv == ASSUME IInv, NEW c \in Client, Refuse(c) PROVE IInv'
<1>0. /\ UNCHANGED <<horizon, top, cookie, permits, orphans, policy, admin, stored, fault>>
      /\ sessions' \subseteq sessions /\ Finish(c)
      /\ request[c].kind = "update" /\ request[c].phase = "lock" /\ policy \in ViewerPolicy
  BY DEF Refuse, workers, confirmed, IInv, TypeOK
<1>1. request' \in [Client -> Request] /\ WorkersCounted' /\ TokensLeft'
  BY <1>0, UpdateOver
<1>2. RequestsSound'
  BY <1>0, IdleRequest, IdleSound, RequestsKept DEF Finish
<1>3. sessions' \subseteq Session /\ SessionsCounted' /\ SessionsProven' /\ StoreAgrees'
  BY <1>0, FewerSessions
<1>4. TypeOK' /\ CookiesKnown'
  BY <1>0, <1>1, <1>3 DEF IInv, TypeOK, CookiesKnown
<1> QED BY <1>1, <1>2, <1>3, <1>4 DEF IInv

\* Sessions that are looked at, ended or forgotten.
LEMMA SessionStepsInv ==
    ASSUME IInv, NEW c \in Client, Look(c) \/ Logout(c) \/ Forget(c)
    PROVE  IInv'
<1>0. /\ sessions' \subseteq sessions /\ top' = top
      /\ UNCHANGED <<request, workers, confirmed, stored, fault>>
      /\ top \in Nat /\ cookie \in [Client -> Token] /\ 0 \in Token /\ MaxToken \in Nat
  BY ManagementAssumption DEF Look, Logout, Forget, IInv, TypeOK, Token
<1>1. cookie' = cookie \/ cookie' = [cookie EXCEPT ![c] = 0]
  BY DEF Look, Logout, Forget
<1>2. cookie' \in [Client -> Token] /\ CookiesKnown'
  BY <1>0, <1>1 DEF IInv, CookiesKnown, Token
<1>3. horizon' \in 0..top
  BY <1>0 DEF Look, Logout, Forget, IInv, TypeOK
<1> QED BY <1>0, <1>2, <1>3, TableInv

\* A storage fault is latched.
LEMMA StoreFailsInv == ASSUME IInv, StoreFails PROVE IInv'
<1>0. UNCHANGED <<sessions, horizon, top, cookie, request, permits, orphans, policy, admin, stored>>
      /\ fault' = TRUE
  BY DEF StoreFails, table, workers, confirmed
<1>1. TypeOK' /\ RequestsSound' /\ CookiesKnown'
  BY <1>0 DEF IInv, TypeOK, RequestsSound, RequestSound, CookiesKnown
<1>2. SessionsCounted' /\ WorkersCounted' /\ TokensLeft'
  BY <1>0 DEF IInv, SessionsCounted, WorkersCounted, TokensLeft, Working, Pending
<1>3. StoreAgrees' /\ SessionsProven'
  BY <1>0 DEF IInv, StoreAgrees, SessionsProven, ViewersCurrent, AdminsProven
<1> QED BY <1>1, <1>2, <1>3 DEF IInv

\* A process that begins: nobody is signed in, nothing runs.
Fresh ==
    /\ sessions = {} /\ horizon = 0 /\ top = 0
    /\ cookie = [c \in Client |-> 0]
    /\ request = [c \in Client |-> Idle]
    /\ permits = Slots /\ orphans = 0
    /\ policy = stored.policy /\ admin = stored.admin
    /\ policy \in ViewerPolicy /\ admin \in Password \cup {None}
    /\ stored \in [policy : ViewerPolicy, admin : Password \cup {None}]
    /\ fault = FALSE

\* A process without requests and sessions.
LEMMA FreshInv == Fresh => IInv
<1> SUFFICES ASSUME Fresh PROVE IInv
  OBVIOUS
<1>0. MaxToken \in Nat /\ Slots \in Nat /\ Limit \in Nat /\ Token = 0..MaxToken
  BY ManagementAssumption DEF Token
<1>1. \A c \in Client : request[c] = Idle
  BY DEF Fresh
<1>2. Working = {} /\ Pending = {}
  BY <1>1, IdleRequest DEF Working, Pending
<1>3. IsFiniteSet({}) /\ Cardinality({}) = 0
  BY FS_EmptySet
<1>4. TypeOK
  <2>1. top \in Token /\ horizon \in 0..top /\ permits \in 0..Slots /\ orphans \in 0..Slots
    BY <1>0 DEF Fresh
  <2>2. cookie \in [Client -> Token] /\ request \in [Client -> Request]
    BY <1>0, IdleRequest DEF Fresh
  <2> QED BY <2>1, <2>2 DEF Fresh, TypeOK
<1>5. RequestsSound /\ CookiesKnown
  BY <1>1, IdleRequest DEF Fresh, RequestsSound, RequestSound, CookiesKnown
<1>6. SessionsCounted /\ WorkersCounted /\ TokensLeft
  BY <1>0, <1>2, <1>3 DEF Fresh, SessionsCounted, WorkersCounted, TokensLeft
<1>7. StoreAgrees /\ SessionsProven
  BY DEF Fresh, StoreAgrees, SessionsProven, ViewersCurrent, AdminsProven, Viewers
<1> QED BY <1>4, <1>5, <1>6, <1>7 DEF IInv

\* The invariant holds at the start.
LEMMA InitInv == Init => IInv
<1>1. Init => Fresh
  BY ManagementAssumption DEF Init, Fresh, ViewerPolicy
<1> QED BY <1>1, FreshInv

\* A restart keeps what is stored.
LEMMA RestartInv == ASSUME IInv, Restart PROVE IInv'
<1>1. stored \in [policy : ViewerPolicy, admin : Password \cup {None}]
  BY DEF IInv, TypeOK
<1>2. Fresh'
  BY <1>1 DEF Restart, Fresh
<1>3. (Fresh => IInv)'
  BY FreshInv, PTL
<1> QED BY <1>2, <1>3

\* Every step keeps the invariant.
LEMMA NextInv == IInv /\ [Next]_vars => IInv'
<1> SUFFICES ASSUME IInv, [Next]_vars PROVE IInv'
  OBVIOUS
<1>1. ASSUME NEW c \in Client, NEW password \in Password, Setup(c, password) PROVE IInv'
  BY <1>1, SetupInv
<1>2. ASSUME NEW c \in Client, NEW provider \in Provider, NEW password \in Password,
             Login(c, provider, password)
      PROVE  IInv'
  BY <1>2, LoginInv
<1>3. ASSUME NEW c \in Client, NEW password \in Password \cup {None}, NEW enabled \in BOOLEAN,
             Update(c, password, enabled)
      PROVE  IInv'
  BY <1>3, UpdateInv
<1>4. ASSUME NEW c \in Client, GoesOn(c) PROVE IInv'
  BY <1>4, PermitInv, LoginEndsInv, SetupEndsInv, HashedInv, ApplyInv, RefuseInv DEF GoesOn
<1>5. ASSUME NEW c \in Client, Cancel(c) PROVE IInv'
  BY <1>5, CancelInv
<1>6. ASSUME NEW c \in Client, Look(c) \/ Logout(c) \/ Forget(c) PROVE IInv'
  BY <1>6, SessionStepsInv
<1>7. CASE OrphanEnds
  BY <1>7, OrphanInv
<1>8. CASE StoreFails
  BY <1>8, StoreFailsInv
<1>9. CASE Restart
  BY <1>9, RestartInv
<1>10. CASE Expire \/ UNCHANGED vars
  <2>1. /\ sessions' \subseteq sessions /\ top' = top /\ cookie' = cookie /\ top \in Nat
        /\ UNCHANGED <<request, workers, confirmed, stored, fault>>
    BY <1>10 DEF Expire, vars, table, IInv, TypeOK, Token
  <2>2. horizon' \in 0..top
    BY <1>10, <2>1 DEF Expire, vars, table, IInv, TypeOK
  <2>3. cookie' \in [Client -> Token] /\ CookiesKnown'
    BY <2>1 DEF IInv, TypeOK, CookiesKnown
  <2> QED BY <2>1, <2>2, <2>3, TableInv
<1> QED BY <1>1, <1>2, <1>3, <1>4, <1>5, <1>6, <1>7, <1>8, <1>9, <1>10 DEF Next

-----------------------------------------------------------------------------
(***************************************************************************)
(* Theorems                                                                *)
(***************************************************************************)

\* The inductive invariant holds in every state.
THEOREM Invariance == Spec => []IInv
BY InitInv, NextInv, PTL DEF Spec

\* issue and password_call: sessions stay within their limit, and permits and
\* running workers add up over cancelled requests.
THEOREM LimitsHold == Spec => []WithinLimits
<1>1. IInv => WithinLimits
  BY DEF IInv, WithinLimits, SessionsCounted, SessionsBounded, WorkersCounted, PermitsConserved, Working
<1> QED BY <1>1, Invariance, PTL

\* authenticate, setup and configure_viewer: every session in the table rests
\* on a password that is in force, though passwords are verified outside the
\* event loop and commits may be uncertain.
THEOREM SessionsAreProven == Spec => []SessionsProven
<1>1. IInv => SessionsProven
  BY DEF IInv
<1> QED BY <1>1, Invariance, PTL

\* A viewer's sign-in removes no unexpired administrator but the one whose cookie
\* it brought.
LEMMA ViewerLogin ==
    ASSUME IInv, NEW c \in Client, request[c].provider = "local-viewer", LoginEnds(c),
           NEW s \in sessions \ sessions', s.provider = "local-admin", s.token > horizon
    PROVE  s.token = request[c].token /\ cookie'[c] # cookie[c]
<1> DEFINE r == request[c]
           victim == IF Full(r.provider, r.token) THEN Victim(r.provider) ELSE {}
<1>1. s \in Unexpired /\ s \notin Viewers(Unexpired)
  BY DEF Unexpired, Viewers
<1>2. Issue(c, r.provider, r.generation, r.password, r.token)
  BY DEF LoginEnds
<1>3. s \notin victim
  BY <1>1 DEF Victim, Oldest
<1>4. /\ Unexpired \ (victim \cup Previous(r.token)) \subseteq sessions'
      /\ cookie' = [cookie EXCEPT ![c] = top + 1]
  BY <1>1, <1>2 DEF Issue
<1>5. s.token = r.token
  BY <1>1, <1>3, <1>4 DEF Previous
<1>6. cookie[c] <= top /\ cookie[c] \in Nat /\ top \in Nat /\ cookie'[c] = top + 1
  BY <1>4 DEF IInv, CookiesKnown, TypeOK, Token
<1> QED BY <1>5, <1>6

\* issue: a viewer that signs in displaces no administrator but its own
\* browser's session.
THEOREM AdministratorsStay == Spec => AdminsNotDisplaced
<1>1. IInv /\ [Next]_vars =>
        [\A c \in Client :
            request[c].provider = "local-viewer" /\ LoginEnds(c) =>
                \A s \in sessions \ sessions' :
                    s.provider = "local-admin" /\ s.token > horizon =>
                        s.token = request[c].token /\ cookie'[c] # cookie[c]]_vars
  BY ViewerLogin
<1> QED BY <1>1, Invariance, PTL DEF Spec, AdminsNotDisplaced

\* The policy changes only in a request of an administrator who is signed in.
LEMMA PolicyChange ==
    ASSUME IInv, [Next]_vars, policy' # policy, ~fault
    PROVE  \E s \in sessions : s.provider = "local-admin" /\ s.token > horizon
                               /\ \E c \in Client : request[c].token = s.token /\ request'[c] = Idle
<1>1. ~Restart
  BY DEF Restart, IInv, StoreAgrees
<1>2. PICK c \in Client : Apply(c)
  <2>1. ASSUME NEW c \in Client, NEW r, Arrive(c, r) PROVE FALSE
    BY <2>1 DEF Arrive, confirmed
  <2>2. ASSUME NEW c \in Client, NEW password, Setup(c, password) PROVE FALSE
    BY <2>1, <2>2 DEF Setup
  <2>3. ASSUME NEW c \in Client, NEW provider, NEW password, Login(c, provider, password) PROVE FALSE
    BY <2>1, <2>3 DEF Login
  <2>4. ASSUME NEW c \in Client, NEW password, NEW enabled, Update(c, password, enabled) PROVE FALSE
    BY <2>1, <2>4 DEF Update
  <2>5. ASSUME NEW c \in Client,
               Permit(c) \/ LoginEnds(c) \/ SetupEnds(c) \/ Hashed(c) \/ Refuse(c) \/ Cancel(c)
                 \/ Look(c) \/ Logout(c) \/ Forget(c)
        PROVE  FALSE
    BY <2>5 DEF Permit, LoginEnds, SetupEnds, Uncertain, Hashed, Refuse, Cancel, Look, Logout,
                Forget, confirmed
  <2>6. ~OrphanEnds /\ ~Expire /\ ~StoreFails /\ ~UNCHANGED vars
    BY DEF OrphanEnds, Expire, StoreFails, vars, confirmed
  <2> QED BY <1>1, <2>2, <2>3, <2>4, <2>5, <2>6 DEF Next, GoesOn
<1>3. Current(request[c].token, "local-admin") /\ Finish(c)
  BY <1>2 DEF Apply
<1>4. PICK s \in sessions : s.token = request[c].token /\ s.provider = "local-admin" /\ Valid(s)
  BY <1>3 DEF Current
<1>5. request'[c] = Idle
  BY <1>3 DEF Finish, IInv, TypeOK
<1> QED BY <1>4, <1>5 DEF Valid

\* viewer_update checks the session again after the password was hashed: the
\* policy changes only by an administrator who is signed in then.
THEOREM UpdatesAreAuthorized == Spec => UpdatesAuthorized
<1>1. IInv /\ [Next]_vars =>
        [policy' # policy /\ ~fault =>
            \E s \in sessions : s.provider = "local-admin" /\ s.token > horizon
                                /\ \E c \in Client : request[c].token = s.token /\ request'[c] = Idle]_vars
  BY PolicyChange
<1> QED BY <1>1, Invariance, PTL DEF Spec, UpdatesAuthorized

=============================================================================
