------------------------- MODULE SetRequestsProofs -------------------------
(***************************************************************************)
(* Proofs, for every set of requests and credentials, of the safety        *)
(* properties of SetRequests.                                              *)
(***************************************************************************)
EXTENDS SetRequests, FiniteSetTheorems, TLAPS

\* The stamp of an admission is never ahead of the minted ones, so a change
\* always leaves the old grant behind.
GrantsAreOld ==
    /\ activation <= stamps
    /\ \A c \in Credential : generation[c] <= stamps
    /\ \A r \in Request : grant[r] # None =>
            grant[r].generation <= stamps /\ grant[r].activation <= stamps

\* A task belongs to an admitted request.
TasksAreGranted ==
    \A r \in Request : task[r] # "none" => grant[r] # None /\ phase[r] # "new"

\* Until its ticket ends a request has had no effect and its authorization
\* has not changed.
OpenIsUntouched ==
    \A r \in Request : phase[r] # "terminal" =>
        commits[r] = 0 /\ responses[r] = <<>> /\ r \notin touched

IInv ==
    /\ TypeOK /\ GrantsAreOld /\ TasksAreGranted /\ OpenIsUntouched
    /\ NothingLeaks /\ ResponsesAreTrue

\* The Boolean part of the type invariant, which no proof step mixes with
\* the rest.
Switches ==
    /\ io \in BOOLEAN /\ gate \in BOOLEAN /\ incoming \in BOOLEAN /\ listening \in BOOLEAN
    /\ lost \in BOOLEAN /\ closed \in BOOLEAN /\ fault \in BOOLEAN

Data ==
    /\ phase \in [Request -> {"new", "queued", "terminal"}]
    /\ task \in [Request -> {"none", "fresh", "waiting", "cancelled", "ended"}]
    /\ mp \subseteq Request /\ security \subseteq Request
    /\ grant \in [Request -> Grant \cup {None}]
    /\ generation \in [Credential -> Stamp]
    /\ activation \in Stamp /\ stamps \in Stamp
    /\ touched \subseteq Request
    /\ commits \in [Request -> Nat]
    /\ published \subseteq Request
    /\ responses \in [Request -> Seq(Status)]

\* The type invariant splits into the lifecycle switches and the request data.
LEMMA TypeParts == TypeOK <=> Switches /\ Data
BY DEF TypeOK, Switches, Data

\* The invariant holds when the adapter starts, with no request seen.
LEMMA InitInv == Init => IInv
<1> SUFFICES ASSUME Init PROVE IInv
  OBVIOUS
<1>1. Switches
  BY DEF Init, Switches
<1>2. Data
  BY SetAssumption DEF Init, Data, Stamp
<1>3. GrantsAreOld /\ TasksAreGranted /\ OpenIsUntouched
  BY DEF Init, GrantsAreOld, TasksAreGranted, OpenIsUntouched
<1>4. NothingLeaks /\ ResponsesAreTrue
  BY DEF Init, NothingLeaks, ResponsesAreTrue
<1>. QED  BY <1>1, <1>2, <1>3, <1>4, TypeParts DEF IInv

\* Every step keeps the lifecycle switches (locks, listener, closing) typed.
LEMMA NextSwitches == ASSUME Switches, [Next]_vars PROVE Switches'
<1> USE DEF tickets, policy, adapter, history, Switches
<1>1. ASSUME NEW r \in Request, admit_set(r) \/ Refuse(r) \/ Expire(r) \/ Lose(r) \/ Run(r)
      PROVE  Switches'
  BY <1>1 DEF admit_set, Refuse, Expire, Lose, Run, Wait, Stop, Reject, set_done, Complete,
              AnswerOnly, Discard
<1>2. ASSUME NEW c \in Credential, NEW i \in BOOLEAN, EditCredential(c, i) PROVE Switches'
  BY <1>2 DEF EditCredential, Cancel, Discard
<1>3. ASSUME NEW g \in BOOLEAN, EditSettings(g) PROVE Switches'
  BY <1>3 DEF EditSettings, Cancel, Discard
<1>4. CASE Reboot
  BY <1>4 DEF Reboot
<1>5. CASE Rebound \/ Reconcile \/ OtherFault \/ Close
  BY <1>5 DEF Rebound, Reconcile, OtherFault, Close
<1>6. CASE UNCHANGED vars
  BY <1>6 DEF vars
<1>. QED  BY <1>1, <1>2, <1>3, <1>4, <1>5, <1>6 DEF Next

\* A response is appended for r alone, or lost by the transport.
LEMMA RespondFacts ==
    ASSUME Data, NEW r \in Request, NEW s \in Status \cup {"none"}, Respond(r, s)
    PROVE  /\ responses' \in [Request -> Seq(Status)]
           /\ \A q \in Request : q # r => responses'[q] = responses[q]
           /\ \/ responses' = responses
              \/ s # "none" /\ responses'[r] = Append(responses[r], s)
<1>1. responses \in [Request -> Seq(Status)]
  BY DEF Data
<1>2. CASE responses' = responses
  BY <1>1, <1>2
<1>3. CASE responses' # responses
  <2>1. s \in Status /\ responses' = [responses EXCEPT ![r] = Append(responses[r], s)]
    BY <1>3 DEF Respond
  <2>2. Append(responses[r], s) \in Seq(Status)
    BY <1>1, <2>1
  <2>. HIDE DEF Status
  <2>3. s # "none"
    BY <2>1 DEF Status
  <2>. QED  BY <1>1, <2>1, <2>2, <2>3
<1>. QED  BY <1>2, <1>3

\* Every commit outcome has a typed SNMP answer.
LEMMA AnswerType == ASSUME NEW o \in Outcome PROVE Answer(o) \in Status \cup {"none"}
BY DEF Answer, Status, Outcome

\* What a change of S leaves: the tickets of S are over, the others as before.
LEMMA CancelFacts ==
    ASSUME Data, NEW S \in SUBSET Request, Cancel(S)
    PROVE  /\ phase' \in [Request -> {"new", "queued", "terminal"}]
           /\ task' \in [Request -> {"none", "fresh", "waiting", "cancelled", "ended"}]
           /\ \A r \in S : phase'[r] = "terminal"
           /\ \A r \in Request \ S : phase'[r] = phase[r] /\ task'[r] = task[r]
           /\ \A r \in Request : task'[r] = "none" <=> task[r] = "none"
           /\ mp' = mp \ S /\ security' = security \ S
BY DEF Cancel, Discard, Data

\* What closing the adapter leaves of tickets and tasks.
LEMMA CloseFacts ==
    ASSUME Data, CloseTickets
    PROVE  /\ phase' \in [Request -> {"new", "queued", "terminal"}]
           /\ task' \in [Request -> {"none", "fresh", "waiting", "cancelled", "ended"}]
           /\ \A r \in Request : task[r] # "none" => phase'[r] = "terminal"
           /\ \A r \in Request : task[r] = "none" => phase'[r] = phase[r]
           /\ \A r \in Request : task'[r] = "none" <=> task[r] = "none"
           /\ mp' = {} /\ security' = {}
BY DEF CloseTickets, pending_sets, Data

\* Every step keeps grants, tickets, tasks and responses typed.
LEMMA NextData == ASSUME TypeOK, [Next]_vars PROVE Data'
<1> USE TypeParts DEF tickets, policy, adapter, history
<1> USE DEF Data
<1>1. ASSUME NEW r \in Request, admit_set(r) PROVE Data'
  BY <1>1, SetAssumption DEF admit_set, Grant
<1>2. ASSUME NEW r \in Request, Refuse(r) \/ Lose(r) \/ Wait(r) \/ Stop(r) \/ set_done(r)
      PROVE  Data'
  BY <1>2 DEF Refuse, Lose, Wait, Stop, set_done
<1>3. ASSUME NEW r \in Request, Expire(r) \/ Reject(r) PROVE Data'
  BY <1>3 DEF Expire, Reject, Discard
<1>5. ASSUME NEW r \in Request, NEW o \in Outcome, Complete(r, o) PROVE Data'
  <2>1. responses' \in [Request -> Seq(Status)]
    BY <1>5, RespondFacts, AnswerType DEF Complete
  <2>2. commits' \in [Request -> Nat] /\ published' \subseteq Request
    BY <1>5 DEF Complete
  <2>. QED  BY <1>5, <2>1, <2>2 DEF Complete, Discard
<1>6. ASSUME NEW r \in Request, NEW s \in {"noError", "error"}, AnswerOnly(r, s) PROVE Data'
  <2>1. responses' \in [Request -> Seq(Status)]
    BY <1>6, RespondFacts DEF AnswerOnly, Status
  <2>. QED  BY <1>6, <2>1 DEF AnswerOnly, Discard
<1>7. ASSUME NEW c \in Credential, NEW i \in BOOLEAN, EditCredential(c, i) PROVE Data'
  <2>1. PICK S \in SUBSET Request : Cancel(S)
    BY <1>7 DEF EditCredential, Stale, pending_sets
  <2>2. stamps' \in Stamp /\ generation' \in [Credential -> Stamp]
    BY <1>7, SetAssumption DEF EditCredential, Stamp
  <2>3. touched' \subseteq Request
    BY <1>7 DEF EditCredential, pending_sets
  <2>. QED  BY <1>7, <2>1, <2>2, <2>3, CancelFacts DEF EditCredential
<1>8. ASSUME NEW g \in BOOLEAN, EditSettings(g) PROVE Data'
  <2>1. PICK S \in SUBSET Request : Cancel(S)
    BY <1>8 DEF EditSettings, Stale, pending_sets
  <2>2. stamps' \in Stamp /\ activation' \in Stamp
    BY <1>8, SetAssumption DEF EditSettings, Stamp
  <2>3. touched' \subseteq Request
    BY <1>8 DEF EditSettings, pending_sets
  <2>. QED  BY <1>8, <2>1, <2>2, <2>3, CancelFacts DEF EditSettings
<1>9. CASE Reboot
  <2>1. stamps' \in Stamp /\ activation' \in Stamp /\ generation' \in [Credential -> Stamp]
    BY <1>9, SetAssumption DEF Reboot, Stamp
  <2>2. touched' \subseteq Request /\ CloseTickets
    BY <1>9 DEF Reboot, pending_sets
  <2>. QED  BY <1>9, <2>1, <2>2, CloseFacts DEF Reboot
<1>10. CASE Rebound \/ Reconcile \/ OtherFault
  BY <1>10 DEF Rebound, Reconcile, OtherFault
<1>11. CASE Close
  BY <1>11, CloseFacts DEF Close
<1>12. CASE UNCHANGED vars
  BY <1>12 DEF vars
<1>. QED
  BY <1>1, <1>2, <1>3, <1>5, <1>6, <1>7, <1>8, <1>9, <1>10, <1>11, <1>12 DEF Next, Run

\* The safety parts of the invariant after a step that ends the ticket of r
\* without an effect.
Safe == GrantsAreOld /\ TasksAreGranted /\ OpenIsUntouched /\ NothingLeaks /\ ResponsesAreTrue

\* A step that leaves grants and stamps alone keeps grants no newer than the stamps.
LEMMA GrantsKept ==
    ASSUME GrantsAreOld, UNCHANGED <<grant, generation, activation, stamps>>
    PROVE  GrantsAreOld'
BY DEF GrantsAreOld

\* Admission, refusal, expiry, loss, waiting and cancellation of one request keep the safety parts.
LEMMA RequestStep ==
    ASSUME IInv, NEW r \in Request,
           admit_set(r) \/ Refuse(r) \/ Expire(r) \/ Lose(r) \/ Wait(r) \/ Stop(r)
             \/ Reject(r) \/ set_done(r)
    PROVE  Safe'
<1> USE TypeParts DEF tickets, policy, adapter, history, IInv
<1>1. CASE admit_set(r)
  <2>1. GrantsAreOld'
    BY <1>1, SetAssumption, GrantAssumption DEF admit_set, GrantsAreOld, Data, Grant
  <2>2. TasksAreGranted'
    BY <1>1, SetAssumption, GrantAssumption DEF admit_set, TasksAreGranted, Data, Grant
  <2>3. OpenIsUntouched' /\ ResponsesAreTrue'
    BY <1>1 DEF admit_set, OpenIsUntouched, ResponsesAreTrue, Data
  <2>4. NothingLeaks'
    BY <1>1 DEF admit_set, NothingLeaks, Data
  <2>. QED  BY <2>1, <2>2, <2>3, <2>4 DEF Safe
<1>2. CASE Refuse(r) \/ Lose(r) \/ Wait(r) \/ Stop(r) \/ set_done(r)
  <2>1. GrantsAreOld'
    BY <1>2, GrantsKept DEF Refuse, Lose, Wait, Stop, set_done
  <2>2. TasksAreGranted'
    BY <1>2 DEF Refuse, Lose, Wait, Stop, set_done, TasksAreGranted, Data
  <2>3. OpenIsUntouched' /\ ResponsesAreTrue'
    BY <1>2 DEF Refuse, Lose, Wait, Stop, set_done, OpenIsUntouched, ResponsesAreTrue, Data
  <2>4. NothingLeaks'
    BY <1>2 DEF Refuse, Lose, Wait, Stop, set_done, NothingLeaks, TasksAreGranted, Data
  <2>. QED  BY <2>1, <2>2, <2>3, <2>4 DEF Safe
<1>3. CASE Expire(r) \/ Reject(r)
  <2>1. GrantsAreOld' /\ TasksAreGranted'
    BY <1>3, GrantsKept DEF Expire, Reject, Discard, Turn, TasksAreGranted, Data
  <2>2. OpenIsUntouched'
    BY <1>3 DEF Expire, Reject, Discard, OpenIsUntouched, Data
  <2>3. ResponsesAreTrue'
    BY <1>3 DEF Expire, Reject, ResponsesAreTrue
  <2>4. NothingLeaks'
    BY <1>3 DEF Expire, Reject, Discard, NothingLeaks, Data
  <2>. QED  BY <2>1, <2>2, <2>3, <2>4 DEF Safe
<1>. QED  BY <1>1, <1>2, <1>3

\* The end of a SET task, with its commit outcome and response, keeps the safety parts.
LEMMA CompleteStep ==
    ASSUME IInv, NEW r \in Request,
           \/ \E o \in Outcome : Complete(r, o)
           \/ \E s \in {"noError", "error"} : AnswerOnly(r, s)
    PROVE  Safe'
<1> USE TypeParts DEF tickets, policy, adapter, history, IInv
<1>1. ASSUME NEW o \in Outcome, Complete(r, o) PROVE Safe'
  <2>1. commits[r] = 0 /\ responses[r] = <<>> /\ phase[r] = "queued"
    BY <1>1 DEF Complete, ready, OpenIsUntouched
  <2>2. GrantsAreOld' /\ TasksAreGranted' /\ NothingLeaks'
    <3>1. GrantsAreOld'
      BY <1>1, GrantsKept DEF Complete
    <3>2. TasksAreGranted'
      BY <1>1, <2>1 DEF Complete, Turn, Discard, TasksAreGranted, Data
    <3>3. NothingLeaks'
      BY <1>1, <2>1 DEF Complete, Discard, NothingLeaks, Data
    <3>. QED  BY <3>1, <3>2, <3>3
  <2>3. OpenIsUntouched'
    <3>1. \A q \in Request : q # r => responses'[q] = responses[q] /\ commits'[q] = commits[q]
      BY <1>1, RespondFacts, AnswerType DEF Complete, Data
    <3>. QED  BY <1>1, <3>1 DEF Complete, Discard, OpenIsUntouched, Data
  <2>4. /\ commits'[r] <= 1 /\ Len(responses'[r]) <= 1
        /\ commits'[r] = 1 /\ responses'[r] # <<>> =>
             responses'[r] = <<"noError">> /\ r \in published'
    <3>1. responses' = responses \/ (Answer(o) # "none" /\ responses'[r] = Append(<<>>, Answer(o)))
      BY <1>1, <2>1, RespondFacts, AnswerType DEF Complete
    <3>2. Append(<<>>, Answer(o)) = <<Answer(o)>> /\ Len(<<Answer(o)>>) = 1
      BY AnswerType
    <3>3. commits'[r] <= 1 /\ (commits'[r] = 1 => o \in {"ok", "unknown_kept"})
      BY <1>1, <2>1 DEF Complete, Data
    <3>4. o = "unknown_kept" => Answer(o) = "none"
      BY DEF Answer
    <3>5. o = "ok" => Answer(o) = "noError" /\ r \in published'
      BY <1>1 DEF Answer, Complete
    <3>6. responses'[r] = <<>> \/ (Answer(o) # "none" /\ responses'[r] = <<Answer(o)>>)
      BY <2>1, <3>1, <3>2
    <3>7. Len(responses'[r]) <= 1
      <4>1. CASE responses'[r] = <<>>
        BY <4>1
      <4>2. CASE responses'[r] = <<Answer(o)>>
        BY <4>2
      <4>. QED  BY <3>6, <4>1, <4>2
    <3>. QED  BY <3>3, <3>4, <3>5, <3>6, <3>7
  <2>5. ASSUME NEW q \in Request, q # r
        PROVE  commits'[q] = commits[q] /\ responses'[q] = responses[q]
               /\ (q \in published => q \in published')
    BY <1>1, <2>5, RespondFacts, AnswerType DEF Complete, Data
  <2>6. ResponsesAreTrue'
    BY <2>4, <2>5 DEF ResponsesAreTrue
  <2>. QED  BY <2>2, <2>3, <2>6 DEF Safe
<1>2. ASSUME NEW s \in {"noError", "error"}, AnswerOnly(r, s) PROVE Safe'
  <2>1. commits[r] = 0 /\ responses[r] = <<>> /\ phase[r] = "queued"
    BY <1>2 DEF AnswerOnly, ready, OpenIsUntouched
  <2>2. GrantsAreOld' /\ TasksAreGranted' /\ NothingLeaks'
    <3>1. GrantsAreOld'
      BY <1>2, GrantsKept DEF AnswerOnly
    <3>2. TasksAreGranted'
      BY <1>2, <2>1 DEF AnswerOnly, Turn, Discard, TasksAreGranted, Data
    <3>3. NothingLeaks'
      BY <1>2, <2>1 DEF AnswerOnly, Discard, NothingLeaks, Data
    <3>. QED  BY <3>1, <3>2, <3>3
  <2>3. OpenIsUntouched'
    <3>1. \A q \in Request : q # r => responses'[q] = responses[q]
      BY <1>2, RespondFacts DEF AnswerOnly, Status
    <3>. QED  BY <1>2, <3>1 DEF AnswerOnly, Discard, OpenIsUntouched, Data
  <2>4. commits'[r] = 0 /\ Len(responses'[r]) <= 1
    <3>1. responses' = responses \/ responses'[r] = Append(<<>>, s)
      BY <1>2, <2>1, RespondFacts DEF AnswerOnly, Status
    <3>2. Append(<<>>, s) = <<s>> /\ Len(<<s>>) = 1 /\ Len(<<>>) = 0
      OBVIOUS
    <3>3. responses'[r] = <<>> \/ responses'[r] = <<s>>
      BY <2>1, <3>1, <3>2
    <3>4. commits'[r] = 0
      BY <1>2, <2>1 DEF AnswerOnly
    <3>5. Len(responses'[r]) <= 1
      <4>1. CASE responses'[r] = <<>>
        BY <4>1
      <4>2. CASE responses'[r] = <<s>>
        BY <4>2
      <4>. QED  BY <3>3, <4>1, <4>2
    <3>. QED  BY <3>4, <3>5
  <2>5. ASSUME NEW q \in Request, q # r
        PROVE  commits'[q] = commits[q] /\ responses'[q] = responses[q] /\ published' = published
    BY <1>2, <2>5, RespondFacts DEF AnswerOnly, Data, Status
  <2>6. ResponsesAreTrue'
    BY <2>4, <2>5 DEF ResponsesAreTrue
  <2>. QED  BY <2>2, <2>3, <2>6 DEF Safe
<1>. QED  BY <1>1, <1>2

\* A change that ends the tickets of S, where S holds every request it
\* touches, and has no other effect on requests.
LEMMA Revocation ==
    ASSUME IInv, NEW S \in SUBSET Request, Cancel(S),
           touched' \subseteq touched \cup S,
           UNCHANGED <<grant, commits, published, responses>>
    PROVE  TasksAreGranted' /\ OpenIsUntouched' /\ NothingLeaks' /\ ResponsesAreTrue'
<1> USE TypeParts DEF IInv
<1>1. TasksAreGranted'
  BY CancelFacts DEF TasksAreGranted, Data
<1>2. OpenIsUntouched'
  BY CancelFacts DEF OpenIsUntouched, Data
<1>3. NothingLeaks'
  BY CancelFacts DEF NothingLeaks, Data
<1>4. ResponsesAreTrue'
  BY DEF ResponsesAreTrue
<1>. QED  BY <1>1, <1>2, <1>3, <1>4

\* Edits of credentials and settings, which cancel tickets, keep the safety parts.
LEMMA EditStep ==
    ASSUME IInv,
           \/ \E c \in Credential, i \in BOOLEAN : EditCredential(c, i)
           \/ \E g \in BOOLEAN : EditSettings(g)
    PROVE  Safe'
<1> USE TypeParts DEF IInv
<1>1. ASSUME NEW c \in Credential, NEW i \in BOOLEAN, EditCredential(c, i) PROVE Safe'
  <2> DEFINE S == IF listening' THEN Stale ELSE pending_sets
  <2>1. GrantsAreOld'
    BY <1>1 DEF EditCredential, GrantsAreOld, Data, Stamp, Grant
  <2>2. S \in SUBSET Request /\ Cancel(S)
    BY <1>1 DEF EditCredential, Stale, pending_sets
  <2>3. {r \in pending_sets : credential(r) = c} \subseteq S
    <3> SUFFICES ASSUME NEW r \in pending_sets, credential(r) = c PROVE r \in S
      OBVIOUS
    <3>1. r \in Request /\ grant[r] # None
      BY DEF pending_sets, TasksAreGranted
    <3>2. grant[r] \in Grant /\ grant[r].generation <= stamps
      BY <3>1 DEF GrantsAreOld, Data
    <3>3. generation'[c] = stamps + 1 /\ grant' = grant
      BY <1>1 DEF EditCredential, Data
    <3>4. grant'[r].generation # generation'[credential(r)]
      BY <3>2, <3>3 DEF Data, Stamp, Grant
    <3>5. ~current_set(r)'
      BY <3>4 DEF current_set
    <3>. QED  BY <3>5 DEF Stale
  <2>4. touched' \subseteq touched \cup S /\ UNCHANGED <<grant, commits, published, responses>>
    BY <1>1, <2>3 DEF EditCredential
  <2>. HIDE DEF S
  <2>5. TasksAreGranted' /\ OpenIsUntouched' /\ NothingLeaks' /\ ResponsesAreTrue'
    BY <2>2, <2>4, Revocation
  <2>. QED  BY <2>1, <2>5 DEF Safe
<1>2. ASSUME NEW g \in BOOLEAN, EditSettings(g) PROVE Safe'
  <2> DEFINE S == IF listening' THEN Stale ELSE pending_sets
  <2>1. GrantsAreOld'
    BY <1>2 DEF EditSettings, GrantsAreOld, Data, Stamp, Grant
  <2>2. S \in SUBSET Request /\ Cancel(S)
    BY <1>2 DEF EditSettings, Stale, pending_sets
  <2>3. pending_sets \subseteq S
    <3> SUFFICES ASSUME NEW r \in pending_sets PROVE r \in S
      OBVIOUS
    <3>1. r \in Request /\ grant[r] # None
      BY DEF pending_sets, TasksAreGranted
    <3>2. grant[r] \in Grant /\ grant[r].activation <= stamps
      BY <3>1 DEF GrantsAreOld, Data
    <3>3. activation' = stamps + 1 /\ grant' = grant
      BY <1>2 DEF EditSettings
    <3>4. grant'[r].activation # activation'
      BY <3>2, <3>3 DEF Data, Stamp, Grant
    <3>5. ~current_set(r)'
      BY <3>4 DEF current_set
    <3>. QED  BY <3>5 DEF Stale
  <2>4. touched' \subseteq touched \cup S /\ UNCHANGED <<grant, commits, published, responses>>
    BY <1>2, <2>3 DEF EditSettings
  <2>. HIDE DEF S
  <2>5. TasksAreGranted' /\ OpenIsUntouched' /\ NothingLeaks' /\ ResponsesAreTrue'
    BY <2>2, <2>4, Revocation
  <2>. QED  BY <2>1, <2>5 DEF Safe
<1>. QED  BY <1>1, <1>2

\* A reboot and a shutdown end every ticket that has a task.
LEMMA ClosingStep == ASSUME IInv, Reboot \/ Close PROVE Safe'
<1> USE TypeParts DEF IInv, policy, history
<1>1. CloseTickets /\ UNCHANGED <<grant, commits, published, responses>>
  BY DEF Reboot, Close
<1>2. GrantsAreOld'
  <2>1. CASE Reboot
    BY <2>1 DEF Reboot, GrantsAreOld, Data, Stamp, Grant
  <2>2. CASE Close
    BY <2>2, GrantsKept DEF Close
  <2>. QED  BY <2>1, <2>2
<1>3. TasksAreGranted'
  BY <1>1, CloseFacts DEF TasksAreGranted
<1>4. OpenIsUntouched'
  <2>1. touched' \subseteq touched \cup {r \in Request : task[r] # "none"}
    BY DEF Reboot, Close, pending_sets
  <2>. QED  BY <1>1, <2>1, CloseFacts DEF OpenIsUntouched
<1>5. NothingLeaks'
  BY <1>1, CloseFacts DEF NothingLeaks
<1>6. ResponsesAreTrue'
  BY <1>1 DEF ResponsesAreTrue
<1>. QED  BY <1>2, <1>3, <1>4, <1>5, <1>6 DEF Safe

\* Steps that touch no request keep the safety parts.
LEMMA OtherStep ==
    ASSUME IInv, Rebound \/ Reconcile \/ OtherFault \/ UNCHANGED vars PROVE Safe'
<1>1. UNCHANGED <<tickets, policy, history>>
  BY DEF Rebound, Reconcile, OtherFault, vars
<1>2. GrantsAreOld' /\ TasksAreGranted'
  BY <1>1, GrantsKept DEF IInv, TasksAreGranted, tickets, policy
<1>3. OpenIsUntouched' /\ NothingLeaks' /\ ResponsesAreTrue'
  BY <1>1 DEF IInv, OpenIsUntouched, NothingLeaks, ResponsesAreTrue, tickets, history
<1>. QED  BY <1>2, <1>3 DEF Safe

\* The inductive step: one case per action of the adapter.
LEMMA NextInv == ASSUME IInv, [Next]_vars PROVE IInv'
<1>1. TypeOK'
  <2>1. TypeOK /\ Switches
    BY TypeParts DEF IInv
  <2>2. Switches' /\ Data'
    BY <2>1, NextSwitches, NextData
  <2>. QED  BY <2>2, TypeParts, PTL
<1>2. Safe'
  BY RequestStep, CompleteStep, EditStep, ClosingStep, OtherStep DEF Next, Run
<1>. QED  BY <1>1, <1>2 DEF IInv, Safe

\* The conjunction of type, grant age, task ownership, and response and library-record
\* bookkeeping holds in every reachable state of the SET lifecycle.
THEOREM Invariance == Spec => []IInv
<1>. QED  BY InitInv, NextInv, PTL DEF Spec

\* Every reachable state of the ticket and task lifecycle is well typed.
THEOREM TypeCorrect == Spec => []TypeOK
<1>1. IInv => TypeOK
  BY DEF IInv
<1>. QED  BY <1>1, Invariance, PTL

\* For any number of requests and credentials the library's records go with
\* the ticket that owns them, in whatever order expiry, revocation, response
\* and close happen.
THEOREM RecordsDoNotLeak == Spec => []NothingLeaks
<1>1. IInv => NothingLeaks
  BY DEF IInv
<1>. QED  BY <1>1, Invariance, PTL

\* For any number of requests, whatever the storage does, a response tells
\* what became of the change, and no request commits or answers twice.
THEOREM TruthfulResponses == Spec => []ResponsesAreTrue
<1>1. IInv => ResponsesAreTrue
  BY DEF IInv
<1>. QED  BY <1>1, Invariance, PTL

\* For any number of edits between admission and turn, a request whose
\* authorization was touched never commits.
THEOREM RevokedNeverCommits == Spec => NoCommitAfterChange
<1>1. ASSUME IInv, [Next]_vars PROVE [\A r \in touched : commits'[r] = commits[r]]_vars
  <2> SUFFICES ASSUME NEW r \in touched PROVE commits'[r] = commits[r]
    OBVIOUS
  <2>1. r \in Request /\ phase[r] = "terminal" /\ commits \in [Request -> Nat]
    BY <1>1, TypeParts DEF IInv, OpenIsUntouched, Data
  <2>2. ASSUME NEW q \in Request, NEW o \in Outcome, Complete(q, o)
        PROVE  commits'[r] = commits[r]
    BY <2>1, <2>2 DEF Complete, ready
  <2>3. CASE UNCHANGED commits
    BY <2>3
  <2>4. \/ \E q \in Request, o \in Outcome : Complete(q, o)
        \/ UNCHANGED commits
    BY <1>1 DEF Next, Run, admit_set, Refuse, Expire, Lose, Wait, Stop, Reject, set_done, AnswerOnly,
                EditCredential, EditSettings, Reboot, Rebound, Reconcile, OtherFault, Close, vars, history
  <2>. QED  BY <2>2, <2>3, <2>4
<1>. QED  BY <1>1, Invariance, PTL DEF Spec, NoCommitAfterChange

-----------------------------------------------------------------------------
(***************************************************************************)
(* The bound on queued requests                                            *)
(***************************************************************************)

\* Request may be infinite; the pending ones are finitely many.
Counted == IsFiniteSet(pending_sets) /\ Cardinality(pending_sets) <= Limit

\* A finite set stays within the limit when it shrinks, and when an element is
\* added below the limit.
LEMMA CountStep ==
    ASSUME NEW S, NEW T, NEW x, IsFiniteSet(S), Cardinality(S) <= Limit,
           T \subseteq S \/ (T = S \cup {x} /\ Cardinality(S) < Limit)
    PROVE  IsFiniteSet(T) /\ Cardinality(T) <= Limit
<1>1. Cardinality(S) \in Nat
  BY FS_CardinalityType
<1>2. CASE T \subseteq S
  <2>1. IsFiniteSet(T) /\ Cardinality(T) <= Cardinality(S)
    BY <1>2, FS_Subset
  <2>2. Cardinality(T) \in Nat
    BY <2>1, FS_CardinalityType
  <2>. QED  BY <1>1, <2>1, <2>2, SetAssumption
<1>3. CASE T = S \cup {x} /\ Cardinality(S) < Limit
  <2>1. /\ IsFiniteSet(S \cup {x})
        /\ Cardinality(S \cup {x}) = Cardinality(S) \/ Cardinality(S \cup {x}) = Cardinality(S) + 1
    BY FS_AddElement
  <2>. QED  BY <1>1, <1>3, <2>1, SetAssumption
<1>. QED  BY <1>2, <1>3

\* Only admit_set takes a slot, and only when one is free: expiry, revocation
\* and close end tickets and keep the slots until _set_done.
LEMMA SlotsStep ==
    ASSUME TypeOK, [Next]_vars
    PROVE  \/ pending_sets' \subseteq pending_sets
           \/ \E r \in Request : /\ pending_sets' = pending_sets \cup {r}
                                 /\ Cardinality(pending_sets) < Limit
<1>0. Data
  BY TypeParts
<1>. USE <1>0
<1>1. ASSUME NEW r \in Request, admit_set(r)
      PROVE  /\ pending_sets' = pending_sets \cup {r}
             /\ Cardinality(pending_sets) < Limit
  <2>1. Cardinality(pending_sets) < Limit
    BY <1>1 DEF admit_set
  <2>2. task' = [task EXCEPT ![r] = "fresh"]
    BY <1>1 DEF admit_set
  <2>. QED  BY <2>1, <2>2 DEF pending_sets, Data
<1>2. ASSUME NEW r \in Request, Refuse(r) \/ Expire(r) \/ Lose(r) \/ Run(r)
      PROVE  pending_sets' \subseteq pending_sets
  BY <1>2 DEF Run, Refuse, Expire, Lose, Wait, Stop, Reject, set_done, Complete, AnswerOnly, Turn,
              pending_sets, Data
<1>3. ASSUME NEW c \in Credential, NEW i \in BOOLEAN, EditCredential(c, i)
      PROVE  pending_sets' \subseteq pending_sets
  <2>1. PICK S \in SUBSET Request : Cancel(S)
    BY <1>3 DEF EditCredential, Stale, pending_sets
  <2>. QED  BY <2>1, CancelFacts DEF pending_sets
<1>4. ASSUME NEW g \in BOOLEAN, EditSettings(g)
      PROVE  pending_sets' \subseteq pending_sets
  <2>1. PICK S \in SUBSET Request : Cancel(S)
    BY <1>4 DEF EditSettings, Stale, pending_sets
  <2>. QED  BY <2>1, CancelFacts DEF pending_sets
<1>5. CASE Reboot \/ Close
  <2>1. CloseTickets
    BY <1>5 DEF Reboot, Close
  <2>. QED  BY <2>1, CloseFacts DEF pending_sets
<1>6. CASE Rebound \/ Reconcile \/ OtherFault \/ UNCHANGED vars
  BY <1>6 DEF Rebound, Reconcile, OtherFault, vars, tickets, pending_sets
<1>. QED  BY <1>1, <1>2, <1>3, <1>4, <1>5, <1>6 DEF Next

\* However requests, expiries and revocations interleave, the tasks that hold
\* memory, those of ended tickets included, never exceed MAX_PENDING_SETS.
THEOREM QueueBounded == Spec => []WithinLimit
<1>1. Init => Counted
  <2> SUFFICES ASSUME Init PROVE Counted
    OBVIOUS
  <2>1. pending_sets = {}
    BY DEF Init, pending_sets
  <2>. QED  BY <2>1, FS_EmptySet, SetAssumption DEF Counted
<1>2. ASSUME TypeOK, Counted, [Next]_vars PROVE Counted'
  <2>1. \/ pending_sets' \subseteq pending_sets
        \/ \E r \in Request : /\ pending_sets' = pending_sets \cup {r}
                              /\ Cardinality(pending_sets) < Limit
    BY <1>2, SlotsStep
  <2>2. IsFiniteSet(pending_sets) /\ Cardinality(pending_sets) <= Limit
    BY <1>2 DEF Counted
  <2>3. IsFiniteSet(pending_sets') /\ Cardinality(pending_sets') <= Limit
    BY <2>1, <2>2, CountStep
  <2>. QED  BY <2>3 DEF Counted
<1>3. Counted => WithinLimit
  BY DEF Counted, WithinLimit, pending_sets
<1>. QED  BY <1>1, <1>2, <1>3, TypeCorrect, PTL DEF Spec

=============================================================================
