------------------------- MODULE DynamicAuthProofs -------------------------
(***************************************************************************)
(* Proofs, for every set of requests, senders, clocks and bounds, of the   *)
(* safety properties of DynamicAuth.                                       *)
(***************************************************************************)
EXTENDS DynamicAuth, FiniteSetTheorems, TLAPS

\* What every transaction does to typed storage.
LEMMA TransactionType ==
    ASSUME TypeOK, NEW o \in Outcome, NEW image \in Image, Transaction(o, image)
    PROVE  /\ mem' \in Image /\ disk' \in Image /\ fault' \in BOOLEAN
           /\ decided' \subseteq Request /\ foreign' \subseteq Request
BY DEF Transaction, TypeOK, Image, Outcome, Reached

\* Retired receipts, built from typed reservations, stay typed.
LEMMA RetireType ==
    ASSUME TypeOK, NEW S \in SUBSET Request
    PROVE  Retire(Uncached(S)) \in [Request -> Receipt \cup {None}]
<1>1. ASSUME NEW r \in Uncached(S)
      PROVE  [generation |-> pending[r].generation, response |-> "silent"] \in Receipt
  BY <1>1, NoneAssumption DEF Uncached, TypeOK, Reservation, Receipt
<1>2. mem.receipts \in [Request -> Receipt \cup {None}]
  BY DEF TypeOK, Image
<1>. QED  BY <1>1, <1>2 DEF Retire

\* The generations that follow an edit of the senders are typed.
LEMMA GenerationsType ==
    ASSUME NEW senders \in [Sender -> Signature \cup {None}],
           NEW gens \in [Sender -> Generation \cup {None}], NEW fresh \in Nat
    PROVE  next_dynamic_generations(senders, gens, fresh) \in [Sender -> Generation \cup {None}]
BY DEF next_dynamic_generations, Generation

\* The running listener table maps each sender to a signature or to none.
LEMMA RunningType == ASSUME TypeOK PROVE Running \in [Sender -> Signature \cup {None}]
BY NoneAssumption DEF Running, TypeOK, Image, Generation

\* The periodic retirement of expired reservations keeps every variable typed.
LEMMA RetireExpiredType ==
    ASSUME TypeOK, NEW r \in Request, NEW o \in Outcome, retire_expired_dynamic(r, o)
    PROVE  /\ mem' \in Image /\ disk' \in Image /\ fault' \in BOOLEAN
           /\ decided' \subseteq Request /\ foreign' \subseteq Request
<1>1. PICK h \in Highest({mem.high, wall, After(r)}) :
        Transaction(o, Metadata(Retire(Uncached({r})), h, mem.gens))
  BY DEF retire_expired_dynamic
<1>2. h \in Nat
  BY RequestAssumption, BoundsAssumption DEF Highest, After, Lapse, TypeOK, Image
<1>3. Metadata(Retire(Uncached({r})), h, mem.gens) \in Image
  BY <1>2, RetireType DEF TypeOK, Image, Metadata
<1>. QED  BY <1>1, <1>3, TransactionType

\* An edit of senders or listener settings keeps every variable typed.
LEMMA ReconfigureType ==
    ASSUME TypeOK, NEW o \in Outcome, NEW senders \in [Sender -> Signature \cup {None}],
           NEW reboot \in BOOLEAN, Reconfigure(o, senders, reboot)
    PROVE  /\ mem' \in Image /\ disk' \in Image /\ fault' \in BOOLEAN
           /\ decided' \subseteq Request /\ foreign' \subseteq Request
           /\ minted' \in Nat /\ barred' \subseteq Request
<1> DEFINE gens == next_dynamic_generations(senders, mem.gens, minted + 1)
           lost == Outdated(gens, reboot)
           image == Metadata(Retire(Uncached(lost)), mem.high, gens)
<1>1. gens \in [Sender -> Generation \cup {None}]
  BY GenerationsType DEF TypeOK, Image
<1>2. lost \in SUBSET Request
  BY DEF Outdated
<1>3. image \in Image
  BY <1>1, <1>2, RetireType DEF TypeOK, Image, Metadata
<1>4. Transaction(o, image)
  BY DEF Reconfigure
<1>. HIDE DEF image
<1>5. minted' \in Nat /\ barred' \subseteq Request
  BY <1>2 DEF Reconfigure, TypeOK
<1>. QED  BY <1>3, <1>4, <1>5, TransactionType

-----------------------------------------------------------------------------
(***************************************************************************)
(* Type correctness                                                        *)
(***************************************************************************)

\* The state of a first start is well typed.
LEMMA InitType == Init => TypeOK
<1> SUFFICES ASSUME Init PROVE TypeOK
  OBVIOUS
<1>1. PICK senders \in [Sender -> Policy], b \in Settings :
        /\ disk = [receipts |-> [r \in Request |-> None], high |-> 0,
                   gens |-> [s \in Sender |-> IF senders[s] = None THEN None
                                ELSE [signature |-> senders[s], number |-> 1]],
                   saved |-> [senders |-> senders, binding |-> b]]
        /\ binding = b
  BY DEF Init
<1>2. [s \in Sender |-> IF senders[s] = None THEN None
                        ELSE [signature |-> senders[s], number |-> 1]]
        \in [Sender -> Generation \cup {None}]
  BY DEF Generation, Signature
<1>3. [senders |-> senders, binding |-> b] \in Startup
  BY DEF Startup, Signature
<1>4. disk \in Image
  BY <1>1, <1>2, <1>3 DEF Image
<1>5. /\ left \in [Request -> Int] /\ effects \in [Request -> Nat] /\ wall \in Nat
      /\ epoch \in Nat /\ minted \in Nat
      /\ pending \in [Request -> Reservation \cup {None}]
  BY BoundsAssumption DEF Init
<1>6. fault \in BOOLEAN /\ closing \in BOOLEAN /\ live \in BOOLEAN
  BY DEF Init
<1>7. mem \in Image /\ binding \in Settings
  BY <1>1, <1>4 DEF Init
<1>. QED  BY <1>4, <1>5, <1>6, <1>7 DEF Init, TypeOK

\* Reservations that are released, kept or detached stay typed.
LEMMA PendingType ==
    ASSUME TypeOK, NEW r \in Request, pending[r] # None, Release(r) \/ Keep(r)
    PROVE  pending' \in [Request -> Reservation \cup {None}]
BY DEF TypeOK, Reservation, Release, Keep

\* Every step, from datagram to restart, keeps the type invariant.
LEMMA NextType == TypeOK /\ [Next]_vars => TypeOK'
<1> SUFFICES ASSUME TypeOK, [Next]_vars PROVE TypeOK'
  OBVIOUS
<1> USE DEF clocks, stored, wiring, history
<1>1. ASSUME NEW r \in Request, Reserve(r) PROVE TypeOK'
  <2>1. pending' \in [Request -> Reservation \cup {None}]
    BY <1>1, RequestAssumption DEF Reserve, Trusted, TypeOK, Reservation, Image, Generation
  <2>2. left' \in [Request -> Int]
    BY <1>1, RequestAssumption, BoundsAssumption DEF Reserve, Lapse, TypeOK
  <2>. QED  BY <1>1, <2>1, <2>2 DEF Reserve, TypeOK
<1>2. ASSUME NEW r \in Request, Resend(r) PROVE TypeOK'
  BY <1>2 DEF Resend, TypeOK
<1>3. ASSUME NEW r \in Request, HandleStale(r) PROVE TypeOK'
  BY <1>3, PendingType DEF HandleStale, Queued, TypeOK
<1>4. ASSUME NEW r \in Request, NEW o \in Outcome, HandleExpired(r, o) PROVE TypeOK'
  <2>1. pending' \in [Request -> Reservation \cup {None}]
    BY <1>4, PendingType DEF HandleExpired, Queued
  <2>2. CASE fault
    BY <1>4, <2>1, <2>2 DEF HandleExpired, TypeOK
  <2>3. CASE ~fault
    BY <1>4, <2>1, <2>3, RetireExpiredType DEF HandleExpired, TypeOK
  <2>. QED  BY <2>2, <2>3
<1>5. ASSUME NEW r \in Request, NEW o \in Outcome, Decide(r, o) PROVE TypeOK'
  <2> DEFINE receipt == [generation |-> pending[r].generation, response |-> Plan(r)]
  <2>1. PICK h \in Highest({mem.high, wall}) :
          Transaction(o, Metadata([mem.receipts EXCEPT ![r] = receipt], h, mem.gens))
    BY <1>5 DEF Decide
  <2>2. pending[r] \in Reservation
    BY <1>5 DEF Decide, Queued, TypeOK
  <2>3. receipt \in Receipt
    BY <2>2 DEF Reservation, Receipt, Answer, Plan
  <2>4. Metadata([mem.receipts EXCEPT ![r] = receipt], h, mem.gens) \in Image
    BY <2>3 DEF Metadata, Image, TypeOK, Highest
  <2>5. pending' \in [Request -> Reservation \cup {None}]
    BY <1>5, PendingType DEF Decide, Queued
  <2>6. effects' \in [Request -> Nat] /\ sent' \subseteq (Request \X Answer)
    BY <1>5 DEF Decide, TypeOK, Answer, Plan
  <2>7. live' \in BOOLEAN
    BY <1>5 DEF Decide, TypeOK
  <2>. QED  BY <1>5, <2>1, <2>4, <2>5, <2>6, <2>7, TransactionType DEF Decide, TypeOK
<1>6. ASSUME NEW r \in Request, NEW o \in Outcome, PruneReservation(r, o) PROVE TypeOK'
  BY <1>6, RetireExpiredType DEF PruneReservation, TypeOK
<1>7. ASSUME NEW o \in Outcome, PruneReceipts(o) PROVE TypeOK'
  <2> DEFINE expired == {r \in Request : mem.receipts[r] # None /\ dynamic_expired(r)}
             receipts == [r \in Request |-> IF r \in expired THEN None ELSE mem.receipts[r]]
  <2>1. PICK h \in Highest({mem.high, wall} \cup {After(r) : r \in expired}) :
          Transaction(o, Metadata(receipts, h, mem.gens))
    BY <1>7 DEF PruneReceipts
  <2>2. h \in Nat
    BY RequestAssumption, BoundsAssumption DEF Highest, After, Lapse, TypeOK, Image
  <2>3. Metadata(receipts, h, mem.gens) \in Image
    BY <2>2 DEF Metadata, Image, TypeOK
  <2>. QED  BY <1>7, <2>1, <2>3, TransactionType DEF PruneReceipts, TypeOK
<1>8. ASSUME NEW o \in Outcome, SaveStartup(o) PROVE TypeOK'
  <2>1. [mem EXCEPT !.saved = [senders |-> Running, binding |-> binding]] \in Image
    BY RunningType DEF TypeOK, Image, Startup
  <2>. QED  BY <1>8, <2>1, TransactionType DEF SaveStartup, TypeOK
<1>9. ASSUME NEW o \in Outcome, Reboot(o) PROVE TypeOK'
  <2>1. Reconfigure(o, mem.saved.senders, TRUE)
    BY <1>9 DEF Reboot
  <2>2. mem.saved \in Startup
    BY DEF TypeOK, Image
  <2>3. mem.saved.senders \in [Sender -> Signature \cup {None}] /\ mem.saved.binding \in Settings
    BY <2>2 DEF Startup
  <2>4. /\ mem' \in Image /\ disk' \in Image /\ fault' \in BOOLEAN
        /\ decided' \subseteq Request /\ foreign' \subseteq Request
        /\ minted' \in Nat /\ barred' \subseteq Request
    BY <2>1, <2>3, ReconfigureType
  <2>5. epoch' \in Nat /\ binding' \in Settings
    BY <1>9, <2>3 DEF Reboot, TypeOK
  <2>7. live' \in BOOLEAN
    BY <1>9, Zenon DEF Reboot, TypeOK
  <2>6. UNCHANGED <<wall, left, pending, listener, opening, closing, effects, sent>>
    BY <1>9 DEF Reboot
  <2>. QED  BY <2>4, <2>5, <2>6, <2>7 DEF TypeOK
<1>10. ASSUME NEW o \in Outcome, FinishClose(o) PROVE TypeOK'
  <2> DEFINE held == {r \in Request : pending[r] # None}
  <2>1. Metadata(Retire(Uncached(held)), mem.high, mem.gens) \in Image
    BY RetireType DEF Metadata, Image, TypeOK
  <2>2. /\ mem' \in Image /\ disk' \in Image /\ fault' \in BOOLEAN
        /\ decided' \subseteq Request /\ foreign' \subseteq Request
    BY <1>10, <2>1, TransactionType DEF FinishClose, TypeOK
  <2>. QED  BY <1>10, <2>2 DEF FinishClose, TypeOK
<1>11. ASSUME NEW s \in Sender, NEW x \in Policy, NEW o \in Outcome, EditSender(s, x, o)
       PROVE  TypeOK'
  <2>1. Reconfigure(o, [Running EXCEPT ![s] = x], FALSE)
    BY <1>11 DEF EditSender
  <2>2. [Running EXCEPT ![s] = x] \in [Sender -> Signature \cup {None}]
    BY RunningType DEF Signature
  <2>4. /\ mem' \in Image /\ disk' \in Image /\ fault' \in BOOLEAN
        /\ decided' \subseteq Request /\ foreign' \subseteq Request
        /\ minted' \in Nat /\ barred' \subseteq Request
    BY <2>1, <2>2, ReconfigureType
  <2>. QED  BY <1>11, <2>4 DEF EditSender, TypeOK
<1>12. ASSUME NEW b \in Settings, NEW o \in Outcome, EditSettings(b, o) PROVE TypeOK'
  BY <1>12, TransactionType DEF EditSettings, TypeOK
<1>13. CASE OpenListener
  BY <1>13 DEF OpenListener, Detach, TypeOK, Reservation, Binding
<1>14. CASE ListenerReady
  BY <1>14 DEF ListenerReady, TypeOK
<1>15. CASE BeginClose
  BY <1>15 DEF BeginClose, TypeOK
<1>16. ASSUME NEW host \in BOOLEAN, Restart(host) PROVE TypeOK'
  <2>1. disk.saved \in Startup
    BY DEF TypeOK, Image
  <2>2. disk.saved.senders \in [Sender -> Signature \cup {None}] /\ disk.saved.binding \in Settings
    BY <2>1 DEF Startup
  <2> DEFINE gens == next_dynamic_generations(disk.saved.senders, disk.gens, minted + 1)
  <2>9. disk.gens \in [Sender -> Generation \cup {None}] /\ minted + 1 \in Nat
    BY DEF TypeOK, Image
  <2>3. gens \in [Sender -> Generation \cup {None}]
    BY <2>2, <2>9, GenerationsType
  <2>5. disk' = [disk EXCEPT !.gens = gens] /\ mem' = disk'
    BY <1>16 DEF Restart
  <2>6. disk' \in Image /\ mem' \in Image
    BY <2>3, <2>5 DEF TypeOK, Image
  <2>7. minted' \in Nat
    BY <1>16 DEF Restart, TypeOK
  <2> HIDE DEF gens
  <2>4. left' \in [Request -> Int] /\ foreign' \subseteq Request
    BY <1>16, RequestAssumption, BoundsAssumption DEF Restart, Lapse, TypeOK
  <2>. QED  BY <1>16, <2>2, <2>4, <2>6, <2>7 DEF Restart, TypeOK
<1>17. CASE Tick
  BY <1>17 DEF Tick, TypeOK
<1>18. CASE SessionChanges
  BY <1>18 DEF SessionChanges, TypeOK
<1>19. CASE OtherFault
  BY <1>19 DEF OtherFault, TypeOK
<1>20. ASSUME NEW t \in 0..MaxTime, Adjust(t) PROVE TypeOK'
  BY <1>20, BoundsAssumption DEF Adjust, TypeOK
<1>21. CASE UNCHANGED vars
  BY <1>21 DEF vars, TypeOK
<1>. QED
  BY <1>1, <1>2, <1>3, <1>4, <1>5, <1>6, <1>7, <1>8, <1>9, <1>10, <1>11, <1>12, <1>13,
     <1>14, <1>15, <1>16, <1>17, <1>18, <1>19, <1>20, <1>21 DEF Next, Handle

\* Every variable keeps its type: in particular each reservation and each
\* receipt, in memory and on disk, carries a minted generation.
THEOREM TypeCorrect == Spec => []TypeOK
BY InitType, NextType, PTL DEF Spec

-----------------------------------------------------------------------------
(***************************************************************************)
(* The inductive invariant                                                 *)
(***************************************************************************)

\* Whatever was recorded anywhere about a request makes it decided.
RecordedIsDecided ==
    \A r \in Request :
        (\/ mem.receipts[r] # None \/ disk.receipts[r] # None
         \/ effects[r] # 0 \/ r \in barred \/ \E a \in Answer : <<r, a>> \in sent)
        => r \in decided

\* A receipt on disk says whether the effect took place.
ReceiptsTellEffects ==
    \A r \in Request :
        disk.receipts[r] # None =>
            effects[r] = IF disk.receipts[r].response = "ack" THEN 1 ELSE 0

\* A reserved request has not taken effect.
ReservedHasNoEffect == \A r \in Request : pending[r] # None => effects[r] = 0

IInv == /\ TypeOK
        /\ PublishedIsCommitted
        /\ ForgottenBehindWatermark
        /\ RecordedIsDecided
        /\ ReceiptsTellEffects
        /\ ReservedHasNoEffect
        /\ AtMostOnce
        /\ AnswersAreTrue

Rest == /\ PublishedIsCommitted /\ ForgottenBehindWatermark /\ RecordedIsDecided
        /\ ReceiptsTellEffects /\ ReservedHasNoEffect /\ AtMostOnce /\ AnswersAreTrue

\* A transaction that only writes receipts without a response, and only
\* removes receipts behind its watermark, keeps the invariant.
LEMMA WriteKeeps ==
    ASSUME IInv, NEW o \in Outcome, NEW image \in Image, Transaction(o, image),
           UNCHANGED <<effects, sent>>,
           \A r \in Request : pending'[r] # None => pending[r] # None,
           image.high >= mem.high,
           \A r \in Request :
               \/ image.receipts[r] = mem.receipts[r]
               \/ image.receipts[r] = None /\ Lapse(r) < image.high
               \/ /\ image.receipts[r] # None /\ image.receipts[r].response = "silent"
                  /\ pending[r] # None,
           barred' \in SUBSET Request,
           \A r \in barred' : r \in barred \/ r \in decided'
    PROVE  Rest'
<1>1. mem = disk
  BY DEF IInv, PublishedIsCommitted, Transaction
<1>2. PublishedIsCommitted'
  BY <1>1 DEF Transaction, PublishedIsCommitted, Outcome, Reached
<1>3. disk' = disk \/ disk' = image
  BY DEF Transaction
<1>4. decided' = decided \cup {r \in Request : disk'.receipts[r] # None}
  BY DEF Transaction
<1>5. ForgottenBehindWatermark'
  <2> SUFFICES ASSUME NEW r \in decided', disk'.receipts[r] = None
               PROVE  Lapse(r) < disk'.high
    BY DEF ForgottenBehindWatermark
  <2>1. r \in decided
    BY <1>4
  <2>2. CASE disk' = disk
    BY <2>1, <2>2 DEF IInv, ForgottenBehindWatermark
  <2>3. CASE disk' = image
    <3>1. r \in Request /\ Lapse(r) \in Nat /\ mem.high \in Nat /\ image.high \in Nat
      BY <2>1, RequestAssumption, BoundsAssumption DEF IInv, TypeOK, Image, Lapse
    <3>2. image.receipts[r] = None
      BY <2>3
    <3>3. CASE image.receipts[r] = mem.receipts[r]
      <4>1. Lapse(r) < mem.high
        BY <1>1, <2>1, <3>2, <3>3 DEF IInv, ForgottenBehindWatermark
      <4>. QED  BY <2>3, <3>1, <4>1
    <3>. QED  BY <2>3, <3>1, <3>2, <3>3
  <2>. QED  BY <1>3, <2>2, <2>3
<1>6. RecordedIsDecided'
  <2>1. \A r \in Request : mem'.receipts[r] # None => r \in decided'
    BY <1>4 DEF Transaction, Reached, IInv, RecordedIsDecided
  <2>. QED  BY <1>4, <2>1 DEF IInv, RecordedIsDecided
<1>7. ReceiptsTellEffects'
  <2> SUFFICES ASSUME NEW r \in Request, disk'.receipts[r] # None
               PROVE  effects[r] = IF disk'.receipts[r].response = "ack" THEN 1 ELSE 0
    BY DEF ReceiptsTellEffects
  <2>. QED  BY <1>1, <1>3 DEF IInv, ReceiptsTellEffects, ReservedHasNoEffect
<1>8. ReservedHasNoEffect' /\ AtMostOnce' /\ AnswersAreTrue'
  BY DEF IInv, ReservedHasNoEffect, AtMostOnce, AnswersAreTrue
<1>. QED  BY <1>2, <1>5, <1>6, <1>7, <1>8 DEF Rest

\* A step that leaves storage, history and the set of reservations alone
\* keeps the invariant.
LEMMA QuietKeeps ==
    ASSUME IInv, UNCHANGED <<mem, disk, fault, effects, decided, barred, sent>>,
           \A r \in Request : pending'[r] # None => pending[r] # None
    PROVE  Rest'
BY DEF IInv, Rest, PublishedIsCommitted, ForgottenBehindWatermark, RecordedIsDecided,
       ReceiptsTellEffects, ReservedHasNoEffect, AtMostOnce, AnswersAreTrue

\* Admission by the clock excludes every decided request whose receipt is gone:
\* the watermark would lie after the request's window.
LEMMA AdmittedIsUndecided ==
    ASSUME IInv, NEW r \in Request, ~fault, dynamic_clock_safe, InWindow(r),
           mem.receipts[r] = None
    PROVE  r \notin decided
<1> SUFFICES ASSUME r \in decided PROVE FALSE
  OBVIOUS
<1>1. mem = disk
  BY DEF IInv, PublishedIsCommitted
<1>2. Lapse(r) < mem.high
  BY <1>1 DEF IInv, ForgottenBehindWatermark
<1>3. wall \in Nat /\ mem.high \in Nat /\ timestamp(r) \in Nat /\ Window \in Nat
  BY RequestAssumption, BoundsAssumption DEF IInv, TypeOK, Image
<1>. QED  BY <1>2, <1>3 DEF Lapse, InWindow, dynamic_clock_safe

\* A request that passes every check of its handler has not been decided before.
LEMMA DecideIsNew ==
    ASSUME IInv, NEW r \in Request, NEW o \in Outcome, Decide(r, o)
    PROVE  r \notin decided
BY AdmittedIsUndecided DEF Decide, Eligible, dynamic_current

\* The commit of a decision with its receipt keeps the invariant, whatever the store answers.
LEMMA DecideKeeps ==
    ASSUME IInv, NEW r \in Request, NEW o \in Outcome, Decide(r, o)
    PROVE  Rest'
<1> DEFINE receipt == [generation |-> pending[r].generation, response |-> Plan(r)]
           receipts == [mem.receipts EXCEPT ![r] = receipt]
<1>1. PICK h \in Highest({mem.high, wall}) : Transaction(o, Metadata(receipts, h, mem.gens))
  BY DEF Decide
<1> DEFINE image == Metadata(receipts, h, mem.gens)
<1>2. mem = disk /\ ~fault
  BY <1>1 DEF IInv, PublishedIsCommitted, Transaction
<1>3. /\ image.high >= mem.high /\ image.high \in Nat /\ mem.high \in Nat
      /\ image.receipts = receipts
  BY DEF Metadata, Highest, IInv, TypeOK, Image
<1>4. receipt # None /\ receipt.response = Plan(r) /\ Plan(r) \in Answer
  <2>1. receipt \in Receipt
    BY DEF Decide, Queued, IInv, TypeOK, Reservation, Receipt, Answer, Plan
  <2>. QED  BY <2>1, NoneAssumption DEF Plan, Answer
<1>20. DOMAIN mem.receipts = Request
  BY DEF IInv, TypeOK, Image
<1>5. receipts[r] = receipt
  BY <1>20
<1>6. \A q \in Request : q # r => receipts[q] = mem.receipts[q]
  BY DEF IInv, TypeOK, Image
<1>7. disk' = IF o \in Reached THEN image ELSE disk
  BY <1>1 DEF Transaction
<1>8. decided' = decided \cup {q \in Request : disk'.receipts[q] # None}
  BY <1>1 DEF Transaction
<1>9. r \notin decided /\ effects[r] = 0 /\ (\A a \in Answer : <<r, a>> \notin sent)
  BY DecideIsNew DEF IInv, RecordedIsDecided
<1>10. /\ effects' = IF o \in Reached /\ Plan(r) = "ack"
                     THEN [effects EXCEPT ![r] = @ + 1] ELSE effects
       /\ effects \in [Request -> Nat]
       /\ barred' = barred
  BY DEF Decide, IInv, TypeOK
<1>21. sent' = sent \/ (sent' = sent \cup {<<r, Plan(r)>>} /\ o = "ok")
  <2>1. sent' \in IF o = "ok" THEN {sent, sent \cup {<<r, Plan(r)>>}} ELSE {sent}
    BY DEF Decide
  <2>. QED  BY <2>1
<1>11. /\ \A q \in Request : q # r => effects'[q] = effects[q]
       /\ effects'[r] = IF o \in Reached /\ Plan(r) = "ack" THEN 1 ELSE 0
  BY <1>9, <1>10
<1>12. "ok" \in Reached
  BY DEF Reached
<1> HIDE DEF image, receipts, receipt
<1>13. PublishedIsCommitted'
  BY <1>1, <1>2 DEF Transaction, PublishedIsCommitted, Outcome, Reached, image
<1>14. ForgottenBehindWatermark'
  <2> SUFFICES ASSUME NEW q \in decided', disk'.receipts[q] = None
               PROVE  Lapse(q) < disk'.high
    BY DEF ForgottenBehindWatermark
  <2>1. q \in decided /\ q # r
    BY <1>8, <1>9
  <2>2. q \in Request /\ Lapse(q) \in Nat
    BY <2>1, RequestAssumption, BoundsAssumption DEF IInv, TypeOK, Lapse
  <2>3. Lapse(q) < disk.high
    BY <1>2, <1>3, <1>6, <1>7, <2>1, <2>2 DEF IInv, ForgottenBehindWatermark
  <2>. QED  BY <1>2, <1>3, <1>7, <2>2, <2>3
<1>15. RecordedIsDecided'
  <2>1. ASSUME NEW q \in Request, q # r,
               \/ mem'.receipts[q] # None \/ disk'.receipts[q] # None
               \/ effects'[q] # 0 \/ q \in barred' \/ \E a \in Answer : <<q, a>> \in sent'
        PROVE  q \in decided'
    <3>1. mem'.receipts[q] = mem.receipts[q]
      BY <1>1, <1>3, <1>6, <2>1 DEF Transaction, image
    <3>2. \A a \in Answer : <<q, a>> \in sent' => <<q, a>> \in sent
      BY <1>21, <2>1
    <3>. QED  BY <1>8, <1>10, <1>11, <2>1, <3>1, <3>2 DEF IInv, RecordedIsDecided
  <2>2. ASSUME \/ mem'.receipts[r] # None \/ disk'.receipts[r] # None
               \/ effects'[r] # 0 \/ r \in barred' \/ \E a \in Answer : <<r, a>> \in sent'
        PROVE  r \in decided'
    <3>1. CASE o \in Reached
      BY <1>3, <1>4, <1>5, <1>7, <1>8, <3>1
    <3>2. CASE o \notin Reached
      <4>1. mem' = mem /\ disk' = disk
        BY <1>1, <1>12, <3>2 DEF Transaction
      <4>. QED  BY <1>9, <1>10, <1>11, <1>12, <1>21, <2>2, <3>2, <4>1 DEF IInv, RecordedIsDecided
    <3>. QED  BY <3>1, <3>2
  <2>. QED  BY <2>1, <2>2 DEF RecordedIsDecided
<1>16. ReceiptsTellEffects'
  <2> SUFFICES ASSUME NEW q \in Request, disk'.receipts[q] # None
               PROVE  effects'[q] = IF disk'.receipts[q].response = "ack" THEN 1 ELSE 0
    BY DEF ReceiptsTellEffects
  <2>1. CASE q = r
    <3>1. disk.receipts[r] = None
      BY <1>9 DEF IInv, RecordedIsDecided
    <3>2. o \in Reached /\ disk'.receipts[r] = receipt
      BY <1>3, <1>5, <1>7, <2>1, <3>1
    <3>. QED  BY <1>4, <1>11, <2>1, <3>2
  <2>2. CASE q # r
    <3>1. disk'.receipts[q] = disk.receipts[q]
      BY <1>2, <1>3, <1>6, <1>7, <2>2
    <3>. QED  BY <1>11, <2>2, <3>1 DEF IInv, ReceiptsTellEffects
  <2>. QED  BY <2>1, <2>2
<1>17. ReservedHasNoEffect'
  <2>1. pending' = [pending EXCEPT ![r] = None] /\ pending \in [Request -> Reservation \cup {None}]
    BY DEF Decide, Release, Eligible, dynamic_current, IInv, TypeOK
  <2>. QED  BY <1>11, <2>1 DEF IInv, ReservedHasNoEffect
<1>18. AtMostOnce'
  BY <1>11 DEF IInv, AtMostOnce
<1>19. AnswersAreTrue'
  <2>1. ASSUME NEW q \in Request, q # r
        PROVE  /\ <<q, "ack">> \in sent' => effects'[q] = 1
               /\ <<q, "nak">> \in sent' => effects'[q] = 0
    BY <1>11, <1>21, <2>1 DEF IInv, AnswersAreTrue
  <2>2. /\ <<r, "ack">> \in sent' => effects'[r] = 1
        /\ <<r, "nak">> \in sent' => effects'[r] = 0
    BY <1>4, <1>9, <1>11, <1>12, <1>21 DEF Answer
  <2>. QED  BY <2>1, <2>2 DEF AnswersAreTrue
<1>. QED  BY <1>13, <1>14, <1>15, <1>16, <1>17, <1>18, <1>19 DEF Rest

\* Retiring reservations at a raised watermark is a write that keeps the invariant.
LEMMA RetireKeeps ==
    ASSUME IInv, NEW o \in Outcome, NEW S \in SUBSET Request, NEW h \in Nat, h >= mem.high,
           NEW gens \in [Sender -> Generation \cup {None}],
           Transaction(o, Metadata(Retire(Uncached(S)), h, gens)),
           UNCHANGED <<effects, sent>>,
           \A r \in Request : pending'[r] # None => pending[r] # None,
           barred' \in SUBSET Request,
           \A r \in barred' : r \in barred \/ r \in decided'
    PROVE  Rest'
<1> DEFINE image == Metadata(Retire(Uncached(S)), h, gens)
<1>1. image \in Image /\ image.high = h
  BY RetireType DEF IInv, TypeOK, Image, Metadata
<1>2. \A r \in Request :
        \/ image.receipts[r] = mem.receipts[r]
        \/ /\ image.receipts[r] # None /\ image.receipts[r].response = "silent"
           /\ pending[r] # None
  <2> SUFFICES ASSUME NEW r \in Request, r \in Uncached(S)
               PROVE  /\ image.receipts[r] # None /\ image.receipts[r].response = "silent"
                      /\ pending[r] # None
    BY DEF Metadata, Retire
  <2>1. image.receipts[r] = [generation |-> pending[r].generation, response |-> "silent"]
    BY DEF Metadata, Retire
  <2>2. pending[r] # None /\ pending[r] \in Reservation
    BY DEF Uncached, IInv, TypeOK
  <2>3. image.receipts[r] \in Receipt
    BY <2>1, <2>2 DEF Reservation, Receipt
  <2>. QED  BY <2>1, <2>2, <2>3, NoneAssumption
<1> HIDE DEF image
<1>3. Transaction(o, image) /\ image.high >= mem.high
  BY <1>1 DEF image
<1>. QED  BY <1>1, <1>2, <1>3, WriteKeeps

\* The background retirement of expired reservations keeps the invariant.
LEMMA RetireExpiredKeeps ==
    ASSUME IInv, NEW r \in Request, NEW o \in Outcome, retire_expired_dynamic(r, o),
           UNCHANGED <<effects, sent, barred>>,
           \A q \in Request : pending'[q] # None => pending[q] # None
    PROVE  Rest'
<1>1. PICK h \in Highest({mem.high, wall, After(r)}) :
        Transaction(o, Metadata(Retire(Uncached({r})), h, mem.gens))
  BY DEF retire_expired_dynamic
<1>2. h \in Nat /\ h >= mem.high
  BY RequestAssumption, BoundsAssumption DEF Highest, After, Lapse, IInv, TypeOK, Image
<1>3. mem.gens \in [Sender -> Generation \cup {None}] /\ barred' \in SUBSET Request
  BY DEF IInv, TypeOK, Image
<1>. QED  BY <1>1, <1>2, <1>3, RetireKeeps

\* After a transaction that reached the disk, the reservations it retires are
\* decided; before, the others already were.
LEMMA LostIsDecided ==
    ASSUME IInv, NEW o \in Reached, NEW S \in SUBSET Request, NEW h, NEW gens,
           Transaction(o, Metadata(Retire(Uncached(S)), h, gens)),
           NEW r \in S, pending[r] # None
    PROVE  r \in decided'
<1>1. decided' = decided \cup {q \in Request : disk'.receipts[q] # None}
  BY DEF Transaction
<1>2. CASE mem.receipts[r] # None
  BY <1>1, <1>2 DEF IInv, RecordedIsDecided
<1>3. CASE mem.receipts[r] = None
  <2>1. disk'.receipts[r] = [generation |-> pending[r].generation, response |-> "silent"]
    BY <1>3 DEF Transaction, Metadata, Retire, Uncached
  <2>2. pending[r] \in Reservation
    BY DEF IInv, TypeOK
  <2>3. disk'.receipts[r] \in Receipt
    BY <2>1, <2>2 DEF Reservation, Receipt
  <2>. QED  BY <1>1, <2>3, NoneAssumption
<1>. QED  BY <1>2, <1>3

\* An edit that detaches the reservations of changed senders keeps the invariant.
LEMMA ReconfigureKeeps ==
    ASSUME IInv, NEW o \in Outcome, NEW senders \in [Sender -> Signature \cup {None}],
           NEW reboot \in BOOLEAN, Reconfigure(o, senders, reboot),
           UNCHANGED <<effects, sent, pending>>
    PROVE  Rest'
<1> DEFINE gens == next_dynamic_generations(senders, mem.gens, minted + 1)
           lost == Outdated(gens, reboot)
<1>1. gens \in [Sender -> Generation \cup {None}]
  <2>1. mem.gens \in [Sender -> Generation \cup {None}] /\ minted + 1 \in Nat
    BY DEF IInv, TypeOK, Image
  <2>. QED  BY <2>1, GenerationsType
<1>2. /\ Transaction(o, Metadata(Retire(Uncached(lost)), mem.high, gens))
      /\ barred' = IF o \in Reached THEN barred \cup lost ELSE barred
  BY DEF Reconfigure
<1>3. lost \in SUBSET Request /\ (\A r \in lost : pending[r] # None)
  BY DEF Outdated
<1>4. mem.high \in Nat /\ barred \in SUBSET Request
  BY DEF IInv, TypeOK, Image
<1> HIDE DEF gens, lost
<1>5. \A r \in barred' : r \in barred \/ r \in decided'
  BY <1>2, <1>3, LostIsDecided
<1>6. barred' \in SUBSET Request /\ mem.high >= mem.high
  BY <1>2, <1>3, <1>4
<1>. QED  BY <1>1, <1>2, <1>3, <1>4, <1>5, <1>6, RetireKeeps

\* The inductive step: one case per action of the receiver.
LEMMA NextKeeps == IInv /\ [Next]_vars => IInv'
<1> SUFFICES ASSUME IInv, [Next]_vars PROVE Rest'
  BY NextType DEF IInv, Rest
<1> USE DEF clocks, stored, wiring, history
<1>1. ASSUME NEW r \in Request, Reserve(r) PROVE Rest'
  <2>1. r \notin decided /\ effects[r] = 0
    BY <1>1, AdmittedIsUndecided DEF Reserve, dynamic_current, IInv, RecordedIsDecided
  <2>2. \A q \in Request : q # r => pending'[q] = pending[q]
    BY <1>1 DEF Reserve, IInv, TypeOK
  <2>3. ReservedHasNoEffect'
    BY <1>1, <2>1, <2>2 DEF Reserve, IInv, ReservedHasNoEffect
  <2>. QED
    BY <1>1, <2>3 DEF Reserve, IInv, Rest, PublishedIsCommitted, ForgottenBehindWatermark,
       RecordedIsDecided, ReceiptsTellEffects, AtMostOnce, AnswersAreTrue
<1>2. ASSUME NEW r \in Request, Resend(r) PROVE Rest'
  <2>1. mem = disk /\ disk.receipts[r] # None /\ disk.receipts[r].response \in Answer
    BY <1>2 DEF Resend, dynamic_current, IInv, PublishedIsCommitted
  <2>2. r \in decided /\ effects[r] = IF disk.receipts[r].response = "ack" THEN 1 ELSE 0
    BY <2>1 DEF IInv, RecordedIsDecided, ReceiptsTellEffects
  <2>3. sent' = sent \cup {<<r, disk.receipts[r].response>>}
    BY <1>2, <2>1 DEF Resend
  <2>4. UNCHANGED <<mem, disk, fault, effects, decided, barred, pending>>
    BY <1>2 DEF Resend
  <2>5. AnswersAreTrue'
    BY <2>1, <2>2, <2>3, <2>4 DEF IInv, AnswersAreTrue, Answer
  <2>6. RecordedIsDecided'
    BY <2>2, <2>3, <2>4 DEF IInv, RecordedIsDecided
  <2>. QED
    BY <2>4, <2>5, <2>6 DEF IInv, Rest, PublishedIsCommitted, ForgottenBehindWatermark,
       ReceiptsTellEffects, ReservedHasNoEffect, AtMostOnce
<1>3. ASSUME NEW r \in Request, HandleStale(r) PROVE Rest'
  <2>1. \A q \in Request : pending'[q] # None => pending[q] # None
    BY <1>3 DEF HandleStale, Queued, Release, IInv, TypeOK
  <2>. QED  BY <1>3, <2>1, QuietKeeps DEF HandleStale
<1>4. ASSUME NEW r \in Request, NEW o \in Outcome, HandleExpired(r, o) PROVE Rest'
  <2>1. \A q \in Request : pending'[q] # None => pending[q] # None
    BY <1>4 DEF HandleExpired, Queued, Release, Keep, IInv, TypeOK
  <2>2. CASE fault
    BY <1>4, <2>1, <2>2, QuietKeeps DEF HandleExpired
  <2>3. CASE ~fault
    BY <1>4, <2>1, <2>3, RetireExpiredKeeps DEF HandleExpired
  <2>. QED  BY <2>2, <2>3
<1>5. ASSUME NEW r \in Request, NEW o \in Outcome, Decide(r, o) PROVE Rest'
  BY <1>5, DecideKeeps
<1>6. ASSUME NEW r \in Request, NEW o \in Outcome, PruneReservation(r, o) PROVE Rest'
  <2>1. \A q \in Request : pending'[q] # None => pending[q] # None
    BY <1>6 DEF PruneReservation, IInv, TypeOK
  <2>. QED  BY <1>6, <2>1, RetireExpiredKeeps DEF PruneReservation
<1>7. ASSUME NEW o \in Outcome, PruneReceipts(o) PROVE Rest'
  <2> DEFINE expired == {r \in Request : mem.receipts[r] # None /\ dynamic_expired(r)}
             receipts == [r \in Request |-> IF r \in expired THEN None ELSE mem.receipts[r]]
             marks == {mem.high, wall} \cup {After(r) : r \in expired}
  <2>1. PICK h \in Highest(marks) : Transaction(o, Metadata(receipts, h, mem.gens))
    BY <1>7 DEF PruneReceipts
  <2>2. h \in Nat /\ mem.high \in Nat
    BY RequestAssumption, BoundsAssumption DEF Highest, After, Lapse, IInv, TypeOK, Image
  <2>3. h >= mem.high /\ \A r \in expired : After(r) <= h
    BY <2>2 DEF Highest
  <2>4. \A r \in expired : Lapse(r) < h
    BY <2>2, <2>3, RequestAssumption, BoundsAssumption DEF After, Lapse
  <2> DEFINE image == Metadata(receipts, h, mem.gens)
  <2>5. image \in Image /\ image.high = h /\ image.receipts = receipts
    BY <2>2 DEF Metadata, Image, IInv, TypeOK
  <2>6. \A r \in Request : \/ image.receipts[r] = mem.receipts[r]
                           \/ image.receipts[r] = None /\ Lapse(r) < image.high
    BY <2>4, <2>5
  <2>7. UNCHANGED <<effects, sent, barred, pending>> /\ barred \in SUBSET Request
    BY <1>7 DEF PruneReceipts, IInv, TypeOK
  <2>8. Transaction(o, image) /\ image.high >= mem.high
    BY <2>1, <2>3, <2>5
  <2> HIDE DEF image
  <2>. QED  BY <2>5, <2>6, <2>7, <2>8, WriteKeeps
<1>8. ASSUME NEW o \in Outcome, SaveStartup(o) PROVE Rest'
  <2> DEFINE image == [mem EXCEPT !.saved = [senders |-> Running, binding |-> binding]]
  <2>1. image \in Image
    BY RunningType DEF IInv, TypeOK, Image, Startup
  <2>2. image.receipts = mem.receipts /\ image.high = mem.high /\ mem.high \in Nat
    BY DEF IInv, TypeOK, Image
  <2>3. UNCHANGED <<effects, sent, barred, pending>> /\ Transaction(o, image)
        /\ barred \in SUBSET Request
    BY <1>8 DEF SaveStartup, IInv, TypeOK
  <2> HIDE DEF image
  <2>. QED  BY <2>1, <2>2, <2>3, WriteKeeps
<1>9. ASSUME NEW o \in Outcome, Reboot(o) PROVE Rest'
  <2>1. mem.saved \in Startup
    BY DEF IInv, TypeOK, Image
  <2>2. mem.saved.senders \in [Sender -> Signature \cup {None}]
    BY <2>1 DEF Startup
  <2>. QED  BY <1>9, <2>2, ReconfigureKeeps DEF Reboot
<1>10. ASSUME NEW o \in Outcome, FinishClose(o) PROVE Rest'
  <2> DEFINE held == {r \in Request : pending[r] # None}
  <2>1. /\ barred' = IF o \in Reached THEN barred \cup held ELSE barred
        /\ UNCHANGED <<effects, sent>>
    BY <1>10 DEF FinishClose
  <2>2. \A r \in Request : pending'[r] # None => pending[r] # None
    BY <1>10 DEF FinishClose
  <2>3. CASE Uncached(held) = {}
    <3>1. UNCHANGED <<mem, disk, fault, decided>>
      BY <1>10, <2>3 DEF FinishClose
    <3>2. \A r \in held : r \in decided
      BY <2>3 DEF Uncached, IInv, RecordedIsDecided
    <3>3. RecordedIsDecided'
      BY <2>1, <3>1, <3>2 DEF IInv, RecordedIsDecided
    <3>. QED
      BY <2>1, <2>2, <3>1, <3>3 DEF IInv, Rest, PublishedIsCommitted, AnswersAreTrue,
         ForgottenBehindWatermark, ReceiptsTellEffects, ReservedHasNoEffect, AtMostOnce
  <2>4. CASE Uncached(held) # {}
    <3>1. Transaction(o, Metadata(Retire(Uncached(held)), mem.high, mem.gens))
      BY <1>10, <2>4 DEF FinishClose
    <3>2. held \in SUBSET Request /\ \A r \in held : pending[r] # None
      OBVIOUS
    <3>3. /\ mem.high \in Nat /\ mem.high >= mem.high /\ barred \in SUBSET Request
          /\ mem.gens \in [Sender -> Generation \cup {None}]
      BY DEF IInv, TypeOK, Image
    <3> HIDE DEF held
    <3>4. \A r \in barred' : r \in barred \/ r \in decided'
      BY <2>1, <3>1, <3>2, LostIsDecided
    <3>5. barred' \in SUBSET Request
      BY <2>1, <3>2, <3>3
    <3>. QED  BY <2>1, <2>2, <3>1, <3>2, <3>3, <3>4, <3>5, RetireKeeps
  <2>. QED  BY <2>3, <2>4
<1>11. ASSUME NEW s \in Sender, NEW x \in Policy, NEW o \in Outcome, EditSender(s, x, o)
       PROVE  Rest'
  <2>1. [Running EXCEPT ![s] = x] \in [Sender -> Signature \cup {None}]
    BY RunningType DEF Signature, IInv
  <2>. QED  BY <1>11, <2>1, ReconfigureKeeps DEF EditSender
<1>12. ASSUME NEW b \in Settings, NEW o \in Outcome, EditSettings(b, o) PROVE Rest'
  <2>1. mem \in Image /\ mem.high >= mem.high /\ barred \in SUBSET Request
    BY DEF IInv, TypeOK, Image
  <2>. QED  BY <1>12, <2>1, WriteKeeps DEF EditSettings
<1>13. CASE OpenListener
  <2>1. \A r \in Request : pending'[r] # None => pending[r] # None
    BY <1>13 DEF OpenListener, Detach
  <2>. QED  BY <1>13, <2>1, QuietKeeps DEF OpenListener
<1>14. CASE ListenerReady
  BY <1>14, QuietKeeps DEF ListenerReady
<1>15. CASE BeginClose
  BY <1>15, QuietKeeps DEF BeginClose
<1>16. ASSUME NEW host \in BOOLEAN, Restart(host) PROVE Rest'
  <2>1. /\ mem' = disk' /\ UNCHANGED <<effects, decided, barred, sent>>
        /\ pending' = [r \in Request |-> None]
    BY <1>16 DEF Restart
  <2>2. disk'.receipts = disk.receipts /\ disk'.high = disk.high
    BY <1>16 DEF Restart, IInv, TypeOK, Image
  <2>. QED
    BY <2>1, <2>2 DEF IInv, Rest, PublishedIsCommitted, ForgottenBehindWatermark,
       RecordedIsDecided, ReceiptsTellEffects, ReservedHasNoEffect, AtMostOnce, AnswersAreTrue
<1>17. CASE Tick
  BY <1>17, QuietKeeps DEF Tick
<1>18. CASE SessionChanges
  BY <1>18, QuietKeeps DEF SessionChanges
<1>19. CASE OtherFault
  BY <1>19 DEF OtherFault, IInv, Rest, PublishedIsCommitted, ForgottenBehindWatermark,
       RecordedIsDecided, ReceiptsTellEffects, ReservedHasNoEffect, AtMostOnce, AnswersAreTrue
<1>20. ASSUME NEW t \in 0..MaxTime, Adjust(t) PROVE Rest'
  BY <1>20, QuietKeeps DEF Adjust
<1>21. CASE UNCHANGED vars
  BY <1>21, QuietKeeps DEF vars
<1>. QED
  BY <1>1, <1>2, <1>3, <1>4, <1>5, <1>6, <1>7, <1>8, <1>9, <1>10, <1>11, <1>12, <1>13,
     <1>14, <1>15, <1>16, <1>17, <1>18, <1>19, <1>20, <1>21 DEF Next, Handle

\* The invariant holds at a first start, where nothing was decided.
LEMMA InitIInv == Init => IInv
<1> SUFFICES ASSUME Init PROVE Rest
  BY InitType DEF IInv, Rest
<1>1. /\ mem = disk /\ disk.receipts = [r \in Request |-> None]
      /\ decided = {} /\ barred = {} /\ sent = {} /\ effects = [r \in Request |-> 0]
      /\ pending = [r \in Request |-> None]
  BY DEF Init
<1>. QED
  BY <1>1 DEF Rest, PublishedIsCommitted, ForgottenBehindWatermark,
     RecordedIsDecided, ReceiptsTellEffects, ReservedHasNoEffect, AtMostOnce, AnswersAreTrue

\* The strengthened invariant holds in every reachable state.
LEMMA Inductive == Spec => []IInv
BY InitIInv, NextKeeps, PTL DEF Spec

-----------------------------------------------------------------------------
(***************************************************************************)
(* Theorems                                                                *)
(***************************************************************************)

\* No datagram takes effect twice, for any number of retransmissions,
\* restarts, storage failures and clock steps.
THEOREM ExactlyOnceEffect == Spec => []AtMostOnce
BY Inductive, PTL DEF IInv

\* Every ACK that leaves the switch reports a committed effect, every NAK
\* the absence of one.
THEOREM TruthfulAnswers == Spec => []AnswersAreTrue
BY Inductive, PTL DEF IInv

\* Pruning never forgets a decision that the clock check would not exclude.
THEOREM SafePruning == Spec => []ForgottenBehindWatermark
BY Inductive, PTL DEF IInv

\* Without a latched fault, what handlers read in memory is what is committed.
THEOREM PublicationFollowsCommit == Spec => []PublishedIsCommitted
BY Inductive, PTL DEF IInv

\* No single step changes a decision that is committed.
LEMMA StepIsFinal ==
    IInv /\ [Next]_vars => [\A r \in decided : effects'[r] = effects[r]]_vars
<1> SUFFICES ASSUME IInv, Next, NEW r \in decided PROVE effects'[r] = effects[r]
  OBVIOUS
<1> USE DEF clocks, stored, wiring, history
<1>1. ASSUME NEW q \in Request, NEW o \in Outcome, Decide(q, o)
      PROVE  effects'[r] = effects[r]
  <2>1. q # r
    BY <1>1, DecideIsNew
  <2>2. effects \in [Request -> Nat] /\ decided \subseteq Request
    BY DEF IInv, TypeOK
  <2>. QED  BY <1>1, <2>1, <2>2 DEF Decide
<1>2. CASE ~ \E q \in Request, o \in Outcome : Decide(q, o)
  BY <1>2 DEF Next, Handle, Reserve, Resend, HandleStale, HandleExpired, PruneReservation,
     PruneReceipts, SaveStartup, Reboot, FinishClose, EditSender, EditSettings, OpenListener,
     ListenerReady, BeginClose, Restart, Tick, SessionChanges, OtherFault, Adjust
<1>. QED  BY <1>1, <1>2

\* A committed decision, of whatever kind, is final.
THEOREM FinalDecisions == Spec => DecisionIsFinal
BY Inductive, StepIsFinal, PTL DEF Spec, DecisionIsFinal

\* No single step gives effect to a request a boundary has caught.
LEMMA StepIsBarred ==
    IInv /\ [Next]_vars => [\A r \in barred : effects'[r] = effects[r]]_vars
<1>1. IInv => barred \subseteq decided
  BY DEF IInv, TypeOK, RecordedIsDecided
<1>. QED  BY <1>1, StepIsFinal

\* A request overtaken by a generation change, a reboot or a shutdown never
\* takes effect afterwards.
THEOREM BoundariesBar == Spec => BoundaryBars
BY Inductive, StepIsBarred, PTL DEF Spec, BoundaryBars

-----------------------------------------------------------------------------
(***************************************************************************)
(* The capacity                                                            *)
(***************************************************************************)

\* Fingerprints with a receipt in the store.
OnDisk == {r \in Request : disk.receipts[r] # None}

\* Request may be infinite; what is reserved or recorded is finite and fits.
Counted ==
    /\ IsFiniteSet(Reserved) /\ Cardinality(Reserved) <= Capacity
    /\ IsFiniteSet(OnDisk) /\ Cardinality(OnDisk) <= Capacity

\* What a step does to the two counted sets: nothing enters them from outside.
Confined ==
    /\ Reserved' \subseteq Reserved \/ Reserved' \subseteq OnDisk
    /\ OnDisk' \subseteq Reserved \/ OnDisk' \subseteq OnDisk

\* A subset of a counted set is counted.
LEMMA CountSubset ==
    ASSUME NEW S, NEW T, IsFiniteSet(S), Cardinality(S) <= Capacity, T \subseteq S
    PROVE  IsFiniteSet(T) /\ Cardinality(T) <= Capacity
<1>1. IsFiniteSet(T) /\ Cardinality(T) <= Cardinality(S)
  BY FS_Subset
<1>2. Cardinality(T) \in Nat /\ Cardinality(S) \in Nat
  BY <1>1, FS_CardinalityType
<1>. QED  BY <1>1, <1>2, BoundsAssumption

\* A transaction that writes receipts only for what is cached or reserved, and
\* makes no reservation, moves requests between the two at most.
LEMMA TransactionConfined ==
    ASSUME NEW o \in Outcome, NEW image, Transaction(o, image),
           \A r \in Request : image.receipts[r] # None => r \in Reserved,
           \A r \in Request : pending'[r] # None => pending[r] # None
    PROVE  Confined
<1>1. mem' = mem \/ mem' = image
  BY DEF Transaction
<1>2. disk' = disk \/ disk' = image
  BY DEF Transaction
<1>. QED  BY <1>1, <1>2 DEF Confined, Reserved, OnDisk

\* A step that leaves storage alone and makes no reservation.
LEMMA QuietConfined ==
    ASSUME UNCHANGED <<mem, disk>>,
           \A r \in Request : pending'[r] # None => pending[r] # None
    PROVE  Confined
BY DEF Confined, Reserved, OnDisk

\* Receipts are written for reservations only.
LEMMA RetireReserved ==
    ASSUME NEW S, NEW h, NEW g, NEW r \in Request,
           Metadata(Retire(Uncached(S)), h, g).receipts[r] # None
    PROVE  r \in Reserved
<1>1. Metadata(Retire(Uncached(S)), h, g).receipts = Retire(Uncached(S))
  BY DEF Metadata
<1>2. Retire(Uncached(S))[r] # None
  BY <1>1
<1>3. r \in Uncached(S) \/ mem.receipts[r] # None
  BY <1>2 DEF Retire
<1>. QED  BY <1>3 DEF Reserved, Uncached

\* A task that ends, or a reservation that is kept, makes none.
LEMMA ReleaseShrinks ==
    ASSUME TypeOK, NEW r \in Request, pending[r] # None, Release(r) \/ Keep(r)
    PROVE  \A q \in Request : pending'[q] # None => pending[q] # None
BY DEF Release, Keep, TypeOK

\* Retiring what expired.
LEMMA ExpiredConfined ==
    ASSUME NEW r \in Request, NEW o \in Outcome, retire_expired_dynamic(r, o),
           \A q \in Request : pending'[q] # None => pending[q] # None
    PROVE  Confined
<1>1. PICK h \in Highest({mem.high, wall, After(r)}) :
        Transaction(o, Metadata(Retire(Uncached({r})), h, mem.gens))
  BY DEF retire_expired_dynamic
<1>. QED  BY <1>1, RetireReserved, TransactionConfined

\* Edits of senders and reboots retire reservations in their transaction.
LEMMA ReconfigureConfined ==
    ASSUME NEW o \in Outcome, NEW senders, NEW reboot, Reconfigure(o, senders, reboot),
           UNCHANGED pending
    PROVE  Confined
<1> DEFINE gens == next_dynamic_generations(senders, mem.gens, minted + 1)
           image == Metadata(Retire(Uncached(Outdated(gens, reboot))), mem.high, gens)
<1>1. Transaction(o, image)
  BY DEF Reconfigure
<1>2. \A r \in Request : image.receipts[r] # None => r \in Reserved
  BY RetireReserved
<1>. HIDE DEF image
<1>. QED  BY <1>1, <1>2, TransactionConfined

\* Only a new reservation adds to what is counted, and only below the limit.
LEMMA CapacityStep ==
    ASSUME IInv, [Next]_vars
    PROVE  \/ Confined
           \/ \E r \in Request : /\ Reserved' = Reserved \cup {r} /\ OnDisk' = OnDisk
                                 /\ Cardinality(Reserved) < Capacity
<1>0. TypeOK
  BY DEF IInv
<1>. USE <1>0
<1>1. ASSUME NEW r \in Request, Reserve(r)
      PROVE  /\ Reserved' = Reserved \cup {r} /\ OnDisk' = OnDisk
             /\ Cardinality(Reserved) < Capacity
  <2>1. Cardinality(Reserved) < Capacity
    BY <1>1 DEF Reserve
  <2>2. UNCHANGED <<mem, disk>>
    BY <1>1 DEF Reserve, stored
  <2>3. /\ pending'[r] # None
        /\ \A q \in Request \ {r} : pending'[q] = pending[q]
    <3>1. PICK v \in Reservation : pending' = [pending EXCEPT ![r] = v]
      <4>1. mem.gens[sender(r)].number \in Nat
        BY <1>1, RequestAssumption, NoneAssumption DEF Reserve, Trusted, TypeOK, Image, Generation
      <4>. QED  BY <1>1, <4>1 DEF Reserve, Reservation, TypeOK
    <3>. QED  BY <3>1, NoneAssumption DEF TypeOK
  <2>. QED  BY <2>1, <2>2, <2>3 DEF Reserved, OnDisk
<1>2. ASSUME NEW r \in Request, Resend(r) PROVE Confined
  BY <1>2, QuietConfined DEF Resend, stored
<1>3. ASSUME NEW r \in Request, HandleStale(r) PROVE Confined
  BY <1>3, QuietConfined, ReleaseShrinks DEF HandleStale, Queued, stored
<1>4. ASSUME NEW r \in Request, NEW o \in Outcome, HandleExpired(r, o) PROVE Confined
  <2>1. \A q \in Request : pending'[q] # None => pending[q] # None
    BY <1>4, ReleaseShrinks DEF HandleExpired, Queued
  <2>. QED  BY <1>4, <2>1, ExpiredConfined, QuietConfined DEF HandleExpired, stored
<1>5. ASSUME NEW r \in Request, NEW o \in Outcome, Decide(r, o) PROVE Confined
  <2>1. \A q \in Request : pending'[q] # None => pending[q] # None
    BY <1>5, ReleaseShrinks DEF Decide, Queued
  <2>2. PICK h, v : Transaction(o, Metadata([mem.receipts EXCEPT ![r] = v], h, mem.gens))
    BY <1>5 DEF Decide
  <2>3. \A q \in Request : [mem.receipts EXCEPT ![r] = v][q] # None => q \in Reserved
    BY <1>5 DEF Decide, Queued, Reserved, TypeOK, Image
  <2> DEFINE image == Metadata([mem.receipts EXCEPT ![r] = v], h, mem.gens)
  <2>4. \A q \in Request : image.receipts[q] # None => q \in Reserved
    BY <2>3 DEF Metadata
  <2>5. Transaction(o, image)
    BY <2>2
  <2>. HIDE DEF image
  <2>. QED  BY <2>1, <2>4, <2>5, TransactionConfined
<1>6. ASSUME NEW r \in Request, NEW o \in Outcome, PruneReservation(r, o) PROVE Confined
  <2>1. \A q \in Request : pending'[q] # None => pending[q] # None
    BY <1>6 DEF PruneReservation, TypeOK
  <2>. QED  BY <1>6, <2>1, ExpiredConfined DEF PruneReservation
<1>7. ASSUME NEW o \in Outcome, PruneReceipts(o) PROVE Confined
  <2> DEFINE expired == {r \in Request : mem.receipts[r] # None /\ dynamic_expired(r)}
             kept == [r \in Request |-> IF r \in expired THEN None ELSE mem.receipts[r]]
  <2>1. PICK h : Transaction(o, Metadata(kept, h, mem.gens))
    BY <1>7 DEF PruneReceipts
  <2> DEFINE image == Metadata(kept, h, mem.gens)
  <2>2. \A q \in Request : image.receipts[q] # None => q \in Reserved
    BY DEF Metadata, Reserved
  <2>3. UNCHANGED pending /\ Transaction(o, image)
    BY <1>7, <2>1 DEF PruneReceipts
  <2>. HIDE DEF image
  <2>. QED  BY <2>2, <2>3, TransactionConfined
<1>8. ASSUME NEW o \in Outcome, SaveStartup(o) PROVE Confined
  <2> DEFINE image == [mem EXCEPT !.saved = [senders |-> Running, binding |-> binding]]
  <2>1. Transaction(o, image) /\ UNCHANGED pending
    BY <1>8 DEF SaveStartup
  <2>2. \A q \in Request : image.receipts[q] # None => q \in Reserved
    BY DEF Reserved, TypeOK, Image
  <2>. HIDE DEF image
  <2>. QED  BY <2>1, <2>2, TransactionConfined
<1>9. ASSUME NEW o \in Outcome, Reboot(o) PROVE Confined
  BY <1>9, ReconfigureConfined DEF Reboot
<1>10. ASSUME NEW o \in Outcome, FinishClose(o) PROVE Confined
  <2> DEFINE held == {r \in Request : pending[r] # None}
  <2>1. \A q \in Request : pending'[q] # None => pending[q] # None
    BY <1>10 DEF FinishClose
  <2>2. \/ UNCHANGED stored
        \/ Transaction(o, Metadata(Retire(Uncached(held)), mem.high, mem.gens))
    BY <1>10 DEF FinishClose
  <2>. QED  BY <2>1, <2>2, QuietConfined, RetireReserved, TransactionConfined DEF stored
<1>11. ASSUME NEW s \in Sender, NEW x \in Policy, NEW o \in Outcome, EditSender(s, x, o)
       PROVE  Confined
  BY <1>11, ReconfigureConfined DEF EditSender
<1>12. ASSUME NEW b \in Settings, NEW o \in Outcome, EditSettings(b, o) PROVE Confined
  <2>1. Transaction(o, mem) /\ UNCHANGED pending
    BY <1>12 DEF EditSettings
  <2>. QED  BY <2>1, TransactionConfined DEF Reserved
<1>13. CASE OpenListener
  BY <1>13, QuietConfined DEF OpenListener, Detach, stored
<1>14. CASE ListenerReady \/ BeginClose \/ Tick \/ SessionChanges \/ OtherFault \/ UNCHANGED vars
  BY <1>14, QuietConfined DEF ListenerReady, BeginClose, Tick, SessionChanges, OtherFault, vars, stored
<1>15. ASSUME NEW t \in 0..MaxTime, Adjust(t) PROVE Confined
  BY <1>15, QuietConfined DEF Adjust, stored
<1>16. ASSUME NEW host \in BOOLEAN, Restart(host) PROVE Confined
  <2>1. mem' = disk' /\ disk'.receipts = disk.receipts /\ pending' = [r \in Request |-> None]
    BY <1>16 DEF Restart, TypeOK, Image
  <2>. QED  BY <2>1 DEF Confined, Reserved, OnDisk
<1>. QED
  BY <1>1, <1>2, <1>3, <1>4, <1>5, <1>6, <1>7, <1>8, <1>9, <1>10, <1>11, <1>12, <1>13,
     <1>14, <1>15, <1>16 DEF Next, Handle

\* The counts survive a step.
LEMMA CountedStep == ASSUME IInv, Counted, [Next]_vars PROVE Counted'
<1>1. /\ IsFiniteSet(Reserved) /\ Cardinality(Reserved) <= Capacity
      /\ IsFiniteSet(OnDisk) /\ Cardinality(OnDisk) <= Capacity
  BY DEF Counted
<1>2. CASE Confined
  <2>1. IsFiniteSet(Reserved') /\ Cardinality(Reserved') <= Capacity
    BY <1>1, <1>2, CountSubset DEF Confined
  <2>2. IsFiniteSet(OnDisk') /\ Cardinality(OnDisk') <= Capacity
    BY <1>1, <1>2, CountSubset DEF Confined
  <2>. QED  BY <2>1, <2>2 DEF Counted
<1>3. ASSUME NEW r \in Request, Reserved' = Reserved \cup {r}, OnDisk' = OnDisk,
             Cardinality(Reserved) < Capacity
      PROVE  Counted'
  <2>1. /\ IsFiniteSet(Reserved \cup {r})
        /\ \/ Cardinality(Reserved \cup {r}) = Cardinality(Reserved)
           \/ Cardinality(Reserved \cup {r}) = Cardinality(Reserved) + 1
    BY <1>1, FS_AddElement
  <2>2. Cardinality(Reserved) \in Nat
    BY <1>1, FS_CardinalityType
  <2>3. Cardinality(Reserved \cup {r}) <= Capacity
    BY <1>3, <2>1, <2>2, BoundsAssumption
  <2>. QED  BY <1>1, <1>3, <2>1, <2>3 DEF Counted
<1>. QED  BY <1>2, <1>3, CapacityStep

\* Receipts and reservations together never exceed the capacity that the next
\* process insists on when it loads them, also when a decision or a retirement
\* reached the disk in a commit of unknown outcome.
THEOREM ReceiptsLoad == Spec => []WithinCapacity
<1>1. Init => Counted
  <2> SUFFICES ASSUME Init PROVE Counted
    OBVIOUS
  <2>1. Reserved = {} /\ OnDisk = {}
    BY DEF Init, Reserved, OnDisk
  <2>. QED  BY <2>1, FS_EmptySet, BoundsAssumption DEF Counted
<1>2. Counted => WithinCapacity
  BY DEF Counted, WithinCapacity, Reserved, OnDisk
<1>. QED  BY <1>1, <1>2, CountedStep, Inductive, PTL DEF Spec

=============================================================================
