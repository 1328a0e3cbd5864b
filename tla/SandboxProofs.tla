--------------------------- MODULE SandboxProofs ---------------------------
(* TLAPS proofs about Sandbox. *)
EXTENDS Sandbox, FiniteSetTheorems, TLAPS

USE ConstantsAssumption

\* Handles are the naturals up to the number of resets.
LEMMA HandlesNat ==
  /\ Handles \subseteq Nat
  /\ 0 \in Handles /\ 1 \in Handles
  /\ \A h \in Handles : h <= MaxResets => h + 1 \in Handles
BY DEF Handles

\* One more concluded run raises the number of concluded runs by one.
LEMMA CountOneMore ==
  ASSUME NEW S \in SUBSET Exec, NEW x \in Exec, x \notin S,
         NEW k, k[x] = "run"
  PROVE  /\ Cardinality({e \in S \cup {x} : k[e] = "run"})
              = Cardinality({e \in S : k[e] = "run"}) + 1
         /\ Cardinality({e \in S : k[e] = "run"}) \in Nat
<1> DEFINE T == {e \in S : k[e] = "run"}
<1>1. IsFiniteSet(T)
  BY FS_Subset
<1>2. {e \in S \cup {x} : k[e] = "run"} = T \cup {x}
  OBVIOUS
<1>3. x \notin T
  OBVIOUS
<1> QED
  BY <1>1, <1>2, <1>3, FS_AddElement, FS_CardinalityType

LEMMA InitIndInv == Init => IndInv
<1> SUFFICES ASSUME Init PROVE IndInv
  OBVIOUS
<1>1. TypeOK
  BY HandlesNat DEF Init, TypeOK, States, Methods, Phases, Kinds, Handles
<1>2. Ownership /\ Borrow /\ Kinded /\ QuotaRoom
  BY HandlesNat DEF Init, Ownership, InstanceIsCurrent, Borrow, Kinded, QuotaRoom, Active, Returned
<1>3. {e \in concluded : kind[e] = "run"} = {}
  BY DEF Init
<1>4. Recorded
  BY <1>3, FS_EmptySet DEF Init, Recorded, RunsAccounted, Active, Returned
<1> QED
  BY <1>1, <1>2, <1>4 DEF IndInv

\* try_acquire leaves the bucket between empty and its capacity.
LEMMA AcquireType ==
  TypeOK /\ Acquire => /\ tokens' \in [Handles -> 0 .. Burst]
                       /\ executions' \in [Handles -> Nat]
<1> SUFFICES ASSUME TypeOK, Acquire
             PROVE  tokens' \in [Handles -> 0 .. Burst] /\ executions' \in [Handles -> Nat]
  OBVIOUS
<1>1. limiter \in Handles /\ tokens[limiter] \in 0 .. Burst /\ executions' = executions
  BY DEF TypeOK, Acquire
<1>2. CASE Limited
  <2>1. tokens[limiter] - 1 \in 0 .. Burst
    BY <1>1, <1>2 DEF Acquire, MayAcquire
  <2>2. tokens' = [tokens EXCEPT ![limiter] = tokens[limiter] - 1]
    BY <1>2 DEF Acquire
  <2> QED
    BY <1>1, <2>1, <2>2 DEF TypeOK
<1>3. CASE ~Limited
  BY <1>1, <1>3 DEF Acquire, TypeOK
<1> QED
  BY <1>2, <1>3

\* record_execution keeps the counters naturals.
LEMMA RecordType ==
  ASSUME TypeOK, NEW l \in Handles, RecordExecution(l)
  PROVE  executions' \in [Handles -> Nat]
<1>1. executions[l] + 1 \in Nat
  BY DEF TypeOK
<1> QED
  BY <1>1 DEF TypeOK, RecordExecution

\* Every step keeps the type invariant.
LEMMA TypeNext == IndInv /\ [Next]_vars => TypeOK'
<1> SUFFICES ASSUME IndInv, [Next]_vars PROVE TypeOK'
  OBVIOUS
<1> USE HandlesNat DEF IndInv, TypeOK, States, Methods, Phases, Kinds, Returned
<1>1. CASE Create
  BY <1>1 DEF Create, guestVars, limitVars, recordVars
<1>2. ASSUME NEW e \in Exec, RunEnter(e) PROVE TypeOK'
  BY <1>2, AcquireType DEF RunEnter, Start, handleVars
<1>3. ASSUME NEW e \in Exec, NEW k \in Kinds, EnterFails(e, k) PROVE TypeOK'
  BY <1>3, AcquireType DEF EnterFails, Start, handleVars
<1>4. ASSUME NEW e \in Exec, CallEnter(e) PROVE TypeOK'
  BY <1>4, AcquireType DEF CallEnter, Start, recordVars
<1>5. ASSUME NEW e \in Exec, StreamEnter(e) PROVE TypeOK'
  BY <1>5, AcquireType DEF StreamEnter, Start, handleVars
<1>6. CASE CallEnterFails
  BY <1>6, AcquireType DEF CallEnterFails, handleVars, guestVars, recordVars
<1>7. ASSUME NEW S \in SUBSET Exec, BatchEnter(S) PROVE TypeOK'
  BY <1>7 DEF BatchEnter, handleVars, limitVars, recordVars
<1>8. ASSUME NEW e \in Exec, BatchTask(e) PROVE TypeOK'
  BY <1>8 DEF BatchTask, guestVars, handleVars, limitVars, recordVars
<1>9. ASSUME NEW e \in Exec, NEW p \in Returned, Returns(e, p) PROVE TypeOK'
  BY <1>9 DEF Returns, guestVars, handleVars, limitVars, recordVars
<1>10. ASSUME NEW e \in Exec, RunResume(e) PROVE TypeOK'
  <2>1. executions' \in [Handles -> Nat] /\ logged' \in SUBSET Exec
    BY <1>10, RecordType DEF RunResume
  <2> QED
    BY <1>10, <2>1 DEF RunResume, guestVars, handleVars
<1>11. ASSUME NEW e \in Exec, RunJoinFails(e) PROVE TypeOK'
  BY <1>11 DEF RunJoinFails, guestVars, handleVars, limitVars, recordVars
<1>12. ASSUME NEW e \in Exec, CallResume(e) PROVE TypeOK'
  BY <1>12, RecordType DEF CallResume, guestVars, handleVars, recordVars
<1>13. ASSUME NEW e \in Exec, StreamRecord(e) PROVE TypeOK'
  BY <1>13, RecordType DEF StreamRecord, guestVars, handleVars
<1>14. CASE BatchResume
  BY <1>14 DEF BatchResume, guestVars, handleVars, limitVars, recordVars
<1>15. CASE FutureDropped
  BY <1>15 DEF FutureDropped, guestVars, handleVars, limitVars, recordVars
<1>16. CASE Terminate
  BY <1>16 DEF Terminate, guestVars, limitVars, recordVars
<1>17. CASE Reset
  BY <1>17 DEF Reset, Ownership, guestVars, limitVars, recordVars
<1>18. CASE SecondPasses
  BY <1>18 DEF SecondPasses, guestVars, handleVars, recordVars
<1>19. ASSUME NEW l \in Handles, WindowElapses(l) PROVE TypeOK'
  <2>1. executions' \in [Handles -> Nat] /\ ticks' \in 0 .. MaxTicks
    BY <1>19 DEF WindowElapses
  <2> QED
    BY <1>19, <2>1 DEF WindowElapses, guestVars, handleVars, recordVars
<1>20. CASE UNCHANGED vars
  BY <1>20 DEF vars
<1> QED
  BY <1>1, <1>2, <1>3, <1>4, <1>5, <1>6, <1>7, <1>8, <1>9, <1>10, <1>11,
     <1>12, <1>13, <1>14, <1>15, <1>16, <1>17, <1>18, <1>19, <1>20
  DEF Next, OnExec, RunEnterFails, StreamEnterFails, GuestReturns, GuestInterrupted
-----------------------------------------------------------------------------
(* The other parts of the inductive invariant, one step per action *)

\* Every handle an execution holds is one the sandbox has had.
LEMMA HandleBounds ==
  IndInv => /\ meter \in Nat
            /\ \A e \in Exec : /\ usesMeter[e] \in Nat
                               /\ usesMeter[e] <= meter
                               /\ usesLimiter[e] = usesMeter[e]
BY HandlesNat DEF IndInv, TypeOK, Ownership

\* No two active executions ever hold the same meter.
LEMMA OwnershipNext == IndInv /\ [Next]_vars => Ownership'
<1> SUFFICES ASSUME IndInv, [Next]_vars PROVE Ownership'
  OBVIOUS
<1> USE HandlesNat DEF IndInv, Ownership, Borrow, Kinded, InstanceIsCurrent, TypeOK, Phases, Methods, States, Returned, Active
<1>1. CASE Create
  <2>1. /\ meter = 0 /\ instance = 0 /\ meter' = 1 /\ limiter' = 1
        /\ state' = "Ready" /\ instance' = 0
        /\ UNCHANGED << usesMeter, usesLimiter, phase >>
    BY <1>1 DEF Create, guestVars
  <2>2. \A e \in Exec : usesMeter[e] = 0 /\ usesLimiter[e] = 0
    BY <2>1, HandleBounds
  <2> QED
    BY <2>1, <2>2
<1>2. ASSUME NEW e \in Exec, RunEnter(e) PROVE Ownership'
  BY <1>2 DEF RunEnter, Callable, Acquire, MayAcquire, Start, handleVars
<1>3. ASSUME NEW e \in Exec, NEW k \in Kinds, EnterFails(e, k) PROVE Ownership'
  BY <1>3 DEF EnterFails, Callable, Acquire, MayAcquire, Start, handleVars
<1>4. ASSUME NEW e \in Exec, CallEnter(e) PROVE Ownership'
  BY <1>4 DEF CallEnter, Callable, Acquire, MayAcquire, Start, recordVars
<1>5. ASSUME NEW e \in Exec, StreamEnter(e) PROVE Ownership'
  BY <1>5 DEF StreamEnter, Callable, Acquire, MayAcquire, Start, handleVars
<1>6. CASE CallEnterFails
  BY <1>6 DEF CallEnterFails, Callable, Acquire, MayAcquire, handleVars, guestVars, recordVars
<1>7. ASSUME NEW S \in SUBSET Exec, BatchEnter(S) PROVE Ownership'
  BY <1>7 DEF BatchEnter, Callable, handleVars, limitVars, recordVars
<1>8. ASSUME NEW e \in Exec, BatchTask(e) PROVE Ownership'
  BY <1>8 DEF BatchTask, guestVars, handleVars, limitVars, recordVars
<1>9. ASSUME NEW e \in Exec, NEW p \in Returned, Returns(e, p) PROVE Ownership'
  BY <1>9 DEF Returns, Live, guestVars, handleVars, limitVars, recordVars
<1>10. ASSUME NEW e \in Exec, RunResume(e) PROVE Ownership'
  BY <1>10 DEF RunResume, RecordExecution, guestVars, handleVars
<1>11. ASSUME NEW e \in Exec, RunJoinFails(e) PROVE Ownership'
  BY <1>11 DEF RunJoinFails, guestVars, handleVars, limitVars, recordVars
<1>12. ASSUME NEW e \in Exec, CallResume(e) PROVE Ownership'
  BY <1>12 DEF CallResume, RecordExecution, guestVars, handleVars, recordVars
<1>13. ASSUME NEW e \in Exec, StreamRecord(e) PROVE Ownership'
  BY <1>13 DEF StreamRecord, RecordExecution, guestVars, handleVars
<1>14. CASE BatchResume
  BY <1>14 DEF BatchResume, guestVars, handleVars, limitVars, recordVars
<1>15. CASE FutureDropped
  BY <1>15 DEF FutureDropped, guestVars, handleVars, limitVars, recordVars
<1>16. CASE Terminate
  BY <1>16 DEF Terminate, guestVars, limitVars, recordVars
<1>17. CASE Reset
  <2>1. /\ instance' = 0 /\ meter' = meter + 1 /\ limiter' = meter + 1
        /\ state' = "Ready" /\ meter \in Nat
        /\ UNCHANGED << usesMeter, usesLimiter, phase >>
    BY <1>17 DEF Reset, guestVars
  <2>2. \A e \in Exec : usesMeter[e] \in Nat /\ usesMeter[e] <= meter + 1 /\ usesMeter[e] # meter + 1
    BY <2>1, HandleBounds
  <2>3. meter + 1 # 0
    BY <2>1
  <2> QED
    BY <2>1, <2>2, <2>3
<1>18. CASE SecondPasses
  BY <1>18 DEF SecondPasses, guestVars, handleVars, recordVars
<1>19. ASSUME NEW l \in Handles, WindowElapses(l) PROVE Ownership'
  BY <1>19 DEF WindowElapses, guestVars, handleVars, recordVars
<1>20. CASE UNCHANGED vars
  BY <1>20 DEF vars
<1> QED
  BY <1>1, <1>2, <1>3, <1>4, <1>5, <1>6, <1>7, <1>8, <1>9, <1>10, <1>11,
     <1>12, <1>13, <1>14, <1>15, <1>16, <1>17, <1>18, <1>19, <1>20
  DEF Next, OnExec, RunEnterFails, StreamEnterFails, GuestReturns, GuestInterrupted, Kinds

\* What the operation in progress awaits stays its own.
LEMMA BorrowNext == IndInv /\ [Next]_vars => Borrow'
<1> SUFFICES ASSUME IndInv, [Next]_vars PROVE Borrow'
  OBVIOUS
<1> USE HandlesNat DEF IndInv, Borrow, Ownership, InstanceIsCurrent, TypeOK, Phases, Methods, States, Returned, Active
<1>1. CASE Create
  BY <1>1 DEF Create, guestVars, limitVars, recordVars
<1>2. ASSUME NEW e \in Exec, RunEnter(e) PROVE Borrow'
  BY <1>2 DEF RunEnter, Callable, Acquire, MayAcquire, Start, handleVars
<1>3. ASSUME NEW e \in Exec, NEW k \in Kinds, EnterFails(e, k) PROVE Borrow'
  BY <1>3 DEF EnterFails, Callable, Acquire, MayAcquire, Start, handleVars
<1>4. ASSUME NEW e \in Exec, CallEnter(e) PROVE Borrow'
  BY <1>4 DEF CallEnter, Callable, Acquire, MayAcquire, Start, recordVars
<1>5. ASSUME NEW e \in Exec, StreamEnter(e) PROVE Borrow'
  BY <1>5 DEF StreamEnter, Callable, Acquire, MayAcquire, Start, handleVars
<1>6. CASE CallEnterFails
  BY <1>6 DEF CallEnterFails, Callable, Acquire, MayAcquire, handleVars, guestVars, recordVars
<1>7. ASSUME NEW S \in SUBSET Exec, BatchEnter(S) PROVE Borrow'
  BY <1>7 DEF BatchEnter, Callable, handleVars, limitVars, recordVars
<1>8. ASSUME NEW e \in Exec, BatchTask(e) PROVE Borrow'
  BY <1>8 DEF BatchTask, guestVars, handleVars, limitVars, recordVars
<1>9. ASSUME NEW e \in Exec, NEW p \in Returned, Returns(e, p) PROVE Borrow'
  BY <1>9 DEF Returns, Live, guestVars, handleVars, limitVars, recordVars
<1>10. ASSUME NEW e \in Exec, RunResume(e) PROVE Borrow'
  BY <1>10 DEF RunResume, RecordExecution, guestVars, handleVars
<1>11. ASSUME NEW e \in Exec, RunJoinFails(e) PROVE Borrow'
  BY <1>11 DEF RunJoinFails, guestVars, handleVars, limitVars, recordVars
<1>12. ASSUME NEW e \in Exec, CallResume(e) PROVE Borrow'
  BY <1>12 DEF CallResume, RecordExecution, guestVars, handleVars, recordVars
<1>13. ASSUME NEW e \in Exec, StreamRecord(e) PROVE Borrow'
  BY <1>13 DEF StreamRecord, RecordExecution, guestVars, handleVars
<1>14. CASE BatchResume
  BY <1>14 DEF BatchResume, guestVars, handleVars, limitVars, recordVars
<1>15. CASE FutureDropped
  BY <1>15 DEF FutureDropped, guestVars, handleVars, limitVars, recordVars
<1>16. CASE Terminate
  BY <1>16 DEF Terminate, guestVars, limitVars, recordVars
<1>17. CASE Reset
  BY <1>17 DEF Reset, guestVars, limitVars, recordVars
<1>18. CASE SecondPasses
  BY <1>18 DEF SecondPasses, guestVars, handleVars, recordVars
<1>19. ASSUME NEW l \in Handles, WindowElapses(l) PROVE Borrow'
  BY <1>19 DEF WindowElapses, guestVars, handleVars, recordVars
<1>20. CASE UNCHANGED vars
  BY <1>20 DEF vars
<1> QED
  BY <1>1, <1>2, <1>3, <1>4, <1>5, <1>6, <1>7, <1>8, <1>9, <1>10, <1>11,
     <1>12, <1>13, <1>14, <1>15, <1>16, <1>17, <1>18, <1>19, <1>20
  DEF Next, OnExec, RunEnterFails, StreamEnterFails, GuestReturns, GuestInterrupted, Kinds

\* Batch guests keep meters of their own.
LEMMA KindedNext == IndInv /\ [Next]_vars => Kinded'
<1> SUFFICES ASSUME IndInv, [Next]_vars PROVE Kinded'
  OBVIOUS
<1> USE HandlesNat DEF IndInv, Ownership, Kinded, InstanceIsCurrent, TypeOK, Phases, Methods, States, Returned, Active
<1>1. CASE Create
  BY <1>1 DEF Create, guestVars, limitVars, recordVars
<1>2. ASSUME NEW e \in Exec, RunEnter(e) PROVE Kinded'
  BY <1>2 DEF RunEnter, Callable, Acquire, MayAcquire, Start, handleVars
<1>3. ASSUME NEW e \in Exec, NEW k \in Kinds, EnterFails(e, k) PROVE Kinded'
  BY <1>3 DEF EnterFails, Callable, Acquire, MayAcquire, Start, handleVars
<1>4. ASSUME NEW e \in Exec, CallEnter(e) PROVE Kinded'
  BY <1>4 DEF CallEnter, Callable, Acquire, MayAcquire, Start, recordVars
<1>5. ASSUME NEW e \in Exec, StreamEnter(e) PROVE Kinded'
  BY <1>5 DEF StreamEnter, Callable, Acquire, MayAcquire, Start, handleVars
<1>6. CASE CallEnterFails
  BY <1>6 DEF CallEnterFails, Callable, Acquire, MayAcquire, handleVars, guestVars, recordVars
<1>7. ASSUME NEW S \in SUBSET Exec, BatchEnter(S) PROVE Kinded'
  BY <1>7 DEF BatchEnter, Callable, handleVars, limitVars, recordVars
<1>8. ASSUME NEW e \in Exec, BatchTask(e) PROVE Kinded'
  BY <1>8 DEF BatchTask, guestVars, handleVars, limitVars, recordVars
<1>9. ASSUME NEW e \in Exec, NEW p \in Returned, Returns(e, p) PROVE Kinded'
  BY <1>9 DEF Returns, Live, guestVars, handleVars, limitVars, recordVars
<1>10. ASSUME NEW e \in Exec, RunResume(e) PROVE Kinded'
  BY <1>10 DEF RunResume, RecordExecution, guestVars, handleVars
<1>11. ASSUME NEW e \in Exec, RunJoinFails(e) PROVE Kinded'
  BY <1>11 DEF RunJoinFails, guestVars, handleVars, limitVars, recordVars
<1>12. ASSUME NEW e \in Exec, CallResume(e) PROVE Kinded'
  BY <1>12 DEF CallResume, RecordExecution, guestVars, handleVars, recordVars
<1>13. ASSUME NEW e \in Exec, StreamRecord(e) PROVE Kinded'
  BY <1>13 DEF StreamRecord, RecordExecution, guestVars, handleVars
<1>14. CASE BatchResume
  BY <1>14 DEF BatchResume, guestVars, handleVars, limitVars, recordVars
<1>15. CASE FutureDropped
  BY <1>15 DEF FutureDropped, guestVars, handleVars, limitVars, recordVars
<1>16. CASE Terminate
  BY <1>16 DEF Terminate, guestVars, limitVars, recordVars
<1>17. CASE Reset
  BY <1>17 DEF Reset, guestVars, limitVars, recordVars
<1>18. CASE SecondPasses
  BY <1>18 DEF SecondPasses, guestVars, handleVars, recordVars
<1>19. ASSUME NEW l \in Handles, WindowElapses(l) PROVE Kinded'
  BY <1>19 DEF WindowElapses, guestVars, handleVars, recordVars
<1>20. CASE UNCHANGED vars
  BY <1>20 DEF vars
<1> QED
  BY <1>1, <1>2, <1>3, <1>4, <1>5, <1>6, <1>7, <1>8, <1>9, <1>10, <1>11,
     <1>12, <1>13, <1>14, <1>15, <1>16, <1>17, <1>18, <1>19, <1>20
  DEF Next, OnExec, RunEnterFails, StreamEnterFails, GuestReturns, GuestInterrupted, Kinds

\* An admitted execution keeps its room in the quota.
LEMMA QuotaNext == IndInv /\ [Next]_vars => QuotaRoom'
<1> SUFFICES ASSUME IndInv, [Next]_vars PROVE QuotaRoom'
  OBVIOUS
<1> USE HandlesNat DEF IndInv, QuotaRoom, Ownership, Borrow, Kinded, InstanceIsCurrent, TypeOK, Phases, Methods, States, Returned, Active
<1>1. CASE Create
  BY <1>1 DEF Create, guestVars, limitVars, recordVars
<1>2. ASSUME NEW e \in Exec, RunEnter(e) PROVE QuotaRoom'
  BY <1>2 DEF RunEnter, Callable, Acquire, MayAcquire, Start, handleVars
<1>3. ASSUME NEW e \in Exec, NEW k \in Kinds, EnterFails(e, k) PROVE QuotaRoom'
  BY <1>3 DEF EnterFails, Callable, Acquire, MayAcquire, Start, handleVars
<1>4. ASSUME NEW e \in Exec, CallEnter(e) PROVE QuotaRoom'
  BY <1>4 DEF CallEnter, Callable, Acquire, MayAcquire, Start, recordVars
<1>5. ASSUME NEW e \in Exec, StreamEnter(e) PROVE QuotaRoom'
  BY <1>5 DEF StreamEnter, Callable, Acquire, MayAcquire, Start, handleVars
<1>6. CASE CallEnterFails
  BY <1>6 DEF CallEnterFails, Callable, Acquire, MayAcquire, handleVars, guestVars, recordVars
<1>7. ASSUME NEW S \in SUBSET Exec, BatchEnter(S) PROVE QuotaRoom'
  BY <1>7 DEF BatchEnter, Callable, handleVars, limitVars, recordVars
<1>8. ASSUME NEW e \in Exec, BatchTask(e) PROVE QuotaRoom'
  BY <1>8 DEF BatchTask, guestVars, handleVars, limitVars, recordVars
<1>9. ASSUME NEW e \in Exec, NEW p \in Returned, Returns(e, p) PROVE QuotaRoom'
  BY <1>9 DEF Returns, Live, guestVars, handleVars, limitVars, recordVars
<1>10. ASSUME NEW e \in Exec, RunResume(e) PROVE QuotaRoom'
  BY <1>10 DEF RunResume, RecordExecution, guestVars, handleVars
<1>11. ASSUME NEW e \in Exec, RunJoinFails(e) PROVE QuotaRoom'
  BY <1>11 DEF RunJoinFails, guestVars, handleVars, limitVars, recordVars
<1>12. ASSUME NEW e \in Exec, CallResume(e) PROVE QuotaRoom'
  BY <1>12 DEF CallResume, RecordExecution, guestVars, handleVars, recordVars
<1>13. ASSUME NEW e \in Exec, StreamRecord(e) PROVE QuotaRoom'
  BY <1>13 DEF StreamRecord, RecordExecution, guestVars, handleVars
<1>14. CASE BatchResume
  BY <1>14 DEF BatchResume, guestVars, handleVars, limitVars, recordVars
<1>15. CASE FutureDropped
  BY <1>15 DEF FutureDropped, guestVars, handleVars, limitVars, recordVars
<1>16. CASE Terminate
  BY <1>16 DEF Terminate, guestVars, limitVars, recordVars
<1>17. CASE Reset
  BY <1>17 DEF Reset, guestVars, limitVars, recordVars
<1>18. CASE SecondPasses
  BY <1>18 DEF SecondPasses, guestVars, handleVars, recordVars
<1>19. ASSUME NEW l \in Handles, WindowElapses(l) PROVE QuotaRoom'
  BY <1>19 DEF WindowElapses, guestVars, handleVars, recordVars
<1>20. CASE UNCHANGED vars
  BY <1>20 DEF vars
<1> QED
  BY <1>1, <1>2, <1>3, <1>4, <1>5, <1>6, <1>7, <1>8, <1>9, <1>10, <1>11,
     <1>12, <1>13, <1>14, <1>15, <1>16, <1>17, <1>18, <1>19, <1>20
  DEF Next, OnExec, RunEnterFails, StreamEnterFails, GuestReturns, GuestInterrupted, Kinds

\* Every run of run() is counted once.
LEMMA RecordedNext == IndInv /\ [Next]_vars => Recorded'
<1> SUFFICES ASSUME IndInv, [Next]_vars PROVE Recorded'
  OBVIOUS
<1> USE DEF IndInv, Recorded, RunsAccounted, Borrow, Kinded, TypeOK, Phases, Methods, States, Returned, Active
<1>1. CASE Create
  <2>1. {x \in concluded' : kind'[x] = "run"} = {x \in concluded : kind[x] = "run"}
    BY <1>1 DEF Create, guestVars, limitVars, recordVars
  <2> QED
    BY <1>1, <2>1 DEF Create, guestVars, limitVars, recordVars
<1>2. ASSUME NEW e \in Exec, RunEnter(e) PROVE Recorded'
  <2>1. {x \in concluded' : kind'[x] = "run"} = {x \in concluded : kind[x] = "run"}
    BY <1>2 DEF RunEnter, Callable, Acquire, MayAcquire, Start, handleVars
  <2> QED
    BY <1>2, <2>1 DEF RunEnter, Callable, Acquire, MayAcquire, Start, handleVars
<1>3. ASSUME NEW e \in Exec, NEW k \in Kinds, EnterFails(e, k) PROVE Recorded'
  <2>1. {x \in concluded' : kind'[x] = "run"} = {x \in concluded : kind[x] = "run"}
    BY <1>3 DEF EnterFails, Callable, Acquire, MayAcquire, Start, handleVars
  <2> QED
    BY <1>3, <2>1 DEF EnterFails, Callable, Acquire, MayAcquire, Start, handleVars
<1>4. ASSUME NEW e \in Exec, CallEnter(e) PROVE Recorded'
  <2>1. {x \in concluded' : kind'[x] = "run"} = {x \in concluded : kind[x] = "run"}
    BY <1>4 DEF CallEnter, Callable, Acquire, MayAcquire, Start, recordVars
  <2> QED
    BY <1>4, <2>1 DEF CallEnter, Callable, Acquire, MayAcquire, Start, recordVars
<1>5. ASSUME NEW e \in Exec, StreamEnter(e) PROVE Recorded'
  <2>1. {x \in concluded' : kind'[x] = "run"} = {x \in concluded : kind[x] = "run"}
    BY <1>5 DEF StreamEnter, Callable, Acquire, MayAcquire, Start, handleVars
  <2> QED
    BY <1>5, <2>1 DEF StreamEnter, Callable, Acquire, MayAcquire, Start, handleVars
<1>6. CASE CallEnterFails
  <2>1. {x \in concluded' : kind'[x] = "run"} = {x \in concluded : kind[x] = "run"}
    BY <1>6 DEF CallEnterFails, Callable, Acquire, MayAcquire, handleVars, guestVars, recordVars
  <2> QED
    BY <1>6, <2>1 DEF CallEnterFails, Callable, Acquire, MayAcquire, handleVars, guestVars, recordVars
<1>7. ASSUME NEW S \in SUBSET Exec, BatchEnter(S) PROVE Recorded'
  <2>1. {x \in concluded' : kind'[x] = "run"} = {x \in concluded : kind[x] = "run"}
    BY <1>7 DEF BatchEnter, Callable, handleVars, limitVars, recordVars
  <2> QED
    BY <1>7, <2>1 DEF BatchEnter, Callable, handleVars, limitVars, recordVars
<1>8. ASSUME NEW e \in Exec, BatchTask(e) PROVE Recorded'
  <2>1. {x \in concluded' : kind'[x] = "run"} = {x \in concluded : kind[x] = "run"}
    BY <1>8 DEF BatchTask, guestVars, handleVars, limitVars, recordVars
  <2> QED
    BY <1>8, <2>1 DEF BatchTask, guestVars, handleVars, limitVars, recordVars
<1>9. ASSUME NEW e \in Exec, NEW p \in Returned, Returns(e, p) PROVE Recorded'
  <2>1. {x \in concluded' : kind'[x] = "run"} = {x \in concluded : kind[x] = "run"}
    BY <1>9 DEF Returns, Live, guestVars, handleVars, limitVars, recordVars
  <2> QED
    BY <1>9, <2>1 DEF Returns, Live, guestVars, handleVars, limitVars, recordVars
<1>10. ASSUME NEW e \in Exec, RunResume(e) PROVE Recorded'
  <2>1. e \notin concluded /\ kind[e] = "run" /\ e \in announced
    BY <1>10 DEF RunResume
  <2>2. Cardinality({x \in concluded' : kind'[x] = "run"})
          = Cardinality({x \in concluded : kind[x] = "run"}) + 1
    <3>1. concluded' = concluded \cup {e} /\ kind' = kind
      BY <1>10 DEF RunResume, guestVars
    <3> QED
      BY <3>1, <2>1, CountOneMore
  <2>3. runCount' = runCount + 1 /\ logged' \subseteq concluded' /\ concluded' \subseteq announced'
    BY <1>10, <2>1 DEF RunResume
  <2>4. RunsAccounted'
    BY <2>2, <2>3
  <2> QED
    BY <1>10, <2>1, <2>4 DEF RunResume, guestVars
<1>11. ASSUME NEW e \in Exec, RunJoinFails(e) PROVE Recorded'
  <2>1. {x \in concluded' : kind'[x] = "run"} = {x \in concluded : kind[x] = "run"}
    BY <1>11 DEF RunJoinFails, guestVars, handleVars, limitVars, recordVars
  <2> QED
    BY <1>11, <2>1 DEF RunJoinFails, guestVars, handleVars, limitVars, recordVars
<1>12. ASSUME NEW e \in Exec, CallResume(e) PROVE Recorded'
  <2>1. {x \in concluded' : kind'[x] = "run"} = {x \in concluded : kind[x] = "run"}
    BY <1>12 DEF CallResume, RecordExecution, guestVars, handleVars, recordVars
  <2> QED
    BY <1>12, <2>1 DEF CallResume, RecordExecution, guestVars, handleVars, recordVars
<1>13. ASSUME NEW e \in Exec, StreamRecord(e) PROVE Recorded'
  <2>1. {x \in concluded' : kind'[x] = "run"} = {x \in concluded : kind[x] = "run"}
    BY <1>13 DEF StreamRecord, guestVars
  <2>2. logged' \subseteq concluded' /\ concluded' \subseteq announced' /\ runCount' = runCount
    BY <1>13 DEF StreamRecord
  <2> QED
    BY <1>13, <2>1, <2>2 DEF StreamRecord, guestVars
<1>14. CASE BatchResume
  <2>1. {x \in concluded' : kind'[x] = "run"} = {x \in concluded : kind[x] = "run"}
    BY <1>14 DEF BatchResume, guestVars, handleVars, limitVars, recordVars
  <2> QED
    BY <1>14, <2>1 DEF BatchResume, guestVars, handleVars, limitVars, recordVars
<1>15. CASE FutureDropped
  <2>1. {x \in concluded' : kind'[x] = "run"} = {x \in concluded : kind[x] = "run"}
    BY <1>15 DEF FutureDropped, guestVars, handleVars, limitVars, recordVars
  <2> QED
    BY <1>15, <2>1 DEF FutureDropped, guestVars, handleVars, limitVars, recordVars
<1>16. CASE Terminate
  <2>1. {x \in concluded' : kind'[x] = "run"} = {x \in concluded : kind[x] = "run"}
    BY <1>16 DEF Terminate, guestVars, limitVars, recordVars
  <2> QED
    BY <1>16, <2>1 DEF Terminate, guestVars, limitVars, recordVars
<1>17. CASE Reset
  <2>1. {x \in concluded' : kind'[x] = "run"} = {x \in concluded : kind[x] = "run"}
    BY <1>17 DEF Reset, guestVars, limitVars, recordVars
  <2> QED
    BY <1>17, <2>1 DEF Reset, guestVars, limitVars, recordVars
<1>18. CASE SecondPasses
  <2>1. {x \in concluded' : kind'[x] = "run"} = {x \in concluded : kind[x] = "run"}
    BY <1>18 DEF SecondPasses, guestVars, handleVars, recordVars
  <2> QED
    BY <1>18, <2>1 DEF SecondPasses, guestVars, handleVars, recordVars
<1>19. ASSUME NEW l \in Handles, WindowElapses(l) PROVE Recorded'
  <2>1. {x \in concluded' : kind'[x] = "run"} = {x \in concluded : kind[x] = "run"}
    BY <1>19 DEF WindowElapses, guestVars, handleVars, recordVars
  <2> QED
    BY <1>19, <2>1 DEF WindowElapses, guestVars, handleVars, recordVars
<1>20. CASE UNCHANGED vars
  <2>1. {x \in concluded' : kind'[x] = "run"} = {x \in concluded : kind[x] = "run"}
    BY <1>20 DEF vars
  <2> QED
    BY <1>20, <2>1 DEF vars
<1> QED
  BY <1>1, <1>2, <1>3, <1>4, <1>5, <1>6, <1>7, <1>8, <1>9, <1>10, <1>11,
     <1>12, <1>13, <1>14, <1>15, <1>16, <1>17, <1>18, <1>19, <1>20
  DEF Next, OnExec, RunEnterFails, StreamEnterFails, GuestReturns, GuestInterrupted, Kinds

-----------------------------------------------------------------------------
(* Theorems *)

\* The inductive invariant holds in every reachable state of the sandbox
\* lifecycle, whatever the limits, the quota and the number of executions.
THEOREM Invariance == Spec => []IndInv
<1>1. IndInv /\ [Next]_vars => IndInv'
  BY TypeNext, OwnershipNext, BorrowNext, KindedNext, QuotaNext, RecordedNext
  DEF IndInv
<1> QED
  BY <1>1, InitIndInv, PTL DEF Spec

\* Type correctness of the sandbox's state.
THEOREM TypeCorrect == Spec => []TypeOK
<1>1. IndInv => TypeOK
  BY DEF IndInv
<1> QED
  BY <1>1, Invariance, PTL

\* No two guests that run at the same time report to one ResourceMeter,
\* streaming runs that outlive a reset() included.
THEOREM MetersNotShared == Spec => []NoSharedMeter
<1>1. IndInv => NoSharedMeter
  BY DEF IndInv, Ownership, NoSharedMeter, Active, Live
<1> QED
  BY <1>1, Invariance, PTL

\* The instance that call() keeps never outlives the meter it reports to.
THEOREM InstanceCurrent == Spec => []InstanceIsCurrent
<1>1. IndInv => InstanceIsCurrent
  BY DEF IndInv, Ownership
<1> QED
  BY <1>1, Invariance, PTL

\* Checking the quota before the execution and counting it afterwards never
\* lets one limiter count more executions than its quota allows.
THEOREM QuotaNeverExceeded == Spec => []QuotaKept
<1>1. IndInv => QuotaKept
  BY DEF IndInv, QuotaRoom, QuotaKept
<1> QED
  BY <1>1, Invariance, PTL

\* Hooks, lineage log and run counter agree on which runs there were.
THEOREM AccountsAgree == Spec => []RunsAccounted
<1>1. IndInv => RunsAccounted
  BY DEF IndInv, Recorded
<1> QED
  BY <1>1, Invariance, PTL

=============================================================================
