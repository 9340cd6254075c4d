-------------------------- MODULE PrimitivesProofs --------------------------
(* Theorems about the synchronisation primitives side by side: the gate on  *)
(* Linux and Windows, and the condition variable build of all three, for    *)
(* any threads, counts and bounds.                                          *)
EXTENDS PrimitivesMC, FiniteSetTheorems, TLAPS

PosixPoints == {"idle", "entering", "queued", "signaled"}

(* The condition variable builds, each with what it needs to be inductive:  *)
(* only waiters are ever queued.                                            *)
SemaphorePosixInv == SemaphorePosix!TypeOK /\ SemaphorePosix!TicketsHaveTakers

LatchPosixInv ==
  /\ LatchPosix!TypeOK
  /\ Queued(pc) \subseteq Waiter
  /\ LatchPosix!SomeoneGetsThrough

GatePosixInv ==
  /\ word \in BOOLEAN
  /\ pc \in [Thread -> PosixPoints]
  /\ Queued(pc) \subseteq Waiter
  /\ GatePosix!SomeoneGetsThrough

GateInv == Gate!TypeOK /\ Gate!OpenGateWakes

IInv ==
  /\ primitive = "Gate" => GateInv
  /\ primitive = "SemaphorePosix" => SemaphorePosixInv
  /\ primitive = "LatchPosix" => LatchPosixInv
  /\ primitive = "GatePosix" => GatePosixInv

-----------------------------------------------------------------------------
(* Signals *)

(* All builds look at the condition in the same way, and signal it in the   *)
(* same way.                                                                *)
LEMMA SameQueue ==
  ASSUME NEW f
  PROVE  /\ SemaphorePosix!Queued(f) = Queued(f)
         /\ LatchPosix!Queued(f) = Queued(f)
         /\ GatePosix!Queued(f) = Queued(f)
         /\ SemaphorePosix!Signaled(f) = Signaled(f)
  BY DEF SemaphorePosix!Queued, LatchPosix!Queued, GatePosix!Queued, Queued,
         SemaphorePosix!Signaled, Signaled

(* What instances do to the library's operators does not change them.       *)
LEMMA SameSize ==
  ASSUME NEW S
  PROVE  /\ SemaphorePosix!Cardinality(S) = Cardinality(S)
         /\ LatchPosix!Cardinality(S) = Cardinality(S)
         /\ GatePosix!Cardinality(S) = Cardinality(S)
  BY DEF SemaphorePosix!Cardinality, LatchPosix!Cardinality,
         GatePosix!Cardinality, Cardinality

(* A signal means the same in all builds. *)
LEMMA SameSignals ==
  ASSUME NEW f, NEW n
  PROVE  /\ SemaphorePosix!AfterSignals(f, n) = AfterSignals(f, n)
         /\ LatchPosix!AfterSignals(f, n) = AfterSignals(f, n)
         /\ GatePosix!AfterSignals(f, n) = AfterSignals(f, n)
<1>1. \A k, S : /\ SemaphorePosix!kSubset(k, S) = kSubset(k, S)
                /\ LatchPosix!kSubset(k, S) = kSubset(k, S)
                /\ GatePosix!kSubset(k, S) = kSubset(k, S)
  BY SameSize DEF SemaphorePosix!kSubset, LatchPosix!kSubset, GatePosix!kSubset,
                  kSubset
<1>2. \A S : /\ SemaphorePosix!Min(S) = Min(S)
             /\ LatchPosix!Min(S) = Min(S)
             /\ GatePosix!Min(S) = Min(S)
  BY DEF SemaphorePosix!Min, LatchPosix!Min, GatePosix!Min, Min
<1>3. SemaphorePosix!AfterSignals(f, n) = AfterSignals(f, n)
  BY <1>1, <1>2, SameSize, SameQueue DEF SemaphorePosix!AfterSignals, AfterSignals
<1>4. LatchPosix!AfterSignals(f, n) = AfterSignals(f, n)
  BY <1>1, <1>2, SameSize, SameQueue DEF LatchPosix!AfterSignals, AfterSignals
<1>5. GatePosix!AfterSignals(f, n) = AfterSignals(f, n)
  BY <1>1, <1>2, SameSize, SameQueue DEF GatePosix!AfterSignals, AfterSignals
<1> QED
  BY <1>3, <1>4, <1>5

(* Signalling moves threads from the queue to the mutex: as many as there   *)
(* are signals, or all of them.                                             *)
LEMMA SignalFacts ==
  ASSUME NEW f \in [Thread -> PosixPoints], NEW n \in Nat,
         NEW g \in AfterSignals(f, n)
  PROVE  /\ g \in [Thread -> PosixPoints]
         /\ \A t \in Thread : \/ g[t] = f[t]
                              \/ f[t] = "queued" /\ g[t] = "signaled"
         /\ Queued(g) \subseteq Queued(f)
         /\ Queued(g) = {} \/ Cardinality(Signaled(g)) = Cardinality(Signaled(f)) + n
         /\ n > 0 /\ Queued(f) # {} => Queued(g) # Queued(f)
<1> DEFINE size == Cardinality(Queued(f))
           resumed == Min({n, size})
<1>1. IsFiniteSet(Queued(f)) /\ IsFiniteSet(Signaled(f)) /\ size \in Nat
  <2>1. Queued(f) \subseteq Thread /\ Signaled(f) \subseteq Thread
    BY DEF Queued, Signaled
  <2>2. IsFiniteSet(Queued(f)) /\ IsFiniteSet(Signaled(f))
    BY <2>1, ThreadAssumption, FS_Subset
  <2> QED
    BY <2>2, FS_CardinalityType
<1>2. resumed = IF n <= size THEN n ELSE size
  BY <1>1 DEF Min
<1>3. PICK chosen \in SUBSET Queued(f) :
        /\ Cardinality(chosen) = resumed
        /\ g = [t \in Thread |-> IF t \in chosen THEN "signaled" ELSE f[t]]
  BY DEF AfterSignals, kSubset
<1>4. IsFiniteSet(chosen)
  BY <1>1, <1>3, FS_Subset
<1>5. /\ Queued(g) = Queued(f) \ chosen
      /\ Signaled(g) = Signaled(f) \cup chosen
      /\ Signaled(f) \cap chosen = {}
  BY <1>3 DEF Queued, Signaled
<1>6. Cardinality(Signaled(g)) = Cardinality(Signaled(f)) + resumed
  <2>1. Cardinality(Signaled(f) \cup chosen) =
          Cardinality(Signaled(f)) + Cardinality(chosen) - Cardinality({})
    BY <1>1, <1>4, <1>5, FS_Union, Zenon
  <2>2. Cardinality(Signaled(f)) \in Nat /\ Cardinality(chosen) \in Nat
    BY <1>1, <1>4, FS_CardinalityType
  <2> QED
    <3>1. Cardinality({}) = 0
      BY FS_EmptySet
    <3>2. Cardinality(Signaled(f) \cup chosen) =
            Cardinality(Signaled(f)) + Cardinality(chosen)
      BY <2>1, <2>2, <3>1
    <3> QED
      BY <1>3, <1>5, <3>2
<1>7. n > size \/ n = size => Queued(g) = {}
  <2> SUFFICES ASSUME n >= size PROVE chosen = Queued(f)
    BY <1>1, <1>5
  <2>1. Cardinality(chosen) = Cardinality(Queued(f))
    BY <1>1, <1>2, <1>3
  <2> QED
    BY <1>1, <2>1, FS_Subset
<1>8. n > 0 /\ Queued(f) # {} => chosen # {}
  <2>1. Queued(f) # {} => size # 0
    BY <1>1, FS_EmptySet
  <2>2. n > 0 /\ Queued(f) # {} => resumed # 0
    BY <1>1, <1>2, <2>1
  <2> QED
    BY <1>3, <2>2, FS_EmptySet
<1>9. /\ g \in [Thread -> PosixPoints]
      /\ \A t \in Thread : \/ g[t] = f[t]
                           \/ f[t] = "queued" /\ g[t] = "signaled"
  BY <1>3 DEF PosixPoints, Queued
<1>10. Queued(g) = {} \/ Cardinality(Signaled(g)) = Cardinality(Signaled(f)) + n
  BY <1>1, <1>2, <1>6, <1>7
<1>11. n > 0 /\ Queued(f) # {} => Queued(g) # Queued(f)
  BY <1>3, <1>5, <1>8
<1> QED
  BY <1>5, <1>9, <1>10, <1>11

-----------------------------------------------------------------------------
(* One primitive after the other *)

(* One signal from a queue that holds all waiters leaves somebody out of it.*)
LEMMA OneSignal ==
  ASSUME NEW f \in [Thread -> PosixPoints], Queued(f) \subseteq Waiter,
         NEW n \in {0, 1}, NEW g \in AfterSignals(f, n)
  PROVE  /\ g \in [Thread -> PosixPoints] /\ Queued(g) \subseteq Waiter
         /\ Queued(f) # Waiter => Queued(g) # Waiter
         /\ n = 1 /\ Waiter # {} => Queued(g) # Waiter
  BY SignalFacts

(* A gate is opened with a signal, and only a closed one queues anybody.    *)
LEMMA GatePosixStep ==
  ASSUME GatePosixInv, GatePosix!Next
  PROVE  GatePosixInv'
<1> USE PrimitiveAssumption DEF GatePosixInv
<1>1. /\ word \in BOOLEAN /\ pc \in [Thread -> PosixPoints] /\ Queued(pc) \subseteq Waiter
      /\ word /\ Waiter # {} => Queued(pc) # Waiter
  BY SameQueue DEF GatePosix!SomeoneGetsThrough
<1>2. SUFFICES /\ word' \in BOOLEAN /\ pc' \in [Thread -> PosixPoints]
               /\ Queued(pc') \subseteq Waiter
               /\ word' /\ Waiter # {} => Queued(pc') # Waiter
  BY SameQueue DEF GatePosix!SomeoneGetsThrough
<1>3. CASE GatePosix!Open
  <2>1. word' = TRUE /\ pc' \in AfterSignals(pc, 1)
    BY <1>3, SameSignals DEF GatePosix!Open
  <2> QED
    BY <1>1, <2>1, OneSignal
<1>4. CASE GatePosix!Close
  BY <1>1, <1>4 DEF GatePosix!Close
<1>5. ASSUME NEW t \in Waiter, NEW how \in {"forever", "running"},
             GatePosix!Wait(t, how)
      PROVE  word' = word /\ pc' = [pc EXCEPT ![t] = "entering"] /\ pc[t] # "queued"
  BY <1>1, <1>5 DEF GatePosix!Wait, GatePosix!Goto
<1>6. ASSUME NEW t \in Waiter, GatePosix!Proceed(t)
      PROVE  /\ word' = word /\ pc[t] # "queued"
             /\ pc' = [pc EXCEPT ![t] = IF word THEN "idle" ELSE "queued"]
  BY <1>1, <1>6 DEF GatePosix!Proceed, GatePosix!Goto
<1>7. ASSUME NEW t \in Waiter, GatePosix!SpuriousWakeUp(t) \/ GatePosix!TimeOut(t)
      PROVE  /\ word' = word
             /\ \E point \in {"idle", "signaled"} : pc' = [pc EXCEPT ![t] = point]
  BY <1>1, <1>7 DEF GatePosix!SpuriousWakeUp, GatePosix!TimeOut, GatePosix!Goto
<1>8. ASSUME NEW t \in Waiter, GatePosix!PatienceElapses(t)
      PROVE  UNCHANGED <<word, pc>>
  BY <1>8 DEF GatePosix!PatienceElapses
<1> QED
  BY <1>1, <1>3, <1>4, <1>5, <1>6, <1>7, <1>8
     DEF GatePosix!Next, Queued, PosixPoints

(* A latch is opened with a signal, and only a closed one queues anybody.   *)
LEMMA LatchPosixStep ==
  ASSUME LatchPosixInv, LatchPosix!Next
  PROVE  LatchPosixInv'
<1> USE PrimitiveAssumption DEF LatchPosixInv, LatchPosix!TypeOK, LatchPosix!Goto
<1>1. /\ count \in Nat /\ posted \in Nat
      /\ pc \in [Thread -> PosixPoints] /\ Queued(pc) \subseteq Waiter
      /\ count = 0 /\ Waiter # {} => Queued(pc) # Waiter
  BY SameQueue DEF LatchPosix!SomeoneGetsThrough, PosixPoints
<1>2. SUFFICES /\ count' \in Nat /\ posted' \in Nat
               /\ patience' \in [Thread -> {"forever", "running", "elapsed"}]
               /\ pc' \in [Thread -> PosixPoints] /\ Queued(pc') \subseteq Waiter
               /\ count' = 0 /\ Waiter # {} => Queued(pc') # Waiter
  BY SameQueue DEF LatchPosix!SomeoneGetsThrough, PosixPoints
<1>3. ASSUME NEW n \in Counts, LatchPosix!Post(n)
      PROVE  /\ count' \in Nat /\ posted' \in Nat /\ UNCHANGED <<pc, patience>>
             /\ count' = 0 => count = 0
  BY <1>1, <1>3 DEF LatchPosix!Post
<1>4. ASSUME NEW n \in Counts, LatchPosix!CountDown(n)
      PROVE  /\ count' \in Nat /\ posted' = posted /\ patience' = patience
             /\ pc' \in [Thread -> PosixPoints] /\ Queued(pc') \subseteq Waiter
             /\ count' = 0 /\ Waiter # {} => Queued(pc') # Waiter
  <2>1. /\ count' \in Nat /\ UNCHANGED <<posted, patience>>
        /\ count' = 0 <=> count = n
    BY <1>1, <1>4 DEF LatchPosix!CountDown
  <2>2. pc' \in AfterSignals(pc, IF count = n THEN 1 ELSE 0)
    BY <1>4, SameSignals DEF LatchPosix!CountDown
  <2>3. CASE count = n
    BY <1>1, <2>1, <2>2, <2>3, OneSignal
  <2>4. CASE count # n
    BY <1>1, <2>1, <2>2, <2>4, OneSignal
  <2> QED
    BY <2>3, <2>4
<1>5. ASSUME NEW t \in Waiter, NEW how \in {"forever", "running"},
             LatchPosix!Wait(t, how)
      PROVE  /\ UNCHANGED <<count, posted>> /\ pc[t] # "queued"
             /\ pc' = [pc EXCEPT ![t] = "entering"]
             /\ patience' = [patience EXCEPT ![t] = how]
  BY <1>1, <1>5 DEF LatchPosix!Wait
<1>6. ASSUME NEW t \in Waiter, LatchPosix!Proceed(t)
      PROVE  /\ UNCHANGED <<count, posted, patience>> /\ pc[t] # "queued"
             /\ pc' = [pc EXCEPT ![t] = IF count > 0 THEN "queued" ELSE "idle"]
  BY <1>1, <1>6 DEF LatchPosix!Proceed
<1>7. ASSUME NEW t \in Waiter, LatchPosix!SpuriousWakeUp(t) \/ LatchPosix!TimeOut(t)
      PROVE  /\ UNCHANGED <<count, posted, patience>>
             /\ \E point \in {"idle", "signaled"} : pc' = [pc EXCEPT ![t] = point]
  BY <1>1, <1>7 DEF LatchPosix!SpuriousWakeUp, LatchPosix!TimeOut
<1>8. ASSUME NEW t \in Waiter, LatchPosix!PatienceElapses(t)
      PROVE  /\ UNCHANGED <<count, posted, pc>>
             /\ patience' = [patience EXCEPT ![t] = "elapsed"]
  BY <1>8 DEF LatchPosix!PatienceElapses
<1>9. CASE \E t \in Thread, n \in Counts : LatchPosix!Post(n) \/ LatchPosix!CountDown(n)
  BY <1>1, <1>3, <1>4, <1>9
<1>10. CASE \E t \in Waiter : \E how \in {"forever", "running"} : LatchPosix!Wait(t, how)
  BY <1>1, <1>5, <1>10 DEF Queued, PosixPoints
<1>11. CASE \E t \in Waiter : LatchPosix!Proceed(t)
  BY <1>1, <1>6, <1>11 DEF Queued, PosixPoints
<1>12. CASE \E t \in Waiter : LatchPosix!SpuriousWakeUp(t) \/ LatchPosix!TimeOut(t)
  BY <1>1, <1>7, <1>12 DEF Queued, PosixPoints
<1>13. CASE \E t \in Waiter : LatchPosix!PatienceElapses(t)
  BY <1>1, <1>8, <1>13
<1> QED
  BY <1>9, <1>10, <1>11, <1>12, <1>13 DEF LatchPosix!Next

(* Tickets are posted with a signal each. A thread that takes one off the   *)
(* others' way had been signalled itself, or leaves one more to them.       *)
LEMMA SemaphorePosixStep ==
  ASSUME SemaphorePosixInv, SemaphorePosix!Next
  PROVE  SemaphorePosixInv'
<1> USE PrimitiveAssumption
    DEF SemaphorePosixInv, SemaphorePosix!TypeOK, SemaphorePosix!Goto
<1> DEFINE signaled == Cardinality(Signaled(pc))
<1>1. /\ count \in Nat /\ posted \in Nat /\ admitted \in Nat
      /\ pc \in [Thread -> PosixPoints]
      /\ Queued(pc) # {} => count <= signaled
  BY SameQueue, SameSize DEF SemaphorePosix!TicketsHaveTakers, PosixPoints
<1>2. SUFFICES /\ count' \in Nat /\ posted' \in Nat /\ admitted' \in Nat
               /\ patience' \in [Thread -> {"forever", "running", "elapsed"}]
               /\ pc' \in [Thread -> PosixPoints]
               /\ Queued(pc') # {} => count' <= Cardinality(Signaled(pc'))
  BY SameQueue, SameSize DEF SemaphorePosix!TicketsHaveTakers, PosixPoints
<1>3. IsFiniteSet(Signaled(pc)) /\ signaled \in Nat
  <2>1. Signaled(pc) \subseteq Thread
    BY <1>1 DEF Signaled
  <2> QED
    BY <2>1, ThreadAssumption, FS_Subset, FS_CardinalityType
<1>4. ASSUME NEW n \in Counts, SemaphorePosix!Post(n)
      PROVE  /\ count' \in Nat /\ posted' \in Nat /\ UNCHANGED <<admitted, patience>>
             /\ pc' \in [Thread -> PosixPoints]
             /\ Queued(pc') # {} => count' <= Cardinality(Signaled(pc'))
  <2>1. /\ count' = count + n /\ posted' = posted + n
        /\ UNCHANGED <<admitted, patience>>
    BY <1>4 DEF SemaphorePosix!Post
  <2>2. pc' \in AfterSignals(pc, n)
    BY <1>4, SameSignals DEF SemaphorePosix!Post
  <2>3. n \in Nat
    OBVIOUS
  <2>4. /\ pc' \in [Thread -> PosixPoints] /\ Queued(pc') \subseteq Queued(pc)
        /\ Queued(pc') = {} \/ Cardinality(Signaled(pc')) = signaled + n
    BY <1>1, <2>2, <2>3, SignalFacts
  <2> QED
    BY <1>1, <1>3, <2>1, <2>3, <2>4
<1>5. ASSUME NEW t \in Waiter, NEW point \in PosixPoints,
             pc' = [pc EXCEPT ![t] = point], pc[t] # point
      PROVE  /\ pc' \in [Thread -> PosixPoints]
             /\ Cardinality(Signaled(pc')) =
                  IF point = "signaled" THEN signaled + 1
                  ELSE IF pc[t] = "signaled" THEN signaled - 1 ELSE signaled
  <2>1. pc' \in [Thread -> PosixPoints]
    BY <1>1, <1>5
  <2>2. CASE point = "signaled"
    <3>1. Signaled(pc') = Signaled(pc) \cup {t} /\ t \notin Signaled(pc)
      BY <1>1, <1>5, <2>2 DEF Signaled
    <3> QED
      BY <1>3, <2>1, <2>2, <3>1, FS_AddElement
  <2>3. CASE point # "signaled" /\ pc[t] = "signaled"
    <3>1. Signaled(pc') = Signaled(pc) \ {t} /\ t \in Signaled(pc)
      BY <1>1, <1>5, <2>3 DEF Signaled
    <3> QED
      BY <1>3, <2>1, <2>3, <3>1, FS_RemoveElement
  <2>4. CASE point # "signaled" /\ pc[t] # "signaled"
    <3>1. Signaled(pc') = Signaled(pc)
      BY <1>1, <1>5, <2>4 DEF Signaled
    <3> QED
      BY <2>1, <2>4, <3>1
  <2> QED
    BY <2>2, <2>3, <2>4
<1>6. ASSUME NEW t \in Waiter, NEW how \in {"forever", "running"},
             SemaphorePosix!Wait(t, how)
      PROVE  /\ UNCHANGED <<count, posted, admitted>>
             /\ pc[t] = "idle" /\ pc' = [pc EXCEPT ![t] = "entering"]
             /\ patience' = [patience EXCEPT ![t] = how]
  BY <1>6 DEF SemaphorePosix!Wait
<1>7. ASSUME NEW t \in Waiter, SemaphorePosix!Proceed(t)
      PROVE  /\ UNCHANGED <<posted, patience>> /\ pc[t] \in {"entering", "signaled"}
             /\ \/ /\ count > 0 /\ count' = count - 1 /\ admitted' = admitted + 1
                   /\ pc' = [pc EXCEPT ![t] = "idle"]
                \/ /\ count = 0 /\ count' = 0 /\ admitted' = admitted
                   /\ pc' = [pc EXCEPT ![t] = "queued"]
  BY <1>7 DEF SemaphorePosix!Proceed, SemaphorePosix!TestAndTake
<1>8. ASSUME NEW t \in Waiter, SemaphorePosix!SpuriousWakeUp(t) \/ SemaphorePosix!TimeOut(t)
      PROVE  /\ UNCHANGED <<count, posted, admitted, patience>> /\ pc[t] = "queued"
             /\ \E point \in {"idle", "signaled"} : pc' = [pc EXCEPT ![t] = point]
  BY <1>8 DEF SemaphorePosix!SpuriousWakeUp, SemaphorePosix!TimeOut
<1>9. ASSUME NEW t \in Waiter, SemaphorePosix!PatienceElapses(t)
      PROVE  /\ UNCHANGED <<count, posted, admitted, pc>>
             /\ patience' = [patience EXCEPT ![t] = "elapsed"]
  BY <1>9 DEF SemaphorePosix!PatienceElapses
<1>10. CASE \E t \in Thread, n \in Counts : pc[t] = "idle" /\ SemaphorePosix!Post(n)
  BY <1>1, <1>4, <1>10
<1>11. CASE \E t \in Waiter, how \in {"forever", "running"} : SemaphorePosix!Wait(t, how)
  BY <1>1, <1>3, <1>5, <1>6, <1>11 DEF Queued, PosixPoints
<1>12. CASE \E t \in Waiter : SemaphorePosix!Proceed(t)
  <2>1. PICK t \in Waiter : SemaphorePosix!Proceed(t)
    BY <1>12
  <2>2. UNCHANGED <<posted, patience>> /\ pc[t] \in {"entering", "signaled"}
    BY <1>7, <2>1
  <2>3. CASE /\ count > 0 /\ count' = count - 1 /\ admitted' = admitted + 1
             /\ pc' = [pc EXCEPT ![t] = "idle"]
    <3>1. /\ pc' \in [Thread -> PosixPoints]
          /\ Cardinality(Signaled(pc')) =
               IF pc[t] = "signaled" THEN signaled - 1 ELSE signaled
      BY <1>5, <2>2, <2>3 DEF PosixPoints
    <3>2. Queued(pc') = Queued(pc)
      BY <1>1, <2>2, <2>3 DEF Queued
    <3> QED
      BY <1>1, <1>3, <2>2, <2>3, <3>1, <3>2
  <2>4. CASE /\ count = 0 /\ count' = 0 /\ admitted' = admitted
             /\ pc' = [pc EXCEPT ![t] = "queued"]
    <3>1. pc' \in [Thread -> PosixPoints] /\ Signaled(pc') = Signaled(pc) \ {t}
      BY <1>1, <2>4 DEF PosixPoints, Signaled
    <3>2. Cardinality(Signaled(pc')) \in Nat
      BY <1>3, <3>1, FS_RemoveElement, FS_CardinalityType
    <3> QED
      BY <1>1, <2>2, <2>4, <3>1, <3>2
  <2> QED
    BY <1>7, <2>1, <2>3, <2>4
<1>13. CASE \E t \in Waiter : SemaphorePosix!SpuriousWakeUp(t) \/ SemaphorePosix!TimeOut(t)
  BY <1>1, <1>3, <1>5, <1>8, <1>13 DEF Queued, PosixPoints
<1>14. CASE \E t \in Waiter : SemaphorePosix!PatienceElapses(t)
  BY <1>1, <1>9, <1>14
<1> QED
  BY <1>10, <1>11, <1>12, <1>13, <1>14 DEF SemaphorePosix!Next

(* On Linux and Windows the gate's steps keep its variables in their ranges.*)
LEMMA GateTypeStep ==
  ASSUME Gate!TypeOK, Gate!Next
  PROVE  Gate!TypeOK'
<1> USE PrimitiveAssumption
    DEF Gate!TypeOK, Gate!WaitPoints, Gate!Patience, Gate!Goto
<1>1. ASSUME NEW t \in Thread, Gate!OpenStore(t) \/ Gate!Close(t)
      PROVE  Gate!TypeOK'
  BY <1>1 DEF Gate!OpenStore, Gate!Close
<1>2. ASSUME NEW t \in Thread, Gate!OpenWake(t) PROVE Gate!TypeOK'
  BY <1>2 DEF Gate!OpenWake, Gate!PrivateFutexWakeAll
<1>3. ASSUME NEW t \in Thread, NEW how \in {"forever", "running"},
             Gate!WaitLoad(t, how)
      PROVE  Gate!TypeOK'
  BY <1>3 DEF Gate!WaitLoad
<1>4. ASSUME NEW t \in Thread,
             Gate!FutexWait(t) \/ Gate!Interrupt(t) \/ Gate!TimeOut(t)
      PROVE  Gate!TypeOK'
  BY <1>4 DEF Gate!FutexWait, Gate!Interrupt, Gate!TimeOut
<1>5. ASSUME NEW t \in Thread, Gate!Reload(t) \/ Gate!CompareClock(t)
      PROVE  Gate!TypeOK'
  BY <1>5 DEF Gate!Reload, Gate!CompareClock
<1>6. ASSUME NEW t \in Thread, Gate!PatienceElapses(t) PROVE Gate!TypeOK'
  BY <1>6 DEF Gate!PatienceElapses
<1> QED
  BY <1>1, <1>2, <1>3, <1>4, <1>5, <1>6 DEF Gate!Next, Gate!Step

(* A gate only opens in a step whose thread then has the wake-up to send,   *)
(* which leaves nobody asleep; and nobody falls asleep while it is open.    *)
LEMMA GateWakeStep ==
  ASSUME GateInv, Gate!Next
  PROVE  Gate!OpenGateWakes'
<1> USE DEF GateInv, Gate!TypeOK, Gate!OpenGateWakes, Gate!Goto
<1> SUFFICES ASSUME word' = 1, NEW s \in Thread, pc'[s] = "asleep"
             PROVE  \E u \in Thread : pc'[u] = "openWake"
  OBVIOUS
<1>1. ASSUME NEW t \in Thread, Gate!OpenStore(t) \/ Gate!Close(t)
      PROVE  \E u \in Thread : pc'[u] = "openWake"
  BY <1>1 DEF Gate!OpenStore, Gate!Close
<1>2. ASSUME NEW t \in Thread, Gate!OpenWake(t) PROVE FALSE
  <2>1. pc' = [[u \in DOMAIN pc |-> IF pc[u] = "asleep" THEN "reload" ELSE pc[u]]
                 EXCEPT ![t] = "idle"]
    BY <1>2 DEF Gate!OpenWake, Gate!PrivateFutexWakeAll
  <2> QED
    BY <2>1
<1>3. ASSUME NEW t \in Thread, NEW how \in {"forever", "running"},
             Gate!WaitLoad(t, how)
      PROVE  \E u \in Thread : pc'[u] = "openWake"
  BY <1>3 DEF Gate!WaitLoad
<1>4. ASSUME NEW t \in Thread, Gate!FutexWait(t)
      PROVE  \E u \in Thread : pc'[u] = "openWake"
  BY <1>4 DEF Gate!FutexWait, Gate!PrivateFutexWaitBlocks
<1>5. ASSUME NEW t \in Thread, Gate!Interrupt(t) \/ Gate!TimeOut(t)
      PROVE  \E u \in Thread : pc'[u] = "openWake"
  BY <1>5 DEF Gate!Interrupt, Gate!TimeOut
<1>6. ASSUME NEW t \in Thread, Gate!Reload(t) \/ Gate!CompareClock(t)
      PROVE  \E u \in Thread : pc'[u] = "openWake"
  BY <1>6 DEF Gate!Reload, Gate!CompareClock
<1>7. ASSUME NEW t \in Thread, Gate!PatienceElapses(t)
      PROVE  \E u \in Thread : pc'[u] = "openWake"
  BY <1>7 DEF Gate!PatienceElapses
<1> QED
  BY <1>1, <1>2, <1>3, <1>4, <1>5, <1>6, <1>7 DEF Gate!Next, Gate!Step

-----------------------------------------------------------------------------
(* All primitives side by side *)

(* Whichever primitive a behaviour begins with, its invariant holds there.  *)
LEMMA InitHolds ==
  Init => IInv
<1> SUFFICES ASSUME Init PROVE IInv
  OBVIOUS
<1> USE PrimitiveAssumption
<1>1. \A t \in Thread : t \notin Queued(pc) \/ pc[t] = "queued"
  BY DEF Queued
<1>2. CASE primitive = "Gate"
  <2>1. Gate!Init
    BY <1>2 DEF Init, InitOf
  <2> QED
    BY <1>2, <2>1
       DEF IInv, GateInv, Gate!Init, Gate!TypeOK, Gate!OpenGateWakes,
           Gate!WaitPoints, Gate!Patience
<1>3. CASE primitive = "SemaphorePosix"
  <2>1. SemaphorePosix!Init
    BY <1>3 DEF Init, InitOf
  <2>2. Queued(pc) = {}
    BY <2>1 DEF SemaphorePosix!Init, Queued
  <2> QED
    BY <1>3, <2>1, <2>2, SameQueue
       DEF IInv, SemaphorePosixInv, SemaphorePosix!Init, SemaphorePosix!TypeOK,
           SemaphorePosix!TicketsHaveTakers
<1>4. CASE primitive = "LatchPosix"
  <2>1. LatchPosix!Init
    BY <1>4 DEF Init, InitOf
  <2>2. Queued(pc) = {}
    BY <2>1 DEF LatchPosix!Init, Queued
  <2> QED
    BY <1>4, <2>1, <2>2, SameQueue
       DEF IInv, LatchPosixInv, LatchPosix!Init, LatchPosix!TypeOK,
           LatchPosix!SomeoneGetsThrough
<1>5. CASE primitive = "GatePosix"
  <2>1. GatePosix!Init
    BY <1>5 DEF Init, InitOf
  <2>2. Queued(pc) = {}
    BY <2>1 DEF GatePosix!Init, Queued
  <2> QED
    BY <1>5, <2>1, <2>2, SameQueue
       DEF IInv, GatePosixInv, GatePosix!Init, GatePosix!SomeoneGetsThrough,
           PosixPoints
<1> QED
  BY <1>2, <1>3, <1>4, <1>5 DEF IInv

(* A primitive's steps do not turn it into another one. *)
LEMMA StepHolds ==
  IInv /\ [Next]_vars => IInv'
<1> SUFFICES ASSUME IInv, [Next]_vars PROVE IInv'
  OBVIOUS
<1>1. UNCHANGED primitive
  BY DEF Next, One, vars
<1>2. CASE UNCHANGED vars
  <2>1. GateInv' <=> GateInv
    BY <1>2 DEF vars, GateInv, Gate!TypeOK, Gate!OpenGateWakes
  <2>2. SemaphorePosixInv' <=> SemaphorePosixInv
    BY <1>2 DEF vars, SemaphorePosixInv, SemaphorePosix!TypeOK,
                SemaphorePosix!TicketsHaveTakers, SemaphorePosix!Queued,
                SemaphorePosix!Signaled
  <2>3. LatchPosixInv' <=> LatchPosixInv
    BY <1>2 DEF vars, LatchPosixInv, LatchPosix!TypeOK, Queued,
                LatchPosix!SomeoneGetsThrough, LatchPosix!Queued
  <2>4. GatePosixInv' <=> GatePosixInv
    BY <1>2 DEF vars, GatePosixInv, Queued, GatePosix!SomeoneGetsThrough,
                GatePosix!Queued
  <2> QED
    BY <1>1, <2>1, <2>2, <2>3, <2>4 DEF IInv
<1>3. CASE Next
  <2>1. /\ primitive = "Gate" => Gate!Next
        /\ primitive = "SemaphorePosix" => SemaphorePosix!Next
        /\ primitive = "LatchPosix" => LatchPosix!Next
        /\ primitive = "GatePosix" => GatePosix!Next
    BY <1>3 DEF Next, One
  <2>2. primitive = "Gate" => GateInv'
    BY <2>1, GateTypeStep, GateWakeStep DEF IInv, GateInv
  <2>3. primitive = "SemaphorePosix" => SemaphorePosixInv'
    BY <2>1, SemaphorePosixStep DEF IInv
  <2>4. primitive = "LatchPosix" => LatchPosixInv'
    BY <2>1, LatchPosixStep DEF IInv
  <2>5. primitive = "GatePosix" => GatePosixInv'
    BY <2>1, GatePosixStep DEF IInv
  <2> QED
    BY <1>1, <2>2, <2>3, <2>4, <2>5 DEF IInv
<1> QED
  BY <1>2, <1>3

(* The inductive invariant holds throughout every behaviour. *)
LEMMA Inductive ==
  FairSpec => []IInv
  BY InitHolds, StepHolds, PTL DEF FairSpec

(* Type correctness of the Linux and Windows gate *)
THEOREM GateIsTyped ==
  FairSpec => [](primitive = "Gate" => Gate!TypeOK)
<1>1. IInv => (primitive = "Gate" => Gate!TypeOK)
  BY DEF IInv, GateInv
<1> QED
  BY <1>1, Inductive, PTL

(* On Linux and Windows, nobody is left asleep in front of an open gate     *)
(* once the calls of Open() have returned.                                  *)
THEOREM NoSleeperAtOpenGate ==
  FairSpec => []OpenGateWakes
<1>1. IInv => OpenGateWakes
  BY DEF IInv, GateInv, OpenGateWakes
<1> QED
  BY <1>1, Inductive, PTL

(* With a condition variable, no ticket is left behind while somebody is    *)
(* queued for one, and opening a latch or a gate gets a waiter through.     *)
THEOREM SignalsReachSomeone ==
  FairSpec => []PosixSignalsReachSomeone
<1>1. IInv => PosixSignalsReachSomeone
  BY DEF IInv, SemaphorePosixInv, LatchPosixInv, GatePosixInv,
         PosixSignalsReachSomeone
<1> QED
  BY <1>1, Inductive, PTL

-----------------------------------------------------------------------------
(* The condition variable builds keep the promises *)

(* The semaphore: a thread leaves with a ticket or for want of patience.    *)
LEMMA SemaphorePosixImplements ==
  ASSUME SemaphorePosix!TypeOK, SemaphorePosix!Next
  PROVE  SemaphorePosix!AbstractStep
<1> USE PrimitiveAssumption
    DEF SemaphorePosix!TypeOK, SemaphorePosix!Goto, SemaphorePosix!Abstract!vars
<1>1. ASSUME NEW n \in Counts, SemaphorePosix!Post(n)
      PROVE  SemaphorePosix!Abstract!Post(n)
  <2>1. pc' \in AfterSignals(pc, n)
    BY <1>1, SameSignals DEF SemaphorePosix!Post
  <2>2. /\ pc' \in [Thread -> PosixPoints]
        /\ \A t \in Thread :
             pc'[t] = pc[t] \/ (pc[t] = "queued" /\ pc'[t] = "signaled")
    BY <2>1, SignalFacts DEF PosixPoints
  <2> QED
    BY <1>1, <2>2 DEF SemaphorePosix!Post, SemaphorePosix!Abstract!Post
<1>3. ASSUME NEW t \in Waiter, NEW how \in {"forever", "running"},
             SemaphorePosix!Wait(t, how)
      PROVE  SemaphorePosix!Abstract!Arrive(t)
  BY <1>3 DEF SemaphorePosix!Wait, SemaphorePosix!Abstract!Arrive
<1>4. ASSUME NEW t \in Waiter, SemaphorePosix!Proceed(t)
      PROVE  SemaphorePosix!Abstract!Admit(t) \/ UNCHANGED SemaphorePosix!Abstract!vars
  BY <1>4 DEF SemaphorePosix!Proceed, SemaphorePosix!TestAndTake, SemaphorePosix!Abstract!Admit
<1>5. ASSUME NEW t \in Waiter, SemaphorePosix!TimeOut(t)
      PROVE  SemaphorePosix!Abstract!GiveUp(t)
  BY <1>5 DEF SemaphorePosix!TimeOut, SemaphorePosix!Abstract!GiveUp
<1>6. ASSUME NEW t \in Waiter,
             SemaphorePosix!SpuriousWakeUp(t) \/ SemaphorePosix!PatienceElapses(t)
      PROVE  UNCHANGED SemaphorePosix!Abstract!vars
  BY <1>6 DEF SemaphorePosix!SpuriousWakeUp, SemaphorePosix!PatienceElapses
<1> QED
  BY <1>1, <1>3, <1>4, <1>5, <1>6
     DEF SemaphorePosix!Next, SemaphorePosix!AbstractStep,
         SemaphorePosix!Abstract!Next

(* The latch: a thread leaves while the count is zero, or for want of       *)
(* patience.                                                                *)
LEMMA LatchPosixImplements ==
  ASSUME LatchPosix!TypeOK, LatchPosix!Next
  PROVE  LatchPosix!AbstractStep
<1> USE PrimitiveAssumption
    DEF LatchPosix!TypeOK, LatchPosix!Goto, LatchPosix!Abstract!vars
<1>1. ASSUME NEW n \in Counts, LatchPosix!Post(n)
      PROVE  LatchPosix!Abstract!Post(n)
  BY <1>1 DEF LatchPosix!Post, LatchPosix!Abstract!Post
<1>2. ASSUME NEW n \in Counts, LatchPosix!CountDown(n)
      PROVE  LatchPosix!Abstract!CountDown(n)
  <2>1. \E k \in {0, 1} : pc' \in AfterSignals(pc, k)
    BY <1>2, SameSignals DEF LatchPosix!CountDown
  <2>2. /\ pc' \in [Thread -> PosixPoints]
        /\ \A t \in Thread :
             pc'[t] = pc[t] \/ (pc[t] = "queued" /\ pc'[t] = "signaled")
    BY <2>1, SignalFacts DEF PosixPoints
  <2> QED
    BY <1>2, <2>2 DEF LatchPosix!CountDown, LatchPosix!Abstract!CountDown
<1>3. ASSUME NEW t \in Waiter, NEW how \in {"forever", "running"},
             LatchPosix!Wait(t, how)
      PROVE  LatchPosix!Abstract!Arrive(t)
  BY <1>3 DEF LatchPosix!Wait, LatchPosix!Abstract!Arrive
<1>4. ASSUME NEW t \in Waiter, LatchPosix!Proceed(t)
      PROVE  LatchPosix!Abstract!Pass(t) \/ UNCHANGED LatchPosix!Abstract!vars
  BY <1>4 DEF LatchPosix!Proceed, LatchPosix!Abstract!Pass
<1>5. ASSUME NEW t \in Waiter, LatchPosix!TimeOut(t)
      PROVE  LatchPosix!Abstract!GiveUp(t)
  BY <1>5 DEF LatchPosix!TimeOut, LatchPosix!Abstract!GiveUp
<1>6. ASSUME NEW t \in Waiter,
             LatchPosix!SpuriousWakeUp(t) \/ LatchPosix!PatienceElapses(t)
      PROVE  UNCHANGED LatchPosix!Abstract!vars
  BY <1>6 DEF LatchPosix!SpuriousWakeUp, LatchPosix!PatienceElapses
<1> QED
  BY <1>1, <1>2, <1>3, <1>4, <1>5, <1>6
     DEF LatchPosix!Next, LatchPosix!AbstractStep,
         LatchPosix!Abstract!Next

(* Every step of these builds is a step of the counting semaphore, or of    *)
(* the countdown latch, or invisible to it: signals, spurious wake-ups and  *)
(* the order in which threads get the mutex do not show.                    *)
THEOREM PosixBuildsImplement ==
  FairSpec => PosixImplements
<1> DEFINE Steps == /\ primitive = "SemaphorePosix" => SemaphorePosix!AbstractStep
                    /\ primitive = "LatchPosix" => LatchPosix!AbstractStep
<1>1. IInv /\ [Next]_vars => [Steps]_vars
  <2> SUFFICES ASSUME IInv, Next PROVE Steps
    OBVIOUS
  <2>1. /\ primitive = "SemaphorePosix" => SemaphorePosix!Next
        /\ primitive = "LatchPosix" => LatchPosix!Next
    BY DEF Next, One
  <2>2. /\ primitive = "SemaphorePosix" => SemaphorePosix!TypeOK
        /\ primitive = "LatchPosix" => LatchPosix!TypeOK
    BY DEF IInv, SemaphorePosixInv, LatchPosixInv
  <2> QED
    BY <2>1, <2>2, SemaphorePosixImplements, LatchPosixImplements
<1> QED
  BY <1>1, Inductive, PTL DEF FairSpec, PosixImplements
=============================================================================
