--------------------------- MODULE ServicesProofs ---------------------------
(* Theorems about the service provider, as ConcurrentMC composes it: for    *)
(* any services that applications may register, with whatever their         *)
(* factories ask for, and any number of threads, scopes and requests.       *)
EXTENDS ConcurrentMC, FiniteSetTheorems, SequenceTheorems, TLAPS,
        WellFoundedInduction

-----------------------------------------------------------------------------
(* Services: each mutex belongs to one resolution context. *)

(* A stack of resolution contexts, whatever their frames are *)
Holder == {Services!Root} \cup Scope
IsContext(c) == c = [via |-> c.via, locks |-> c.locks, frames |-> c.frames]
IsStack(s) ==
  /\ Len(s) \in Nat
  /\ s = [i \in 1 .. Len(s) |-> s[i]]
  /\ \A i \in 1 .. Len(s) : IsContext(s[i])

(* Where a thread says that it holds a mutex *)
Holding(s, m) == {i \in 1 .. Len(s) : m \in s[i].locks}

ServicesInv ==
  /\ mutex \in [Holder -> Thread \cup {Services!Nobody}]
  /\ contexts = [t \in Thread |-> contexts[t]]
  /\ \A t \in Thread : IsStack(contexts[t])
  /\ \A t \in Thread, m \in Holder :
       IF mutex[m] = t THEN \E i \in 1 .. Len(contexts[t]) : Holding(contexts[t], m) = {i}
       ELSE Holding(contexts[t], m) = {}

(* A stack is a sequence. *)
LEMMA StackIsSequence ==
  ASSUME NEW s, IsStack(s)
  PROVE  s \in Seq({s[i] : i \in 1 .. Len(s)})
<1> DEFINE S == {s[i] : i \in 1 .. Len(s)}  n == Len(s)
<1>1. n \in Nat /\ s \in [1 .. n -> S]
  BY DEF IsStack
<1> HIDE DEF S, n
<1> QED
  BY <1>1, IsASeq DEF S

(* The innermost context is taken away. *)
LEMMA Popped ==
  ASSUME NEW s, IsStack(s), s # <<>>
  PROVE  /\ Len(s) >= 1
         /\ IsStack(Services!Front(s)) /\ Len(Services!Front(s)) = Len(s) - 1
         /\ \A i \in 1 .. Len(s) - 1 : Services!Front(s)[i] = s[i]
<1> DEFINE S == {s[i] : i \in 1 .. Len(s)}  n == Len(s)  f == SubSeq(s, 1, n - 1)
<1>1. s \in Seq(S)
  BY StackIsSequence
<1>2. n \in Nat /\ \A i \in 1 .. n : IsContext(s[i])
  BY DEF IsStack
<1>3. n # 0
  BY <1>1, EmptySeq DEF IsStack
<1> HIDE DEF S
<1>4. /\ f \in Seq(S) /\ Len(f) = n - 1
      /\ \A i \in 1 .. n - 1 : f[i] = s[i]
  <2>1. 1 \in 1 .. n + 1 /\ n - 1 \in 1 - 1 .. n
    BY <1>2, <1>3
  <2>2. /\ f \in Seq(S)
        /\ Len(f) = IF 1 <= n - 1 THEN n - 1 - 1 + 1 ELSE 0
        /\ \A i \in 1 .. n - 1 - 1 + 1 : f[i] = s[1 + i - 1]
    BY <1>1, <2>1, SubSeqProperties
  <2>3. n \in Nat /\ n >= 1
    BY <1>2, <1>3
  <2> HIDE DEF n, f
  <2>4. Len(f) = n - 1
    BY <2>2, <2>3
  <2>5. ASSUME NEW i \in 1 .. n - 1 PROVE f[i] = s[i]
    <3>1. i \in 1 .. n - 1 - 1 + 1 /\ 1 + i - 1 = i
      BY <2>3
    <3> QED
      BY <2>2, <3>1
  <2> QED
    BY <2>2, <2>4, <2>5
<1>5. f = [i \in 1 .. Len(f) |-> f[i]]
  BY <1>4, LenProperties
<1>6. IsStack(f)
  BY <1>2, <1>4, <1>5 DEF IsStack
<1> QED
  BY <1>2, <1>3, <1>4, <1>6 DEF Services!Front

(* A context is put on top. *)
LEMMA Pushed ==
  ASSUME NEW s, IsStack(s), NEW c, IsContext(c)
  PROVE  /\ IsStack(Append(s, c)) /\ Len(Append(s, c)) = Len(s) + 1
         /\ Append(s, c)[Len(s) + 1] = c
         /\ \A i \in 1 .. Len(s) : Append(s, c)[i] = s[i]
<1> DEFINE S == {s[i] : i \in 1 .. Len(s)} \cup {c}  n == Len(s)  a == Append(s, c)
<1>1. s \in Seq(S)
  <2> DEFINE R == {s[i] : i \in 1 .. Len(s)}
  <2>1. s \in Seq(R) /\ R \subseteq S
    BY StackIsSequence
  <2> HIDE DEF R, S
  <2> QED
    BY <2>1, SeqMonotonic
<1>2. c \in S /\ n \in Nat /\ \A i \in 1 .. n : IsContext(s[i])
  BY DEF IsStack
<1> HIDE DEF S
<1>3. /\ a \in Seq(S) /\ Len(a) = n + 1 /\ a[n + 1] = c
      /\ \A i \in 1 .. n : a[i] = s[i]
  BY <1>1, <1>2, AppendProperties
<1>4. a = [i \in 1 .. Len(a) |-> a[i]]
  BY <1>3, LenProperties
<1>5. ASSUME NEW i \in 1 .. Len(a) PROVE IsContext(a[i])
  <2>1. i \in 1 .. n \/ i = n + 1
    BY <1>2, <1>3
  <2> QED
    BY <1>2, <1>3, <2>1
<1> QED
  BY <1>2, <1>3, <1>4, <1>5 DEF IsStack

(* The innermost context becomes another one. *)
LEMMA Replaced ==
  ASSUME NEW s, IsStack(s), s # <<>>, NEW c, IsContext(c)
  PROVE  /\ IsStack(Append(Services!Front(s), c))
         /\ Len(Append(Services!Front(s), c)) = Len(s)
         /\ Append(Services!Front(s), c)[Len(s)] = c
         /\ \A i \in 1 .. Len(s) - 1 : Append(Services!Front(s), c)[i] = s[i]
<1> DEFINE f == Services!Front(s)
<1>1. /\ Len(s) \in Nat /\ Len(s) >= 1 /\ IsStack(f) /\ Len(f) = Len(s) - 1
      /\ \A i \in 1 .. Len(s) - 1 : f[i] = s[i]
  BY Popped DEF IsStack
<1> HIDE DEF f
<1>2. /\ IsStack(Append(f, c)) /\ Len(Append(f, c)) = Len(f) + 1
      /\ Append(f, c)[Len(f) + 1] = c
      /\ \A i \in 1 .. Len(f) : Append(f, c)[i] = f[i]
  BY <1>1, Pushed
<1> QED
  BY <1>1, <1>2 DEF f
-----------------------------------------------------------------------------

(* What a thread holds after a step *)
LEMMA HoldingReplaced ==
  ASSUME NEW s, IsStack(s), s # <<>>, NEW c, IsContext(c), NEW m
  PROVE  /\ (m \in c.locks <=> m \in Services!Last(s).locks) =>
              Holding(Append(Services!Front(s), c), m) = Holding(s, m)
         /\ m \in c.locks /\ m \notin Services!Last(s).locks =>
              Holding(Append(Services!Front(s), c), m) = Holding(s, m) \cup {Len(s)}
<1> DEFINE r == Append(Services!Front(s), c)
<1>1. /\ Len(s) \in Nat /\ Len(s) >= 1
  BY Popped DEF IsStack
<1>2. /\ Len(r) = Len(s) /\ r[Len(s)] = c
      /\ \A i \in 1 .. Len(s) - 1 : r[i] = s[i]
  BY Replaced
<1> HIDE DEF r
<1>3. ASSUME NEW i \in 1 .. Len(s), i # Len(s) PROVE r[i] = s[i]
  BY <1>1, <1>2, <1>3
<1>4. Services!Last(s) = s[Len(s)]
  BY DEF Services!Last
<1>5. ASSUME m \in c.locks <=> m \in Services!Last(s).locks
      PROVE  \A i \in 1 .. Len(s) : m \in r[i].locks <=> m \in s[i].locks
  BY <1>2, <1>3, <1>4, <1>5
<1>6. ASSUME m \in c.locks
      PROVE  \A i \in 1 .. Len(s) :
               m \in r[i].locks <=> m \in s[i].locks \/ i = Len(s)
  BY <1>2, <1>3, <1>6
<1> QED
  BY <1>1, <1>2, <1>5, <1>6 DEF Holding, r

LEMMA HoldingPushed ==
  ASSUME NEW s, IsStack(s), NEW c, IsContext(c), c.locks = {}, NEW m
  PROVE  Holding(Append(s, c), m) = Holding(s, m)
<1> DEFINE r == Append(s, c)
<1>1. /\ Len(s) \in Nat /\ Len(r) = Len(s) + 1 /\ r[Len(s) + 1] = c
      /\ \A i \in 1 .. Len(s) : r[i] = s[i]
  BY Pushed DEF IsStack
<1> HIDE DEF r
<1>2. \A i \in 1 .. Len(s) + 1 : i \in 1 .. Len(s) \/ i = Len(s) + 1
  BY <1>1
<1>3. 1 .. Len(s) \subseteq 1 .. Len(s) + 1
  BY <1>1
<1> QED
  BY <1>1, <1>2, <1>3 DEF Holding, r

LEMMA HoldingPopped ==
  ASSUME NEW s, IsStack(s), s # <<>>, NEW m
  PROVE  Holding(Services!Front(s), m) = Holding(s, m) \ {Len(s)}
<1> DEFINE f == Services!Front(s)
<1>1. /\ Len(s) \in Nat /\ Len(s) >= 1 /\ Len(f) = Len(s) - 1
      /\ \A i \in 1 .. Len(s) - 1 : f[i] = s[i]
  BY Popped DEF IsStack
<1> HIDE DEF f
<1>2. \A i : i \in 1 .. Len(s) - 1 <=> i \in 1 .. Len(s) /\ i # Len(s)
  BY <1>1
<1> QED
  BY <1>1, <1>2 DEF Holding, f
-----------------------------------------------------------------------------

(* A step of one thread that acquires and releases nothing *)
LEMMA HoldsOn ==
  ASSUME ServicesInv, NEW t \in Thread, NEW r, IsStack(r),
         contexts' = [contexts EXCEPT ![t] = r], mutex' = mutex,
         \A m : Holding(r, m) = Holding(contexts[t], m)
  PROVE  ServicesInv'
<1>1. /\ contexts'[t] = r /\ \A u \in Thread \ {t} : contexts'[u] = contexts[u]
      /\ contexts' = [u \in Thread |-> contexts'[u]]
  BY DEF ServicesInv
<1>2. \A u \in Thread : IsStack(contexts'[u])
  BY <1>1 DEF ServicesInv
<1>3. ASSUME NEW u \in Thread, NEW m \in Holder
      PROVE  Holding(contexts'[u], m) = Holding(contexts[u], m)
  BY <1>1
<1>4. ASSUME NEW u \in Thread, NEW m \in Holder
      PROVE  IF mutex'[m] = u
             THEN \E i \in 1 .. Len(contexts'[u]) : Holding(contexts'[u], m) = {i}
             ELSE Holding(contexts'[u], m) = {}
  <2>1. CASE mutex[m] = u
    <3>1. PICK i : Holding(contexts[u], m) = {i}
      BY <2>1 DEF ServicesInv
    <3>2. Holding(contexts'[u], m) = {i}
      BY <1>3, <3>1
    <3>3. i \in 1 .. Len(contexts'[u])
      BY <3>2 DEF Holding
    <3> QED
      BY <2>1, <3>2, <3>3
  <2>2. CASE mutex[m] # u
    BY <1>3, <2>2 DEF ServicesInv
  <2> QED
    BY <2>1, <2>2
<1> QED
  BY <1>1, <1>2, <1>4 DEF ServicesInv

(* The innermost context with other frames holds what it held. *)
LEMMA OtherFrames ==
  ASSUME ServicesInv, NEW t \in Thread, Services!Busy(t), NEW f
  PROVE  LET c == [Services!Current(t) EXCEPT !.frames = f]
         IN /\ IsContext(c) /\ c.locks = Services!Current(t).locks
            /\ IsStack(contexts[t]) /\ contexts[t] # <<>>
            /\ Services!Current(t) = Services!Last(contexts[t])
            /\ IsContext(Services!Current(t))
<1>1. IsStack(contexts[t]) /\ contexts[t] # <<>>
  BY DEF ServicesInv, Services!Busy
<1>2. Len(contexts[t]) \in 1 .. Len(contexts[t])
  BY <1>1, Popped DEF IsStack
<1>3. IsContext(Services!Current(t))
  BY <1>1, <1>2 DEF IsStack, Services!Current, Services!Last
<1> QED
  BY <1>1, <1>3 DEF IsContext, Services!Current

(* What JobDone() and its like do *)
LEMMA FramesKeep ==
  ASSUME ServicesInv, NEW t \in Thread, Services!Busy(t), NEW f,
         contexts' = Services!WithFrames(t, Services!Current(t), f), mutex' = mutex
  PROVE  ServicesInv'
<1> DEFINE c == [Services!Current(t) EXCEPT !.frames = f]
           r == Append(Services!Front(contexts[t]), c)
<1>1. /\ IsContext(c) /\ c.locks = Services!Last(contexts[t]).locks
      /\ IsStack(contexts[t]) /\ contexts[t] # <<>>
  BY OtherFrames
<1>2. contexts' = [contexts EXCEPT ![t] = r]
  BY DEF Services!WithFrames, Services!WithContext
<1> HIDE DEF c
<1>3. IsStack(r) /\ \A m : Holding(r, m) = Holding(contexts[t], m)
  BY <1>1, Replaced, HoldingReplaced
<1> HIDE DEF r
<1> QED
  BY <1>2, <1>3, HoldsOn

(* A request, or the factory of a service, opens a context. *)
LEMMA OpeningKeeps ==
  ASSUME ServicesInv, NEW t \in Thread,
         \/ Services!Peek(t)
         \/ \E h \in DOMAIN slots, s \in Services!Service,
               method \in {"get", "try", "all", "factory"} :
              Services!Request(t, h, method, s)
  PROVE  ServicesInv'
<1>1. ASSUME NEW h, NEW f PROVE IsContext(Services!Context(h, f))
                                /\ Services!Context(h, f).locks = {}
  BY DEF IsContext, Services!Context
<1>2. CASE Services!Peek(t)
  <2>1. Services!Busy(t) /\ mutex' = mutex
    BY <1>2 DEF Services!Peek, Services!Due
  <2>2. CASE Services!JobDone(t)
    BY <2>1, <2>2, FramesKeep DEF Services!JobDone
  <2>3. ASSUME NEW d, IsContext(d), d.locks = {},
               contexts' = [contexts EXCEPT ![t] =
                 Append(Services!WithFrames(t, Services!Current(t),
                                            Services!FramesDone(t))[t], d)]
        PROVE  ServicesInv'
    <3> DEFINE f == Services!FramesDone(t)
               c == [Services!Current(t) EXCEPT !.frames = f]
               r == Append(Services!Front(contexts[t]), c)
    <3>1. /\ IsContext(c) /\ c.locks = Services!Last(contexts[t]).locks
          /\ IsStack(contexts[t]) /\ contexts[t] # <<>>
      BY <2>1, OtherFrames
    <3>2. Services!WithFrames(t, Services!Current(t), f)[t] = r
      BY DEF Services!WithFrames, Services!WithContext, ServicesInv
    <3> HIDE DEF c
    <3>3. IsStack(r) /\ \A m : Holding(r, m) = Holding(contexts[t], m)
      BY <3>1, Replaced, HoldingReplaced
    <3>4. contexts' = [contexts EXCEPT ![t] = Append(r, d)]
      BY <2>3, <3>2
    <3> HIDE DEF r
    <3>5. /\ IsStack(Append(r, d))
          /\ \A m : Holding(Append(r, d), m) = Holding(contexts[t], m)
      BY <2>3, <3>3, Pushed, HoldingPushed
    <3> QED
      BY <2>1, <3>4, <3>5, HoldsOn
  <2> QED
    BY <1>1, <1>2, <2>2, <2>3 DEF Services!Peek
<1>3. ASSUME NEW h, NEW s, NEW method, Services!Request(t, h, method, s)
      PROVE  ServicesInv'
  <2> DEFINE d == Services!Context(h, Services!Frame(Services!NoEntry,
                                        Services!JobsOutside(h, method, s)))
  <2>1. /\ contexts[t] = <<>> /\ contexts' = [contexts EXCEPT ![t] = <<d>>]
        /\ mutex' = mutex
    BY <1>3 DEF Services!Request, Services!Busy
  <2>2. IsContext(d) /\ d.locks = {}
    BY <1>1
  <2> HIDE DEF d
  <2>3. <<d>> = Append(<<>>, d)
    OBVIOUS
  <2>4. IsStack(<<>>)
    BY <2>1 DEF ServicesInv
  <2> DEFINE e == <<>>  r == Append(e, d)
  <2>5. IsStack(e) /\ e = contexts[t]
    BY <2>1, <2>4
  <2> HIDE DEF e
  <2>6. IsStack(r)
    BY <2>2, <2>5, Pushed
  <2>7. \A m : Holding(r, m) = Holding(e, m)
    BY <2>2, <2>5, HoldingPushed
  <2>8. r = <<d>>
    BY <2>3 DEF e
  <2> HIDE DEF r
  <2>9. contexts' = [contexts EXCEPT ![t] = r]
    BY <2>1, <2>8
  <2> QED
    BY <2>1, <2>5, <2>6, <2>7, <2>9, HoldsOn
<1> QED
  BY <1>2, <1>3

(* A step of one thread, in which it acquires mutexes that nobody holds or  *)
(* releases some that it holds                                              *)
LEMMA MutexesMove ==
  ASSUME ServicesInv, NEW t \in Thread, NEW r, IsStack(r),
         contexts' = [contexts EXCEPT ![t] = r],
         mutex' \in [Holder -> Thread \cup {Services!Nobody}],
         \A m \in Holder, u \in Thread \ {t} : mutex'[m] = u <=> mutex[m] = u,
         \A m \in Holder : IF mutex'[m] = t THEN Holding(r, m) # {} ELSE Holding(r, m) = {},
         \A m \in Holder : \A i, j \in Holding(r, m) : i = j
  PROVE  ServicesInv'
<1>1. /\ contexts'[t] = r /\ \A u \in Thread \ {t} : contexts'[u] = contexts[u]
      /\ contexts' = [u \in Thread |-> contexts'[u]]
  BY DEF ServicesInv
<1>2. \A u \in Thread : IsStack(contexts'[u])
  BY <1>1 DEF ServicesInv
<1>3. ASSUME NEW u \in Thread, NEW m \in Holder
      PROVE  IF mutex'[m] = u
             THEN \E i \in 1 .. Len(contexts'[u]) : Holding(contexts'[u], m) = {i}
             ELSE Holding(contexts'[u], m) = {}
  <2>1. CASE u = t
    <3>1. CASE mutex'[m] = t
      <4>1. PICK i : i \in Holding(r, m)
        BY <3>1
      <4>2. Holding(r, m) = {i}
        BY <4>1
      <4>3. i \in 1 .. Len(r)
        BY <4>1 DEF Holding
      <4> QED
        BY <1>1, <2>1, <3>1, <4>2, <4>3
    <3>2. CASE mutex'[m] # t
      BY <1>1, <2>1, <3>2
    <3> QED
      BY <3>1, <3>2
  <2>2. CASE u # t
    <3>1. contexts'[u] = contexts[u] /\ (mutex'[m] = u <=> mutex[m] = u)
      BY <1>1, <2>2
    <3>2. IF mutex[m] = u
          THEN \E i \in 1 .. Len(contexts[u]) : Holding(contexts[u], m) = {i}
          ELSE Holding(contexts[u], m) = {}
      BY DEF ServicesInv
    <3> QED
      BY <3>1, <3>2
  <2> QED
    BY <2>1, <2>2
<1> QED
  BY <1>1, <1>2, <1>3 DEF ServicesInv

(* What the invariant says of one thread and one mutex *)
LEMMA HeldOnce ==
  ASSUME ServicesInv, NEW t \in Thread, NEW m \in Holder
  PROVE  /\ mutex[m] = t <=> Holding(contexts[t], m) # {}
         /\ \A i, j \in Holding(contexts[t], m) : i = j
  BY DEF ServicesInv

(* A mutex is locked. *)
LEMMA AcquireKeeps ==
  ASSUME ServicesInv, NEW t \in Thread, Services!Acquire(t),
         Services!Nobody \notin Thread
  PROVE  ServicesInv'
<1>1. Services!Busy(t)
  BY DEF Services!Acquire, Services!Due
<1> DEFINE m == Services!Job(t).mutex
           s == contexts[t]
           n == Len(s)
           f == Services!FramesDone(t)
           b == [Services!Current(t) EXCEPT !.locks = @ \cup {m}]
           c == [b EXCEPT !.frames = f]
           r == Append(Services!Front(s), c)
<1>2. CASE Services!JobDone(t) /\ UNCHANGED mutex
  BY <1>1, <1>2, FramesKeep DEF Services!JobDone
<1>3. CASE /\ m \notin Services!Current(t).locks /\ mutex[m] = Services!Nobody
           /\ mutex' = [mutex EXCEPT ![m] = t]
           /\ contexts' = Services!WithFrames(t, b, f)
  <2>1. /\ IsStack(s) /\ s # <<>> /\ Services!Current(t) = Services!Last(s)
        /\ IsContext(Services!Current(t))
    BY <1>1, OtherFrames
  <2>2. IsContext(c) /\ c.locks = Services!Last(s).locks \cup {m}
    <3> DEFINE d == Services!Current(t)
    <3>1. d = [via |-> d.via, locks |-> d.locks, frames |-> d.frames]
      BY <2>1 DEF IsContext
    <3> HIDE DEF d, m
    <3>2. b = [via |-> d.via, locks |-> d.locks \cup {m}, frames |-> d.frames]
      BY <3>1 DEF d
    <3> HIDE DEF b, f
    <3>3. c = [via |-> d.via, locks |-> d.locks \cup {m}, frames |-> f]
      BY <3>2
    <3> HIDE DEF c
    <3>4. IsContext(c) /\ c.locks = d.locks \cup {m}
      BY <3>3 DEF IsContext
    <3> QED
      BY <2>1, <3>4 DEF d
  <2>3. contexts' = [contexts EXCEPT ![t] = r]
    BY <1>3 DEF Services!WithFrames, Services!WithContext
  <2>4. m \notin Services!Last(s).locks
    BY <1>3, <2>1
  <2>5. n \in 1 .. n
    BY <2>1, Popped DEF IsStack
  <2> HIDE DEF b, c, m
  <2>6. IsStack(r)
    BY <2>1, <2>2, Replaced
  <2>7. \A k : k # m => Holding(r, k) = Holding(s, k)
    <3>1. ASSUME NEW k, k # m  PROVE Holding(r, k) = Holding(s, k)
      <4>1. k \in c.locks <=> k \in Services!Last(s).locks
        BY <2>2, <3>1
      <4> QED
        BY <2>1, <2>2, <4>1, HoldingReplaced
    <3> QED
      BY <3>1
  <2>8. Holding(r, m) = Holding(s, m) \cup {n}
    BY <2>1, <2>2, <2>4, HoldingReplaced
  <2> HIDE DEF r, s, n
  <2>9. m \in Holder => Holding(r, m) = {n}
    <3>1. m \in Holder => Holding(s, m) = {}
      BY <1>3, HeldOnce DEF s
    <3> QED
      BY <2>8, <3>1
  <2>10. /\ mutex' \in [Holder -> Thread \cup {Services!Nobody}]
         /\ m \in Holder => mutex'[m] = t
         /\ \A k \in Holder : k # m => mutex'[k] = mutex[k]
    BY <1>3 DEF ServicesInv
  <2>11. \A k \in Holder, u \in Thread \ {t} : mutex'[k] = u <=> mutex[k] = u
    BY <1>3, <2>10
  <2>12. ASSUME NEW k \in Holder
         PROVE  /\ IF mutex'[k] = t THEN Holding(r, k) # {} ELSE Holding(r, k) = {}
                /\ \A i, j \in Holding(r, k) : i = j
    <3>1. CASE k = m
      BY <2>9, <2>10, <3>1
    <3>2. CASE k # m
      BY <2>7, <2>10, <3>2, HeldOnce DEF s
    <3> QED
      BY <3>1, <3>2
  <2> QED
    BY <2>3, <2>6, <2>10, <2>11, <2>12, MutexesMove
<1> QED
  BY <1>2, <1>3 DEF Services!Acquire

(* A service is activated, or its factory returns. *)
LEMMA ConstructionKeeps ==
  ASSUME ServicesInv, NEW t \in Thread,
         Services!ActivateService(t) \/ Services!Construct(t)
  PROVE  ServicesInv'
<1>1. CASE Services!ActivateService(t)
  <2>1. Services!Busy(t) /\ mutex' = mutex
    BY <1>1 DEF Services!ActivateService, Services!Due
  <2>2. \E f : contexts' = Services!WithFrames(t, Services!Current(t), f)
    BY <1>1 DEF Services!ActivateService, Services!JobDone
  <2> QED
    BY <2>1, <2>2, FramesKeep
<1>2. CASE Services!Construct(t)
  <2>1. Services!Busy(t) /\ mutex' = mutex
    BY <1>2 DEF Services!Construct
  <2>2. \E f : contexts' = Services!WithFrames(t, Services!Current(t), f)
    BY <1>2 DEF Services!Construct
  <2> QED
    BY <2>1, <2>2, FramesKeep
<1> QED
  BY <1>1, <1>2

(* What is released when a set of mutexes is, all of them held by the thread*)
LEMMA Releasing ==
  ASSUME ServicesInv, NEW t \in Thread, Services!Nobody \notin Thread, NEW held,
         \A m \in Holder \cap held : mutex[m] = t,
         mutex' = Services!Released(held)
  PROVE  /\ mutex' \in [Holder -> Thread \cup {Services!Nobody}]
         /\ \A m \in Holder : /\ m \in held => mutex'[m] = Services!Nobody
                              /\ m \notin held => mutex'[m] = mutex[m]
         /\ \A m \in Holder, u \in Thread \ {t} : mutex'[m] = u <=> mutex[m] = u
<1>1. mutex' = [m \in Holder |-> IF m \in held THEN Services!Nobody ELSE mutex[m]]
  BY DEF ServicesInv, Services!Released
<1>2. mutex \in [Holder -> Thread \cup {Services!Nobody}]
  BY DEF ServicesInv
<1> QED
  BY <1>1, <1>2

(* A context ends. *)
LEMMA CloseKeeps ==
  ASSUME ServicesInv, NEW t \in Thread, Services!CloseContext(t),
         Services!Nobody \notin Thread
  PROVE  ServicesInv'
<1> DEFINE s == contexts[t]
           n == Len(s)
           r == Services!Front(s)
           held == Services!Current(t).locks
<1>1. /\ IsStack(s) /\ s # <<>>
      /\ contexts' = [contexts EXCEPT ![t] = r]
      /\ mutex' = Services!Released(held)
  BY DEF Services!CloseContext, Services!Busy, ServicesInv
<1>2. n \in 1 .. n /\ IsStack(r)
  <2>1. n >= 1 /\ IsStack(r)
    BY <1>1, Popped
  <2>2. n \in Nat
    BY <1>1 DEF IsStack
  <2> QED
    BY <2>1, <2>2
<1>3. \A m : Holding(r, m) = Holding(s, m) \ {n}
  BY <1>1, HoldingPopped
<1>4. \A m : m \in held <=> n \in Holding(s, m)
  BY <1>2 DEF Holding, Services!Current, Services!Last
<1> HIDE DEF n, r, held
<1>5. \A m \in Holder \cap held : mutex[m] = t
  BY <1>4, HeldOnce
<1>6. /\ mutex' \in [Holder -> Thread \cup {Services!Nobody}]
      /\ \A m \in Holder : /\ m \in held => mutex'[m] = Services!Nobody
                           /\ m \notin held => mutex'[m] = mutex[m]
      /\ \A m \in Holder, u \in Thread \ {t} : mutex'[m] = u <=> mutex[m] = u
  BY <1>1, <1>5, Releasing
<1>7. ASSUME NEW m \in Holder
      PROVE  /\ IF mutex'[m] = t THEN Holding(r, m) # {} ELSE Holding(r, m) = {}
             /\ \A i, j \in Holding(r, m) : i = j
  <2>1. /\ mutex[m] = t <=> Holding(s, m) # {}
        /\ \A i, j \in Holding(s, m) : i = j
    BY HeldOnce
  <2> HIDE DEF s
  <2>2. CASE m \in held
    <3>1. Holding(r, m) = {}
      BY <1>3, <1>4, <2>1, <2>2
    <3>2. mutex'[m] # t
      BY <1>6, <2>2
    <3> QED
      BY <3>1, <3>2
  <2>3. CASE m \notin held
    <3>1. Holding(r, m) = Holding(s, m) /\ mutex'[m] = mutex[m]
      BY <1>3, <1>4, <1>6, <2>3
    <3> QED
      BY <2>1, <3>1
  <2> QED
    BY <2>2, <2>3
<1> QED
  BY <1>1, <1>2, <1>6, <1>7, MutexesMove

(* An exception ends all of a thread's contexts. *)
LEMMA UnwindKeeps ==
  ASSUME ServicesInv, NEW t \in Thread, NEW what, Services!Unwind(t, what),
         Services!Nobody \notin Thread
  PROVE  ServicesInv'
<1> DEFINE s == contexts[t]
           e == <<>>
           held == UNION {c.locks : c \in Services!ToSet(s)}
<1>1. /\ IsStack(s) /\ contexts' = [contexts EXCEPT ![t] = e]
      /\ mutex' = Services!Released(held)
  BY DEF Services!Unwind, ServicesInv
<1>2. IsStack(e) /\ \A m : Holding(e, m) = {}
  BY DEF IsStack, Holding
<1>3. \A m : m \in held <=> Holding(s, m) # {}
  <2>1. DOMAIN s = 1 .. Len(s)
    BY <1>1 DEF IsStack
  <2>2. Services!ToSet(s) = {s[i] : i \in 1 .. Len(s)}
    BY <2>1 DEF Services!ToSet
  <2> QED
    BY <2>2 DEF Holding
<1> HIDE DEF e, held
<1>4. \A m \in Holder : m \in held <=> mutex[m] = t
  BY <1>3, HeldOnce
<1>5. /\ mutex' \in [Holder -> Thread \cup {Services!Nobody}]
      /\ \A m \in Holder : /\ m \in held => mutex'[m] = Services!Nobody
                           /\ m \notin held => mutex'[m] = mutex[m]
      /\ \A m \in Holder, u \in Thread \ {t} : mutex'[m] = u <=> mutex[m] = u
  BY <1>1, <1>4, Releasing
<1>6. \A m \in Holder : mutex'[m] # t
  BY <1>4, <1>5
<1> QED
  BY <1>1, <1>2, <1>5, <1>6, MutexesMove

(* Every step of the services keeps the invariant. *)
LEMMA ServicesStep ==
  ASSUME ServicesInv, Services!Next, Services!Nobody \notin Thread
  PROVE  ServicesInv'
<1>1. CASE UNCHANGED <<mutex, contexts>>
  BY <1>1 DEF ServicesInv, Holding
<1>2. ASSUME NEW t \in Thread, Services!Continue(t)  PROVE ServicesInv'
  <2>1. CASE Services!ThrowUnresolved(t) \/ Services!ThrowCyclic(t)
             \/ Services!FactoryThrows(t)
    BY <2>1, UnwindKeeps
    DEF Services!ThrowUnresolved, Services!ThrowCyclic, Services!FactoryThrows
  <2> QED
    BY <1>2, <2>1, OpeningKeeps, AcquireKeeps, ConstructionKeeps, CloseKeeps
    DEF Services!Continue
<1>3. CASE \/ Services!Register \/ Services!BuildServiceProvider
           \/ \E h \in Scope : Services!CreateScope(h)
  BY <1>1, <1>3 DEF Services!Register, Services!BuildServiceProvider,
                    Services!CreateScope
<1> QED
  BY <1>2, <1>3, OpeningKeeps DEF Services!Next

-----------------------------------------------------------------------------
(* Services: sequences of jobs. *)

(* What holds of zero and of the successor of each number that it holds of  *)
(* holds of every number.                                                   *)
LEMMA EveryNumber ==
  ASSUME NEW S, 0 \in S, \A n \in Nat : n \in S => n + 1 \in S
  PROVE  Nat \subseteq S
<1> DEFINE R == {p \in Nat \X Nat : p[1] < p[2]}
<1>1. IsWellFoundedOn(R, Nat)
  BY NatLessThanWellFounded DEF OpToRel
<1>2. \A x, y \in Nat : <<y, x>> \notin R => x <= y
  OBVIOUS
<1> HIDE DEF R
<1> SUFFICES ASSUME Nat \ S # {}  PROVE FALSE
  OBVIOUS
<1>3. PICK x \in Nat \ S : \A y \in Nat \ S : <<y, x>> \notin R
  BY <1>1, WFMin
<1>4. \A y \in Nat \ S : x <= y
  BY <1>2, <1>3
<1>5. x # 0 /\ x - 1 \in Nat /\ x - 1 + 1 = x
  BY <1>3
<1>6. x - 1 \in S
  BY <1>4, <1>5
<1> QED
  BY <1>3, <1>5, <1>6

(* Sequences that are put behind one another: each place comes from a place *)
(* of one of them, with what is in front of it there.                       *)
ComesFrom(all, p, part) ==
  \E q \in 1 .. Len(part) :
    q <= p /\ \A r \in 1 .. q : all[p - q + r] = part[r]
Contains(all, part) ==
  \A q \in 1 .. Len(part) : \E p \in 1 .. Len(all) : all[p] = part[q]
IsFlat(flat, seqs, n) ==
  /\ \A p \in 1 .. Len(flat) : \E i \in 1 .. n : ComesFrom(flat, p, seqs[i])
  /\ \A i \in 1 .. n : Contains(flat, seqs[i])

LEMMA Concatenated ==
  ASSUME NEW S, NEW front \in Seq(S), NEW back \in Seq(S)
  PROVE  /\ front \o back \in Seq(S)
         /\ \A p \in 1 .. Len(front \o back) :
              p \in 1 .. Len(front) \/ ComesFrom(front \o back, p, back)
         /\ \A p \in 1 .. Len(front) : p \in 1 .. Len(front \o back)
         /\ \A p \in 1 .. Len(front) : (front \o back)[p] = front[p]
         /\ Contains(front \o back, back)
<1> DEFINE a == Len(front)  b == Len(back)  all == front \o back
<1>1. a \in Nat /\ b \in Nat
  BY LenProperties
<1>2. /\ all \in Seq(S) /\ Len(all) = a + b
      /\ \A i \in 1 .. a + b : all[i] = IF i <= a THEN front[i] ELSE back[i - a]
  BY ConcatProperties
<1> HIDE DEF all, a, b
<1>3. ASSUME NEW p \in 1 .. a + b, p > a  PROVE ComesFrom(all, p, back)
  <2>1. p - a \in 1 .. b /\ p - a <= p
    BY <1>1, <1>3
  <2>2. ASSUME NEW r \in 1 .. p - a  PROVE all[p - (p - a) + r] = back[r]
    <3> DEFINE x == p - (p - a) + r
    <3>1. x \in 1 .. a + b /\ ~(x <= a) /\ x - a = r
      BY <1>1, <1>3
    <3> HIDE DEF x
    <3>2. all[x] = back[r]
      BY <1>2, <3>1
    <3> QED
      BY <3>2 DEF x
  <2> DEFINE q == p - a
  <2>3. q \in 1 .. Len(back) /\ q <= p /\ \A r \in 1 .. q : all[p - q + r] = back[r]
    BY <2>1, <2>2 DEF b
  <2> HIDE DEF q
  <2> QED
    BY <2>3 DEF ComesFrom
<1>4. ASSUME NEW p \in 1 .. a  PROVE p \in 1 .. a + b /\ all[p] = front[p]
  <2>1. p \in 1 .. a + b /\ p <= a
    BY <1>1
  <2> QED
    BY <1>2, <2>1
<1>5. ASSUME NEW q \in 1 .. b  PROVE \E p \in 1 .. a + b : all[p] = back[q]
  <2> DEFINE x == a + q
  <2>1. x \in 1 .. a + b /\ ~(x <= a) /\ x - a = q
    BY <1>1
  <2> HIDE DEF x
  <2> QED
    BY <1>2, <2>1
<1>6. Contains(all, back)
  <2>1. Len(all) = a + b /\ Len(back) = b
    BY <1>2 DEF b
  <2> QED
    BY <1>5, <2>1 DEF Contains
<1>7. \A p \in 1 .. a + b : p \in 1 .. a \/ p > a
  BY <1>1
<1> QED
  BY <1>2, <1>3, <1>4, <1>6, <1>7 DEF a, all

LEMMA ComesFromFront ==
  ASSUME NEW S, NEW front \in Seq(S), NEW back \in Seq(S), NEW part,
         NEW p \in 1 .. Len(front), Len(part) \in Nat, ComesFrom(front, p, part)
  PROVE  ComesFrom(front \o back, p, part)
<1> DEFINE all == front \o back  a == Len(front)
<1>1. \A i \in 1 .. a : all[i] = front[i]
  BY Concatenated
<1>2. a \in Nat
  BY LenProperties
<1>3. PICK q \in 1 .. Len(part) : q <= p /\ \A r \in 1 .. q : front[p - q + r] = part[r]
  BY DEF ComesFrom
<1> HIDE DEF all
<1>4. \A r \in 1 .. q : p - q + r \in 1 .. a
  BY <1>2, <1>3
<1>5. \A r \in 1 .. q : all[p - q + r] = part[r]
  BY <1>1, <1>3, <1>4
<1> QED
  BY <1>3, <1>5 DEF ComesFrom, all

LEMMA FlatStep ==
  ASSUME NEW S, NEW seqs, NEW n \in Nat, NEW flat \in Seq(S), seqs[n + 1] \in Seq(S),
         \A i \in 1 .. n : Len(seqs[i]) \in Nat, IsFlat(flat, seqs, n)
  PROVE  /\ flat \o seqs[n + 1] \in Seq(S)
         /\ IsFlat(flat \o seqs[n + 1], seqs, n + 1)
<1> DEFINE last == seqs[n + 1]  all == flat \o last
<1>1. n + 1 \in 1 .. n + 1 /\ \A i \in 1 .. n + 1 : i \in 1 .. n \/ i = n + 1
  OBVIOUS
<1>2. \A i \in 1 .. n : i \in 1 .. n + 1
  OBVIOUS
<1>3. /\ all \in Seq(S)
      /\ \A p \in 1 .. Len(all) : p \in 1 .. Len(flat) \/ ComesFrom(all, p, last)
      /\ \A p \in 1 .. Len(flat) : p \in 1 .. Len(all)
      /\ \A p \in 1 .. Len(flat) : all[p] = flat[p]
      /\ Contains(all, last)
  <2> HIDE DEF last
  <2> QED
    BY Concatenated DEF last
<1>4. ASSUME NEW p \in 1 .. Len(all)
      PROVE  \E i \in 1 .. n + 1 : ComesFrom(all, p, seqs[i])
  <2>1. CASE p \in 1 .. Len(flat)
    <3>1. PICK i \in 1 .. n : ComesFrom(flat, p, seqs[i])
      BY <2>1 DEF IsFlat
    <3>2. ComesFrom(all, p, seqs[i])
      <4> HIDE DEF last
      <4> QED
        BY <2>1, <3>1, ComesFromFront DEF last
    <3> QED
      BY <1>2, <3>2
  <2>2. CASE ComesFrom(all, p, last)
    BY <1>1, <2>2
  <2> QED
    BY <1>3, <2>1, <2>2
<1>5. ASSUME NEW i \in 1 .. n + 1  PROVE Contains(all, seqs[i])
  <2>1. CASE i \in 1 .. n
    <3>1. Contains(flat, seqs[i])
      BY <2>1 DEF IsFlat
    <3> HIDE DEF all
    <3> QED
      BY <1>3, <3>1 DEF Contains
  <2> QED
    BY <1>1, <1>3, <2>1
<1> HIDE DEF all
<1>6. IsFlat(all, seqs, n + 1)
  BY <1>4, <1>5 DEF IsFlat
<1> QED
  BY <1>3, <1>6 DEF all

(* The function that FlattenSeq() is defined with *)
Flattens(f, seqs, n) ==
  f = [i \in 1 .. n |-> IF i = 1 THEN seqs[i] ELSE f[i - 1] \o seqs[i]]

LEMMA FlattensStep ==
  ASSUME NEW seqs, NEW n \in Nat, NEW f, Flattens(f, seqs, n)
  PROVE  \E g : Flattens(g, seqs, n + 1)
<1> DEFINE g == [i \in 1 .. n + 1 |->
                   IF i = n + 1 THEN IF i = 1 THEN seqs[i] ELSE f[n] \o seqs[i] ELSE f[i]]
           h == [i \in 1 .. n |-> IF i = 1 THEN seqs[i] ELSE f[i - 1] \o seqs[i]]
           k == [i \in 1 .. n + 1 |-> IF i = 1 THEN seqs[i] ELSE g[i - 1] \o seqs[i]]
<1>1. \A i \in 1 .. n : f[i] = IF i = 1 THEN seqs[i] ELSE f[i - 1] \o seqs[i]
  <2>1. f = h
    BY DEF Flattens
  <2>2. \A i \in 1 .. n : h[i] = IF i = 1 THEN seqs[i] ELSE f[i - 1] \o seqs[i]
    OBVIOUS
  <2> HIDE DEF h
  <2> QED
    BY <2>1, <2>2
<1>2. \A i \in 1 .. n : i \in 1 .. n + 1 /\ i # n + 1
  OBVIOUS
<1>3. \A i \in 1 .. n : g[i] = f[i]
  BY <1>2
<1>4. n + 1 \in 1 .. n + 1 /\ n + 1 - 1 = n /\ (n + 1 # 1 => n \in 1 .. n)
  OBVIOUS
<1>5. g[n + 1] = IF n + 1 = 1 THEN seqs[n + 1] ELSE f[n] \o seqs[n + 1]
  BY <1>4
<1> HIDE DEF h
<1>6. ASSUME NEW i \in 1 .. n + 1
      PROVE  g[i] = IF i = 1 THEN seqs[i] ELSE g[i - 1] \o seqs[i]
  <2>1. CASE i = n + 1
    <3> HIDE DEF g
    <3> QED
      BY <1>3, <1>4, <1>5, <2>1
  <2>2. CASE i # n + 1
    <3>1. i \in 1 .. n /\ (i # 1 => i - 1 \in 1 .. n)
      BY <2>2
    <3> HIDE DEF g
    <3> QED
      BY <1>1, <1>3, <3>1
  <2> QED
    BY <2>1, <2>2
<1>7. g = k
  BY <1>6
<1> HIDE DEF g
<1>8. Flattens(g, seqs, n + 1)
  BY <1>7 DEF Flattens
<1> QED
  BY <1>8

LEMMA Flattened ==
  ASSUME NEW S, NEW seqs, Len(seqs) \in Nat, Len(seqs) = 0 => seqs = <<>>,
         \A i \in 1 .. Len(seqs) : seqs[i] \in Seq(S)
  PROVE  /\ Services!FlattenSeq(seqs) \in Seq(S)
         /\ IsFlat(Services!FlattenSeq(seqs), seqs, Len(seqs))
<1> DEFINE N == Len(seqs)
<1>1. CASE N = 0
  <2>1. <<>> \in Seq(S) /\ Len(<<>>) = 0
    BY EmptySeq
  <2> QED
    BY <1>1, <2>1 DEF Services!FlattenSeq, IsFlat
<1>2. CASE N # 0
  <2> DEFINE Good == {n \in Nat : \E f : Flattens(f, seqs, n)}
  <2>1. 0 \in Good
    <3>1. Flattens(<<>>, seqs, 0)
      BY DEF Flattens
    <3> QED
      BY <3>1
  <2>2. ASSUME NEW n \in Nat, n \in Good  PROVE n + 1 \in Good
    BY <2>2, FlattensStep
  <2> HIDE DEF Good
  <2>3. N \in Good
    BY <2>1, <2>2, EveryNumber
  <2>4. \E f : Flattens(f, seqs, N)
    BY <2>3 DEF Good
  <2> DEFINE f == CHOOSE g : Flattens(g, seqs, N)
  <2>5. Flattens(f, seqs, N)
    BY <2>4
  <2>6. Services!FlattenSeq(seqs) = f[N]
    BY <1>2 DEF Services!FlattenSeq, Flattens
  <2> HIDE DEF f
  <2> DEFINE h == [i \in 1 .. N |-> IF i = 1 THEN seqs[i] ELSE f[i - 1] \o seqs[i]]
  <2>7. \A i \in 1 .. N : f[i] = IF i = 1 THEN seqs[i] ELSE f[i - 1] \o seqs[i]
    <3>1. f = h
      BY <2>5 DEF Flattens
    <3>2. \A i \in 1 .. N : h[i] = IF i = 1 THEN seqs[i] ELSE f[i - 1] \o seqs[i]
      OBVIOUS
    <3> HIDE DEF h
    <3> QED
      BY <3>1, <3>2
  <2> HIDE DEF h
  <2> DEFINE Flat == {n \in Nat : n \in 1 .. N => f[n] \in Seq(S) /\ IsFlat(f[n], seqs, n)}
  <2>8. \A i \in 1 .. N : Len(seqs[i]) \in Nat
    BY LenProperties
  <2>9. ASSUME NEW n \in Nat, n \in Flat  PROVE n + 1 \in Flat
    <3> SUFFICES ASSUME n + 1 \in 1 .. N
                 PROVE  f[n + 1] \in Seq(S) /\ IsFlat(f[n + 1], seqs, n + 1)
      OBVIOUS
    <3>1. seqs[n + 1] \in Seq(S)
      OBVIOUS
    <3>2. CASE n = 0
      <4>1. n + 1 = 1 /\ f[1] = seqs[1]
        BY <2>7, <3>2
      <4>2. seqs[1] \in Seq(S) /\ <<>> \in Seq(S) /\ Len(<<>>) = 0
        BY <3>1, <4>1, EmptySeq
      <4>3. IsFlat(<<>>, seqs, 0)
        BY <4>2 DEF IsFlat
      <4>4. <<>> \o seqs[1] = seqs[1]
        BY <4>2
      <4>5. IsFlat(<<>> \o seqs[1], seqs, 0 + 1)
        <5>1. 0 \in Nat /\ 0 + 1 = 1 /\ \A i \in 1 .. 0 : FALSE
          OBVIOUS
        <5>2. \A i \in 1 .. 0 : Len(seqs[i]) \in Nat
          BY <5>1
        <5>3. seqs[0 + 1] \in Seq(S)
          BY <4>2, <5>1
        <5>4. IsFlat(<<>> \o seqs[0 + 1], seqs, 0 + 1)
          BY <4>2, <4>3, <5>1, <5>2, <5>3, FlatStep
        <5> QED
          BY <5>1, <5>4
      <4>6. 0 + 1 = 1
        OBVIOUS
      <4>7. IsFlat(seqs[1], seqs, 1)
        BY <4>4, <4>5, <4>6
      <4> QED
        BY <4>1, <4>2, <4>7
    <3>3. CASE n # 0
      <4>1. n \in 1 .. N /\ n + 1 # 1 /\ n + 1 - 1 = n
        BY <3>3
      <4>2. f[n] \in Seq(S) /\ IsFlat(f[n], seqs, n)
        BY <2>9, <4>1
      <4>3. f[n + 1] = f[n] \o seqs[n + 1]
        <5> DEFINE i == n + 1
        <5>1. i \in 1 .. N /\ i # 1 /\ i - 1 = n
          BY <4>1
        <5> HIDE DEF i
        <5>2. f[i] = f[i - 1] \o seqs[i]
          BY <2>7, <5>1
        <5> QED
          BY <5>1, <5>2 DEF i
      <4>4. \A i \in 1 .. n : Len(seqs[i]) \in Nat
        BY <2>8, <4>1
      <4> QED
        BY <3>1, <4>2, <4>3, <4>4, FlatStep
    <3> QED
      BY <3>2, <3>3
  <2>10. 0 \in Flat
    OBVIOUS
  <2>11. Nat \subseteq Flat
    <3> HIDE DEF Flat
    <3> QED
      BY <2>9, <2>10, EveryNumber
  <2>12. N \in 1 .. N
    BY <1>2
  <2>13. N \in Flat
    BY <2>11
  <2>14. f[N] \in Seq(S) /\ IsFlat(f[N], seqs, N)
    BY <2>12, <2>13
  <2> QED
    BY <2>6, <2>14
<1> QED
  BY <1>1, <1>2

-----------------------------------------------------------------------------
(* Services: what is registered. *)

(* What a multimap of bindings holds: one lifetime for each service. The    *)
(* predicates about bindings have these as a parameter.                     *)
Bound ==
  {op \in [lifetime : Services!Lifetime, service : Services!Service,
           provided : BOOLEAN, needs : Seq(Services!Need)] :
     op.provided => op.needs = <<>>}
AreBindings(b) ==
  /\ b \in [Services!Lifetime -> [Services!Service -> Seq(Bound)]]
  /\ \A s \in Services!Service, l, k \in Services!Lifetime :
       b[l][s] # <<>> /\ b[k][s] # <<>> => l = k
Entry(b) ==
  {e \in [lifetime : Services!Lifetime, service : Services!Service, nr : Nat] :
     e.nr \in 1 .. Len(b[e.lifetime][e.service])}
LastEntry(b, l, s) == [lifetime |-> l, service |-> s, nr |-> Len(b[l][s])]

(* Whether instances of a lifetime may be made by way of a provider *)
Serves(h, l) == l = "scoped" => h # Services!Root

JobOf(b) ==
  [do : {"lock", "activate", "open", "throw"}, mutex : Holder \cup {""},
   entry : Entry(b) \cup {Services!NoEntry}, peek : BOOLEAN]
JobFits(b, h, job) ==
  /\ job.do = "lock" => job.mutex \in {Services!Root, h}
  /\ job.do \in {"activate", "open"} =>
       job.entry \in Entry(b) /\ Serves(h, job.entry.lifetime)

(* The bindings that a request is answered with *)
EntriesFor(b, h, s, es) ==
  \/ es = <<>> /\ \A l \in Services!Lifetime : Serves(h, l) => b[l][s] = <<>>
  \/ \E l \in Services!Lifetime :
       /\ Serves(h, l) /\ b[l][s] # <<>>
       /\ es \in Seq(Entry(b)) /\ es # <<>>
       /\ \A i \in 1 .. Len(es) : es[i].lifetime = l /\ es[i].service = s
       /\ es[Len(es)] = LastEntry(b, l, s)

LEMMA EntriesAre ==
  ASSUME AreBindings(bindings), NEW l \in Services!Lifetime, NEW s \in Services!Service
  PROVE  LET es == Services!Entries(l, s) IN
         /\ es \in Seq(Entry(bindings))
         /\ Len(es) = Len(bindings[l][s])
         /\ \A i \in 1 .. Len(es) : es[i] = [lifetime |-> l, service |-> s, nr |-> i]
         /\ \A i \in 1 .. Len(es) : es[i].lifetime = l /\ es[i].service = s
         /\ bindings[l][s] = <<>> <=> es = <<>>
         /\ es # <<>> => es[Len(es)] = LastEntry(bindings, l, s)
<1> DEFINE n == Len(bindings[l][s])
           es == [i \in 1 .. n |-> [lifetime |-> l, service |-> s, nr |-> i]]
<1>1. bindings[l][s] \in Seq(Bound)
  BY DEF AreBindings
<1>2. n \in Nat /\ DOMAIN bindings[l][s] = 1 .. n
      /\ (bindings[l][s] = <<>> <=> n = 0)
  BY <1>1, LenProperties, EmptySeq
<1>3. Services!Entries(l, s) = es
  BY <1>2 DEF Services!Entries
<1>4. ASSUME NEW i \in 1 .. n
      PROVE  [lifetime |-> l, service |-> s, nr |-> i] \in Entry(bindings)
  BY <1>2 DEF Entry
<1> HIDE DEF n
<1>5. es \in [1 .. n -> Entry(bindings)]
  BY <1>4
<1>6. es \in Seq(Entry(bindings)) /\ Len(es) = n
  BY <1>2, <1>5, IsASeq, <1>4
<1>7. es # <<>> <=> n # 0
  <2> HIDE DEF es
  <2> QED
    BY <1>2, <1>6, EmptySeq
<1>8. n # 0 => n \in 1 .. n
  BY <1>2
<1> QED
  BY <1>2, <1>3, <1>6, <1>7, <1>8 DEF LastEntry, n

LifetimesOf(h) == IF h = Services!Root THEN Services!RootLifetimes
                  ELSE Services!ScopeLifetimes

LEMMA LeastOfThree ==
  ASSUME NEW S, S \subseteq 1 .. 3, S # {}
  PROVE  Services!Min(S) \in S
<1>1. \E x \in S : \A y \in S : x <= y
  <2>1. 1 .. 3 = {1, 2, 3}
    OBVIOUS
  <2>2. CASE 1 \in S
    BY <2>1, <2>2
  <2>3. CASE 1 \notin S /\ 2 \in S
    BY <2>1, <2>3
  <2>4. CASE 1 \notin S /\ 2 \notin S
    <3>1. 3 \in S /\ \A y \in S : y = 3
      BY <2>1, <2>4
    <3> QED
      BY <3>1
  <2> QED
    BY <2>2, <2>3, <2>4
<1> QED
  BY <1>1 DEF Services!Min

LEMMA LifetimesAre ==
  ASSUME NEW h
  PROVE  /\ DOMAIN LifetimesOf(h) \subseteq 1 .. 3
         /\ \A i \in DOMAIN LifetimesOf(h) :
              LifetimesOf(h)[i] \in Services!Lifetime /\ Serves(h, LifetimesOf(h)[i])
         /\ \A l \in Services!Lifetime : Serves(h, l) =>
              \E i \in DOMAIN LifetimesOf(h) : LifetimesOf(h)[i] = l
<1>1. CASE h = Services!Root
  <2> DEFINE r == <<"singleton", "transient">>
  <2>1. LifetimesOf(h) = r
    BY <1>1 DEF LifetimesOf, Services!RootLifetimes
  <2>2. DOMAIN r = {1, 2} /\ r[1] = "singleton" /\ r[2] = "transient"
    OBVIOUS
  <2>3. {1, 2} \subseteq 1 .. 3
    OBVIOUS
  <2> HIDE DEF r
  <2> QED
    BY <1>1, <2>1, <2>2, <2>3 DEF Services!Lifetime, Serves
<1>2. CASE h # Services!Root
  <2> DEFINE r == <<"scoped", "singleton", "transient">>
  <2>1. LifetimesOf(h) = r
    BY <1>2 DEF LifetimesOf, Services!ScopeLifetimes
  <2>2. DOMAIN r = {1, 2, 3} /\ r[1] = "scoped" /\ r[2] = "singleton" /\ r[3] = "transient"
    OBVIOUS
  <2>3. {1, 2, 3} \subseteq 1 .. 3
    OBVIOUS
  <2> HIDE DEF r
  <2> QED
    BY <1>2, <2>1, <2>2, <2>3 DEF Services!Lifetime, Serves
<1> QED
  BY <1>1, <1>2

LEMMA FirstBoundIs ==
  ASSUME AreBindings(bindings), NEW h, NEW s \in Services!Service
  PROVE  EntriesFor(bindings, h, s, Services!FirstBound(LifetimesOf(h), s))
<1> DEFINE ls == LifetimesOf(h)
           bound == {i \in DOMAIN ls : bindings[ls[i]][s] # <<>>}
           es == Services!FirstBound(ls, s)
<1>1. /\ DOMAIN ls \subseteq 1 .. 3
      /\ \A i \in DOMAIN ls : ls[i] \in Services!Lifetime /\ Serves(h, ls[i])
      /\ \A l \in Services!Lifetime : Serves(h, l) => \E i \in DOMAIN ls : ls[i] = l
  BY LifetimesAre
<1> HIDE DEF ls
<1>2. CASE bound = {}
  <2>1. es = <<>>
    BY <1>2 DEF Services!FirstBound
  <2>2. \A l \in Services!Lifetime : Serves(h, l) => bindings[l][s] = <<>>
    BY <1>1, <1>2
  <2> QED
    BY <2>1, <2>2 DEF EntriesFor, ls
<1>3. CASE bound # {}
  <2>1. Services!Min(bound) \in bound
    BY <1>1, <1>3, LeastOfThree
  <2> DEFINE l == ls[Services!Min(bound)]
  <2>2. es = Services!Entries(l, s)
    BY <1>3 DEF Services!FirstBound
  <2>3. l \in Services!Lifetime /\ Serves(h, l) /\ bindings[l][s] # <<>>
    BY <1>1, <2>1
  <2> HIDE DEF l, es
  <2>4. /\ es \in Seq(Entry(bindings)) /\ es # <<>>
        /\ \A i \in 1 .. Len(es) : es[i].lifetime = l /\ es[i].service = s
        /\ es[Len(es)] = LastEntry(bindings, l, s)
    BY <2>2, <2>3, EntriesAre
  <2> QED
    BY <2>3, <2>4 DEF EntriesFor, ls, es
<1> QED
  BY <1>2, <1>3

LEMMA LastBoundIs ==
  ASSUME AreBindings(bindings), NEW h, NEW s \in Services!Service
  PROVE  EntriesFor(bindings, h, s, Services!LastBound(LifetimesOf(h), s))
<1> DEFINE all == Services!FirstBound(LifetimesOf(h), s)
           es == Services!LastBound(LifetimesOf(h), s)
<1>1. EntriesFor(bindings, h, s, all)
  BY FirstBoundIs
<1>2. es = IF all = <<>> THEN all ELSE <<all[Len(all)]>>
  BY DEF Services!LastBound, Services!Last
<1> HIDE DEF all, es
<1>3. CASE all = <<>>
  <2>1. es = <<>>
    BY <1>2, <1>3
  <2> QED
    BY <1>1, <1>3, <2>1 DEF EntriesFor, es
<1>4. CASE all # <<>>
  <2>1. PICK l \in Services!Lifetime :
          /\ Serves(h, l) /\ bindings[l][s] # <<>>
          /\ all \in Seq(Entry(bindings)) /\ all # <<>>
          /\ \A i \in 1 .. Len(all) : all[i].lifetime = l /\ all[i].service = s
          /\ all[Len(all)] = LastEntry(bindings, l, s)
    BY <1>1, <1>4 DEF EntriesFor
  <2> DEFINE x == all[Len(all)]
  <2>2. Len(all) \in 1 .. Len(all)
    BY <2>1, EmptySeq
  <2>3. x \in Entry(bindings) /\ x.lifetime = l /\ x.service = s
    BY <2>1, <2>2, ElementOfSeq
  <2>4. es = <<x>> /\ x = LastEntry(bindings, l, s)
    BY <1>2, <1>4, <2>1
  <2> HIDE DEF x
  <2>5. /\ <<x>> \in Seq(Entry(bindings)) /\ <<x>> # <<>> /\ Len(<<x>>) = 1
        /\ <<x>>[1] = x
    BY <2>3
  <2>6. /\ es \in Seq(Entry(bindings)) /\ es # <<>>
        /\ \A i \in 1 .. Len(es) : es[i].lifetime = l /\ es[i].service = s
        /\ es[Len(es)] = LastEntry(bindings, l, s)
    BY <2>3, <2>4, <2>5
  <2> QED
    BY <2>1, <2>6 DEF EntriesFor, es
<1> QED
  BY <1>3, <1>4

-----------------------------------------------------------------------------
(* Services: the jobs that a request is turned into. *)

JobsFit(b, h, jobs) ==
  /\ jobs \in Seq(JobOf(b))
  /\ \A p \in 1 .. Len(jobs) : JobFits(b, h, jobs[p])

(* A mutex is acquired before a job is reached. *)
LockedBefore(todo, p, m) ==
  \E q \in 1 .. p - 1 : todo[q].do = "lock" /\ todo[q].mutex = m

(* An instance will be there, or the jobs are not completed. *)
Ensures(job, x) ==
  \/ job = Services!Activate(x) \/ job = Services!Open(x, TRUE) \/ job = Services!Throw
Ensured(todo, x) == \E p \in 1 .. Len(todo) : Ensures(todo[p], x)

(* What a factory's request for a service is turned into *)
Answers(b, h, s, jobs) ==
  /\ JobsFit(b, h, jobs)
  /\ \A p \in 1 .. Len(jobs) : jobs[p].do = "activate" =>
       /\ jobs[p].entry.service = s
       /\ jobs[p].entry.lifetime = "singleton" /\ h # Services!Root =>
            LockedBefore(jobs, p, Services!Root)
  /\ \A l \in {"singleton", "scoped"} : Serves(h, l) /\ b[l][s] # <<>> =>
       Ensured(jobs, LastEntry(b, l, s))

LEMMA ThrowFits ==
  ASSUME NEW b, NEW h
  PROVE  /\ Services!Throw \in JobOf(b) /\ JobFits(b, h, Services!Throw)
         /\ Services!Throw.do = "throw"
  BY DEF Services!Throw, JobOf, JobFits, Holder

LEMMA LockFits ==
  ASSUME NEW b, NEW h \in Holder, NEW m \in {Services!Root, h}
  PROVE  /\ Services!Lock(m) \in JobOf(b) /\ JobFits(b, h, Services!Lock(m))
         /\ Services!Lock(m).do = "lock" /\ Services!Lock(m).mutex = m
<1>1. m \in Holder \cup {""}
  BY DEF Holder
<1> QED
  BY <1>1 DEF Services!Lock, JobOf, JobFits

LEMMA ActivateFits ==
  ASSUME NEW b, NEW h, NEW e \in Entry(b)
  PROVE  /\ Services!Activate(e) \in JobOf(b) /\ Services!Activate(e).do = "activate"
         /\ Services!Activate(e).entry = e
         /\ Serves(h, e.lifetime) => JobFits(b, h, Services!Activate(e))
  BY DEF Services!Activate, JobOf, JobFits

LEMMA OpenFits ==
  ASSUME NEW b, NEW h, NEW e \in Entry(b), NEW peek \in BOOLEAN
  PROVE  /\ Services!Open(e, peek) \in JobOf(b) /\ Services!Open(e, peek).do = "open"
         /\ Services!Open(e, peek).entry = e /\ Services!Open(e, peek).peek = peek
         /\ Serves(h, e.lifetime) => JobFits(b, h, Services!Open(e, peek))
  BY DEF Services!Open, JobOf, JobFits

(* Each of the bindings becomes one job. *)
LEMMA EachAnswers ==
  ASSUME NEW b, AreBindings(b), NEW h \in Holder, NEW s \in Services!Service, NEW es,
         EntriesFor(b, h, s, es),
         NEW jobs, jobs \in Seq(JobOf(b)), Len(jobs) = Len(es),
         \A i \in 1 .. Len(es) :
           \/ jobs[i] = Services!Open(es[i], es[i].lifetime # "transient")
           \/ /\ jobs[i] = Services!Activate(es[i])
              /\ es[i].lifetime = "singleton" => h = Services!Root
  PROVE  Answers(b, h, s, jobs)
<1>1. CASE es = <<>>
  <2>1. Len(jobs) = 0
    BY <1>1, EmptySeq
  <2>2. \A l \in {"singleton", "scoped"} : ~(Serves(h, l) /\ b[l][s] # <<>>)
    BY <1>1, EmptySeq DEF EntriesFor, Services!Lifetime
  <2> QED
    BY <2>1, <2>2 DEF Answers, JobsFit
<1>2. CASE es # <<>>
  <2>1. PICK l \in Services!Lifetime :
          /\ Serves(h, l) /\ b[l][s] # <<>>
          /\ es \in Seq(Entry(b)) /\ es # <<>>
          /\ \A i \in 1 .. Len(es) : es[i].lifetime = l /\ es[i].service = s
          /\ es[Len(es)] = LastEntry(b, l, s)
    BY <1>2 DEF EntriesFor
  <2> DEFINE n == Len(es)
  <2>2. n \in 1 .. n /\ \A i \in 1 .. n : es[i] \in Entry(b)
    BY <2>1, EmptySeq, ElementOfSeq
  <2>3. ASSUME NEW i \in 1 .. n
        PROVE  /\ JobFits(b, h, jobs[i])
               /\ jobs[i].do = "activate" =>
                    /\ jobs[i].entry.service = s
                    /\ jobs[i].entry.lifetime = "singleton" => h = Services!Root
    <3>1. es[i] \in Entry(b) /\ Serves(h, es[i].lifetime) /\ es[i].service = s
      BY <2>1, <2>2
    <3>2. CASE jobs[i] = Services!Open(es[i], es[i].lifetime # "transient")
      <4> DEFINE e == es[i]  peek == e.lifetime # "transient"
      <4>1. peek \in BOOLEAN /\ e \in Entry(b) /\ Serves(h, e.lifetime)
            /\ jobs[i] = Services!Open(e, peek)
        BY <3>1, <3>2
      <4> HIDE DEF e, peek
      <4>2. JobFits(b, h, jobs[i]) /\ jobs[i].do = "open"
        BY <4>1, OpenFits
      <4> QED
        BY <4>2
    <3>3. CASE /\ jobs[i] = Services!Activate(es[i])
               /\ es[i].lifetime = "singleton" => h = Services!Root
      <4>1. JobFits(b, h, jobs[i]) /\ jobs[i].entry = es[i]
        BY <3>1, <3>3, ActivateFits
      <4> QED
        BY <3>1, <3>3, <4>1
    <3> QED
      BY <3>2, <3>3
  <2>4. ASSUME NEW k \in {"singleton", "scoped"}, Serves(h, k), b[k][s] # <<>>
        PROVE  Ensured(jobs, LastEntry(b, k, s))
    <3>1. k \in Services!Lifetime
      BY DEF Services!Lifetime
    <3>2. k = l
      BY <2>1, <2>4, <3>1 DEF AreBindings
    <3>3. es[n] = LastEntry(b, k, s) /\ es[n].lifetime # "transient"
      BY <2>1, <2>2, <3>2
    <3>4. Ensures(jobs[n], LastEntry(b, k, s))
      <4>1. CASE jobs[n] = Services!Activate(es[n])
        BY <3>3, <4>1 DEF Ensures
      <4>2. CASE jobs[n] = Services!Open(es[n], es[n].lifetime # "transient")
        <5>1. (es[n].lifetime # "transient") = TRUE
          BY <3>3
        <5>2. jobs[n] = Services!Open(es[n], TRUE)
          BY <4>2, <5>1
        <5> QED
          BY <3>3, <5>2 DEF Ensures
      <4> QED
        BY <2>2, <4>1, <4>2
    <3> QED
      BY <2>2, <3>4 DEF Ensured
  <2> HIDE DEF n
  <2>5. Len(jobs) = n
    BY DEF n
  <2> QED
    BY <2>3, <2>4, <2>5 DEF Answers, JobsFit
<1> QED
  BY <1>1, <1>2

LEMMA ThrowAnswers ==
  ASSUME NEW b, NEW h \in Holder, NEW s
  PROVE  Answers(b, h, s, <<Services!Throw>>)
<1> DEFINE x == Services!Throw
<1>1. x \in JobOf(b) /\ JobFits(b, h, x) /\ x.do = "throw"
  BY ThrowFits
<1>2. \A y : Ensures(x, y)
  BY DEF Ensures
<1> HIDE DEF x
<1>3. /\ <<x>> \in Seq(JobOf(b)) /\ Len(<<x>>) = 1 /\ <<x>>[1] = x
  BY <1>1
<1> DEFINE jobs == <<x>>
<1> HIDE DEF jobs
<1>4. jobs \in Seq(JobOf(b)) /\ Len(jobs) = 1 /\ jobs[1] = x
  BY <1>3 DEF jobs
<1>5. \A p \in 1 .. Len(jobs) : jobs[p] = x
  BY <1>4
<1>6. \A y : Ensured(jobs, y)
  BY <1>2, <1>4 DEF Ensured
<1>7. JobsFit(b, h, jobs)
  BY <1>1, <1>4, <1>5 DEF JobsFit
<1>8. Answers(b, h, s, jobs)
  BY <1>1, <1>5, <1>6, <1>7 DEF Answers
<1> QED
  BY <1>8 DEF jobs, x

(* The mutex of the singletons is acquired before the jobs are done. *)
LEMMA LockedAnswers ==
  ASSUME NEW b, AreBindings(b), NEW h \in Holder, NEW s \in Services!Service, NEW es,
         EntriesFor(b, h, s, es),
         NEW jobs, jobs \in Seq(JobOf(b)), Len(jobs) = Len(es),
         \A i \in 1 .. Len(es) : jobs[i] = Services!Activate(es[i])
  PROVE  Answers(b, h, s, <<Services!Lock(Services!Root)>> \o jobs)
<1> DEFINE x == Services!Lock(Services!Root)  one == <<x>>  all == one \o jobs  n == Len(es)
<1>1. x \in JobOf(b) /\ JobFits(b, h, x) /\ x.do = "lock" /\ x.mutex = Services!Root
  BY LockFits
<1> HIDE DEF x
<1>2. one \in Seq(JobOf(b)) /\ Len(one) = 1 /\ one[1] = x
  BY <1>1
<1> HIDE DEF one
<1>3. n \in Nat
  BY LenProperties
<1>4. /\ all \in Seq(JobOf(b)) /\ Len(all) = 1 + n
      /\ \A i \in 1 .. 1 + n : all[i] = IF i <= 1 THEN one[i] ELSE jobs[i - 1]
  BY <1>2, ConcatProperties
<1> HIDE DEF all, n
<1>5. all[1] = x
  BY <1>2, <1>3, <1>4
<1>6. ASSUME NEW p \in 2 .. 1 + n
      PROVE  p - 1 \in 1 .. n /\ all[p] = Services!Activate(es[p - 1])
  <2>1. p - 1 \in 1 .. n /\ p \in 1 .. 1 + n /\ ~(p <= 1)
    BY <1>3
  <2> QED
    BY <1>4, <2>1 DEF n
<1>7. CASE es = <<>>
  <2>1. n = 0
    BY <1>7, EmptySeq DEF n
  <2>2. \A l \in {"singleton", "scoped"} : ~(Serves(h, l) /\ b[l][s] # <<>>)
    BY <1>7, EmptySeq DEF EntriesFor, Services!Lifetime
  <2>3. \A p \in 1 .. Len(all) : all[p] = x
    BY <1>4, <1>5, <2>1
  <2>4. JobsFit(b, h, all)
    BY <1>1, <1>4, <2>3 DEF JobsFit
  <2>5. Answers(b, h, s, all)
    BY <1>1, <2>2, <2>3, <2>4 DEF Answers
  <2> QED
    BY <2>5 DEF all, one, x
<1>8. CASE es # <<>>
  <2>1. PICK l \in Services!Lifetime :
          /\ Serves(h, l) /\ b[l][s] # <<>>
          /\ es \in Seq(Entry(b)) /\ es # <<>>
          /\ \A i \in 1 .. Len(es) : es[i].lifetime = l /\ es[i].service = s
          /\ es[Len(es)] = LastEntry(b, l, s)
    BY <1>8 DEF EntriesFor
  <2>2. n \in 1 .. n /\ \A i \in 1 .. n : es[i] \in Entry(b)
    BY <2>1, EmptySeq, ElementOfSeq DEF n
  <2>3. ASSUME NEW p \in 1 .. 1 + n
        PROVE  /\ JobFits(b, h, all[p])
               /\ all[p].do = "activate" =>
                    all[p].entry.service = s /\ LockedBefore(all, p, Services!Root)
    <3>1. CASE p = 1
      BY <1>1, <1>5, <3>1
    <3>2. CASE p # 1
      <4>1. p \in 2 .. 1 + n
        BY <1>3, <3>2
      <4>2. p - 1 \in 1 .. n /\ all[p] = Services!Activate(es[p - 1])
        BY <1>6, <4>1
      <4> DEFINE e == es[p - 1]
      <4>3. e \in Entry(b) /\ Serves(h, e.lifetime) /\ e.service = s
        BY <2>1, <2>2, <4>2 DEF n
      <4> HIDE DEF e
      <4>4. all[p] = Services!Activate(e)
        BY <4>2 DEF e
      <4>5. JobFits(b, h, all[p]) /\ all[p].entry = e
        BY <4>3, <4>4, ActivateFits
      <4>6. 1 \in 1 .. p - 1
        BY <4>1
      <4>7. LockedBefore(all, p, Services!Root)
        BY <1>1, <1>5, <4>6 DEF LockedBefore
      <4> QED
        BY <4>3, <4>5, <4>7
    <3> QED
      BY <3>1, <3>2
  <2>4. ASSUME NEW k \in {"singleton", "scoped"}, Serves(h, k), b[k][s] # <<>>
        PROVE  Ensured(all, LastEntry(b, k, s))
    <3>1. k \in Services!Lifetime
      BY DEF Services!Lifetime
    <3>2. k = l
      BY <2>1, <2>4, <3>1 DEF AreBindings
    <3>3. es[n] = LastEntry(b, k, s)
      BY <2>1, <3>2 DEF n
    <3> DEFINE p == n + 1
    <3>4. p \in 2 .. 1 + n /\ p \in 1 .. 1 + n /\ p - 1 = n
      BY <1>3, <2>2
    <3> HIDE DEF p
    <3>5. all[p] = Services!Activate(es[n])
      BY <1>6, <3>4
    <3>6. Ensures(all[p], LastEntry(b, k, s))
      BY <3>3, <3>5 DEF Ensures
    <3> QED
      BY <1>4, <3>4, <3>6 DEF Ensured
  <2>5. JobsFit(b, h, all)
    BY <1>4, <2>3 DEF JobsFit
  <2>6. Answers(b, h, s, all)
    BY <1>4, <2>3, <2>4, <2>5 DEF Answers
  <2> QED
    BY <2>6 DEF all, one, x
<1> QED
  BY <1>7, <1>8

LEMMA OrThrowAnswers ==
  ASSUME NEW b, NEW h \in Holder, NEW s, NEW jobs, Answers(b, h, s, jobs)
  PROVE  /\ Answers(b, h, s, Services!OrThrow(jobs))
         /\ \A method : Answers(b, h, s, Services!OrNothing(method, jobs))
<1>1. Answers(b, h, s, Services!OrThrow(jobs))
  BY ThrowAnswers DEF Services!OrThrow
<1> QED
  BY <1>1 DEF Services!OrNothing

(* Sequences of jobs that a function on the bindings makes *)
LEMMA EachOf ==
  ASSUME NEW b, NEW h, NEW s, NEW es, EntriesFor(b, h, s, es)
  PROVE  /\ Len(es) \in Nat /\ DOMAIN es = 1 .. Len(es)
         /\ \A i \in 1 .. Len(es) :
              /\ es[i] \in Entry(b) /\ Serves(h, es[i].lifetime)
              /\ es[i].lifetime = es[1].lifetime
         /\ es # <<>> => 1 \in 1 .. Len(es)
<1>1. CASE es = <<>>
  <2>1. es \in Seq({})
    BY <1>1, EmptySeq
  <2> QED
    BY <1>1, <2>1, LenProperties
<1>2. CASE es # <<>>
  <2>1. PICK l \in Services!Lifetime :
          /\ Serves(h, l)
          /\ es \in Seq(Entry(b)) /\ es # <<>>
          /\ \A i \in 1 .. Len(es) : es[i].lifetime = l /\ es[i].service = s
    BY <1>2 DEF EntriesFor
  <2>2. /\ Len(es) \in Nat /\ DOMAIN es = 1 .. Len(es) /\ Len(es) # 0
        /\ \A i \in 1 .. Len(es) : es[i] \in Entry(b)
    BY <2>1, LenProperties, EmptySeq, ElementOfSeq
  <2>3. 1 \in 1 .. Len(es)
    BY <2>2
  <2> QED
    BY <2>1, <2>2, <2>3
<1> QED
  BY <1>1, <1>2

LEMMA InRootAnswers ==
  ASSUME NEW b, AreBindings(b), Services!Root \in Holder, NEW s \in Services!Service, NEW es,
         EntriesFor(b, Services!Root, s, es)
  PROVE  Answers(b, Services!Root, s, Services!InRoot(es))
<1> DEFINE n == Len(es)  jobs == [i \in 1 .. n |-> Services!Activate(es[i])]
<1>1. /\ n \in Nat /\ DOMAIN es = 1 .. n
      /\ \A i \in 1 .. n : es[i] \in Entry(b)
  BY EachOf
<1>2. Services!InRoot(es) = jobs
  BY <1>1 DEF Services!InRoot, Services!Each
<1> HIDE DEF n
<1>3. \A i \in 1 .. n : Services!Activate(es[i]) \in JobOf(b)
  BY <1>1, ActivateFits
<1>4. jobs \in Seq(JobOf(b)) /\ Len(jobs) = n
      /\ \A i \in 1 .. n : jobs[i] = Services!Activate(es[i])
  BY <1>1, <1>3, IsASeq
<1> HIDE DEF jobs
<1>5. Answers(b, Services!Root, s, jobs)
  BY <1>4, EachAnswers DEF n
<1> QED
  BY <1>2, <1>5

LEMMA InScopeAnswers ==
  ASSUME NEW b, AreBindings(b), NEW h \in Holder, NEW s \in Services!Service, NEW es,
         EntriesFor(b, h, s, es)
  PROVE  Answers(b, h, s, Services!InScope(es))
<1> DEFINE n == Len(es)  jobs == [i \in 1 .. n |-> Services!Activate(es[i])]
           lock == es # <<>> /\ es[1].lifetime = "singleton"
<1>1. /\ n \in Nat /\ DOMAIN es = 1 .. n
      /\ \A i \in 1 .. n : es[i] \in Entry(b) /\ es[i].lifetime = es[1].lifetime
      /\ es # <<>> => 1 \in 1 .. n
  BY EachOf
<1>2. Services!InScope(es) =
        (IF lock THEN <<Services!Lock(Services!Root)>> ELSE <<>>) \o jobs
  BY <1>1 DEF Services!InScope, Services!Each
<1> HIDE DEF n
<1>3. \A i \in 1 .. n : Services!Activate(es[i]) \in JobOf(b)
  BY <1>1, ActivateFits
<1>4. jobs \in Seq(JobOf(b)) /\ Len(jobs) = n
      /\ \A i \in 1 .. n : jobs[i] = Services!Activate(es[i])
  BY <1>1, <1>3, IsASeq
<1> HIDE DEF jobs
<1>5. CASE lock
  <2>1. Answers(b, h, s, <<Services!Lock(Services!Root)>> \o jobs)
    BY <1>4, LockedAnswers DEF n
  <2> QED
    BY <1>2, <1>5, <2>1
<1>6. CASE ~lock
  <2>1. \A i \in 1 .. n : es[i].lifetime # "singleton"
    <3>1. ASSUME NEW i \in 1 .. n  PROVE es # <<>>
      <4>1. n # 0
        BY <1>1
      <4> QED
        BY <4>1, EmptySeq DEF n
    <3> QED
      BY <1>1, <1>6, <3>1
  <2>2. Answers(b, h, s, jobs)
    BY <1>4, <2>1, EachAnswers DEF n
  <2>3. <<>> \o jobs = jobs
    BY <1>4, ConcatEmptySeq
  <2> QED
    BY <1>2, <1>6, <2>2, <2>3
<1> QED
  BY <1>5, <1>6

LEMMA FromFactoryAnswers ==
  ASSUME NEW b, AreBindings(b), NEW h \in Holder, NEW s \in Services!Service, NEW es,
         EntriesFor(b, h, s, es)
  PROVE  Answers(b, h, s, Services!Each(es, Services!FromFactory))
<1> DEFINE n == Len(es)
           jobs == [i \in 1 .. n |->
                      Services!Open(es[i], es[i].lifetime # "transient")]
<1>1. /\ n \in Nat /\ DOMAIN es = 1 .. n
      /\ \A i \in 1 .. n : es[i] \in Entry(b)
  BY EachOf
<1>2. Services!Each(es, Services!FromFactory) = jobs
  BY <1>1 DEF Services!Each, Services!FromFactory
<1> HIDE DEF n
<1>3. ASSUME NEW i \in 1 .. n
      PROVE  Services!Open(es[i], es[i].lifetime # "transient") \in JobOf(b)
  <2> DEFINE e == es[i]  peek == e.lifetime # "transient"
  <2>1. e \in Entry(b) /\ peek \in BOOLEAN
    BY <1>1
  <2> HIDE DEF e, peek
  <2>2. Services!Open(e, peek) \in JobOf(b)
    BY <2>1, OpenFits
  <2> QED
    BY <2>2 DEF e, peek
<1>4. jobs \in Seq(JobOf(b)) /\ Len(jobs) = n
      /\ \A i \in 1 .. n : jobs[i] = Services!Open(es[i], es[i].lifetime # "transient")
  BY <1>1, <1>3, IsASeq
<1> HIDE DEF jobs
<1>5. Answers(b, h, s, jobs)
  BY <1>4, EachAnswers DEF n
<1> QED
  BY <1>2, <1>5

LEMMA JobsInsideAnswer ==
  ASSUME AreBindings(bindings), NEW h \in Holder, NEW s \in Services!Service,
         NEW method \in {"get", "try", "all", "factory", "scope"}
  PROVE  Answers(bindings, h, s, Services!JobsInside(h, method, s))
<1> DEFINE jobs == Services!JobsInside(h, method, s)
           first == Services!FirstBound(LifetimesOf(h), s)
           last == Services!LastBound(LifetimesOf(h), s)
<1>1. EntriesFor(bindings, h, s, first) /\ EntriesFor(bindings, h, s, last)
  BY FirstBoundIs, LastBoundIs
<1>2. CASE method \in {"get", "try"}
  <2>1. CASE h = Services!Root
    <3>1. jobs = Services!OrNothing(method, Services!InRoot(last))
      BY <1>2, <2>1 DEF Services!JobsInside, Services!RootContextGetService, LifetimesOf
    <3> HIDE DEF jobs, last
    <3>2. Answers(bindings, h, s, Services!InRoot(last))
      BY <1>1, <2>1, InRootAnswers
    <3> QED
      BY <3>1, <3>2, OrThrowAnswers DEF jobs
  <2>2. CASE h # Services!Root
    <3>1. jobs = Services!OrNothing(method, Services!InScope(last))
      BY <1>2, <2>2 DEF Services!JobsInside, Services!ScopeContextGetService, LifetimesOf
    <3> HIDE DEF jobs, last
    <3>2. Answers(bindings, h, s, Services!InScope(last))
      BY <1>1, InScopeAnswers
    <3> QED
      BY <3>1, <3>2, OrThrowAnswers DEF jobs
  <2> QED
    BY <2>1, <2>2
<1>3. CASE method = "factory"
  <2>1. jobs = Services!OrThrow(Services!Each(last, Services!FromFactory))
    BY <1>3 DEF Services!JobsInside, Services!RootContextGetServiceFactory,
                Services!ScopeContextGetServiceFactory, Services!RootGetServiceFactory,
                Services!ScopeGetServiceFactory, LifetimesOf
  <2> HIDE DEF jobs, last
  <2>2. Answers(bindings, h, s, Services!Each(last, Services!FromFactory))
    BY <1>1, FromFactoryAnswers
  <2> QED
    BY <2>1, <2>2, OrThrowAnswers DEF jobs
<1>4. CASE method = "all"
  <2>1. CASE h = Services!Root
    <3>1. jobs = Services!InRoot(first)
      BY <1>4, <2>1 DEF Services!JobsInside, Services!RootContextGetServices, LifetimesOf
    <3> HIDE DEF jobs, first
    <3> QED
      BY <1>1, <2>1, <3>1, InRootAnswers DEF jobs
  <2>2. CASE h # Services!Root
    <3>1. jobs = Services!InScope(first)
      BY <1>4, <2>2 DEF Services!JobsInside, Services!ScopeContextGetServices, LifetimesOf
    <3> HIDE DEF jobs, first
    <3> QED
      BY <1>1, <3>1, InScopeAnswers DEF jobs
  <2> QED
    BY <2>1, <2>2
<1>5. CASE method = "scope"
  <2>1. jobs = <<Services!Throw>>
    BY <1>5 DEF Services!JobsInside
  <2> QED
    BY <2>1, ThrowAnswers
<1> QED
  BY <1>2, <1>3, <1>4, <1>5

(* Requests by the application open contexts, or throw. *)
Opens(b, h, jobs) ==
  JobsFit(b, h, jobs) /\ \A p \in 1 .. Len(jobs) : jobs[p].do # "activate"

LEMMA OpensAre ==
  ASSUME NEW b, NEW h, NEW s, NEW es, EntriesFor(b, h, s, es),
         NEW jobs, jobs = [i \in DOMAIN es |-> jobs[i]],
         \A i \in DOMAIN es : \E peek \in BOOLEAN : jobs[i] = Services!Open(es[i], peek)
  PROVE  Opens(b, h, jobs)
<1> DEFINE n == Len(es)
<1>1. /\ n \in Nat /\ DOMAIN es = 1 .. n
      /\ \A i \in 1 .. n : es[i] \in Entry(b) /\ Serves(h, es[i].lifetime)
  BY EachOf
<1> HIDE DEF n
<1>2. ASSUME NEW i \in 1 .. n
      PROVE  jobs[i] \in JobOf(b) /\ JobFits(b, h, jobs[i]) /\ jobs[i].do # "activate"
  <2> DEFINE e == es[i]
  <2>1. PICK peek \in BOOLEAN : jobs[i] = Services!Open(e, peek)
    BY <1>1
  <2>2. e \in Entry(b) /\ Serves(h, e.lifetime)
    BY <1>1
  <2> HIDE DEF e
  <2> QED
    BY <2>1, <2>2, OpenFits
<1>3. jobs = [i \in 1 .. n |-> jobs[i]]
  BY <1>1
<1> DEFINE made == [i \in 1 .. n |-> jobs[i]]
<1>4. made \in Seq(JobOf(b)) /\ Len(made) = n
  BY <1>1, <1>2, IsASeq
<1> HIDE DEF made
<1>5. jobs \in Seq(JobOf(b)) /\ Len(jobs) = n
  BY <1>3, <1>4 DEF made
<1> QED
  BY <1>2, <1>5 DEF Opens, JobsFit

LEMMA ThrowOpens ==
  ASSUME NEW b, NEW h
  PROVE  Opens(b, h, <<Services!Throw>>)
<1> DEFINE x == Services!Throw
<1>1. x \in JobOf(b) /\ JobFits(b, h, x) /\ x.do = "throw"
  BY ThrowFits
<1> HIDE DEF x
<1> DEFINE jobs == <<x>>
<1>2. jobs \in Seq(JobOf(b)) /\ Len(jobs) = 1 /\ jobs[1] = x
  BY <1>1
<1> HIDE DEF jobs
<1>3. \A p \in 1 .. Len(jobs) : jobs[p] = x
  BY <1>2
<1>4. Opens(b, h, jobs)
  BY <1>1, <1>2, <1>3 DEF Opens, JobsFit
<1> QED
  BY <1>4 DEF jobs, x

LEMMA JobsOutsideOpen ==
  ASSUME AreBindings(bindings), NEW h, NEW s \in Services!Service,
         NEW method \in {"get", "try", "all", "factory"}
  PROVE  Opens(bindings, h, Services!JobsOutside(h, method, s))
<1> DEFINE first == Services!FirstBound(LifetimesOf(h), s)
           last == Services!LastBound(LifetimesOf(h), s)
<1>1. EntriesFor(bindings, h, s, first) /\ EntriesFor(bindings, h, s, last)
  BY FirstBoundIs, LastBoundIs
<1>2. ASSUME NEW es, EntriesFor(bindings, h, s, es)
      PROVE  /\ Opens(bindings, h, Services!Each(es, Services!FromRoot))
             /\ Opens(bindings, h, Services!Each(es, Services!FromScope))
             /\ Opens(bindings, h, Services!Each(es, Services!FromFactory))
  <2>1. Opens(bindings, h, Services!Each(es, Services!FromRoot))
    <3> DEFINE jobs == [i \in DOMAIN es |-> Services!FromRoot(es[i])]
    <3>1. /\ jobs = [i \in DOMAIN es |-> jobs[i]]
          /\ \A i \in DOMAIN es : \E peek \in BOOLEAN : jobs[i] = Services!Open(es[i], peek)
      BY DEF Services!FromRoot
    <3> HIDE DEF jobs
    <3>2. Opens(bindings, h, jobs)
      BY <1>2, <3>1, OpensAre
    <3> QED
      BY <3>2 DEF jobs, Services!Each
  <2>2. Opens(bindings, h, Services!Each(es, Services!FromScope))
    <3> DEFINE jobs == [i \in DOMAIN es |-> Services!FromScope(es[i])]
    <3>1. /\ jobs = [i \in DOMAIN es |-> jobs[i]]
          /\ \A i \in DOMAIN es : \E peek \in BOOLEAN : jobs[i] = Services!Open(es[i], peek)
      BY DEF Services!FromScope
    <3> HIDE DEF jobs
    <3>2. Opens(bindings, h, jobs)
      BY <1>2, <3>1, OpensAre
    <3> QED
      BY <3>2 DEF jobs, Services!Each
  <2>3. Opens(bindings, h, Services!Each(es, Services!FromFactory))
    <3> DEFINE jobs == [i \in DOMAIN es |-> Services!FromFactory(es[i])]
    <3>1. /\ jobs = [i \in DOMAIN es |-> jobs[i]]
          /\ \A i \in DOMAIN es : \E peek \in BOOLEAN : jobs[i] = Services!Open(es[i], peek)
      BY DEF Services!FromFactory
    <3> HIDE DEF jobs
    <3>2. Opens(bindings, h, jobs)
      BY <1>2, <3>1, OpensAre
    <3> QED
      BY <3>2 DEF jobs, Services!Each
  <2> QED
    BY <2>1, <2>2, <2>3
<1>3. ASSUME NEW jobs, Opens(bindings, h, jobs)
      PROVE  /\ Opens(bindings, h, Services!OrThrow(jobs))
             /\ Opens(bindings, h, Services!OrNothing(method, jobs))
  <2>1. Opens(bindings, h, Services!OrThrow(jobs))
    BY <1>3, ThrowOpens DEF Services!OrThrow
  <2> QED
    BY <1>3, <2>1 DEF Services!OrNothing
<1> HIDE DEF first, last
<1>4. CASE h = Services!Root
  <2>1. /\ Services!RootGetService(method, s) =
             Services!OrNothing(method, Services!Each(last, Services!FromRoot))
        /\ Services!RootGetServiceFactory(s) =
             Services!OrThrow(Services!Each(last, Services!FromFactory))
        /\ Services!RootGetServices(s) = Services!Each(first, Services!FromRoot)
    BY <1>4 DEF Services!RootGetService, Services!RootGetServiceFactory,
                Services!RootGetServices, LifetimesOf, first, last
  <2>2. /\ Opens(bindings, h, Services!RootGetService(method, s))
        /\ Opens(bindings, h, Services!RootGetServiceFactory(s))
        /\ Opens(bindings, h, Services!RootGetServices(s))
    BY <1>1, <1>2, <1>3, <2>1
  <2> QED
    BY <1>4, <2>2 DEF Services!JobsOutside
<1>5. CASE h # Services!Root
  <2>1. /\ Services!ScopeGetService(method, s) =
             Services!OrNothing(method, Services!Each(last, Services!FromScope))
        /\ Services!ScopeGetServiceFactory(s) =
             Services!OrThrow(Services!Each(last, Services!FromFactory))
        /\ Services!ScopeGetServices(s) = Services!Each(first, Services!FromScope)
    BY <1>5 DEF Services!ScopeGetService, Services!ScopeGetServiceFactory,
                Services!ScopeGetServices, LifetimesOf, first, last
  <2>2. /\ Opens(bindings, h, Services!ScopeGetService(method, s))
        /\ Opens(bindings, h, Services!ScopeGetServiceFactory(s))
        /\ Opens(bindings, h, Services!ScopeGetServices(s))
    BY <1>1, <1>2, <1>3, <2>1
  <2> QED
    BY <1>5, <2>2 DEF Services!JobsOutside
<1> QED
  BY <1>4, <1>5
-----------------------------------------------------------------------------
(* Services: what a factory's requests are turned into. *)

(* The mutexes that cover an instance of a lifetime, and that the jobs that *)
(* activate one are done under                                              *)
Suffices(l, h, locks) ==
  /\ l = "singleton" => Services!Root \in locks
  /\ l = "scoped" => Services!Root \in locks \/ h \in locks
Prepared(todo, h, locks) ==
  \A p \in 1 .. Len(todo) : todo[p].do = "activate" =>
    /\ todo[p].entry.lifetime = "singleton" =>
         Services!Root \in locks \/ LockedBefore(todo, p, Services!Root)
    /\ todo[p].entry.lifetime = "scoped" =>
         \/ Services!Root \in locks \/ LockedBefore(todo, p, Services!Root)
         \/ h \in locks \/ LockedBefore(todo, p, h)

(* A factory of the one service asks for the other one. *)
Asks(b, s, x) ==
  \E l \in Services!Lifetime : \E i \in 1 .. Len(b[l][s]) :
    \E k \in 1 .. Len(b[l][s][i].needs) : b[l][s][i].needs[k][2] = x
NeedsOf(b, e) == b[e.lifetime][e.service][e.nr].needs

FrameOf(b) == [entry : Entry(b) \cup {Services!NoEntry}, todo : Seq(JobOf(b))]
FrameSound(b, h, locks, f) ==
  /\ f \in FrameOf(b) /\ JobsFit(b, h, f.todo) /\ Prepared(f.todo, h, locks)
  /\ f.entry # Services!NoEntry =>
       /\ Serves(h, f.entry.lifetime) /\ Suffices(f.entry.lifetime, h, locks)
       /\ \A p \in 1 .. Len(f.todo) : f.todo[p].do = "activate" =>
            Asks(b, f.entry.service, f.todo[p].entry.service)

(* The instances that have to be there before one for the binding is *)
Prerequisites(b, h, e) ==
  {x \in Entry(b) : \E k \in 1 .. Len(NeedsOf(b, e)) : \E l \in {"singleton", "scoped"} :
     /\ Serves(h, l) /\ b[l][NeedsOf(b, e)[k][2]] # <<>>
     /\ x = LastEntry(b, l, NeedsOf(b, e)[k][2])}

LEMMA NeedsAre ==
  ASSUME NEW b, AreBindings(b), NEW e \in Entry(b)
  PROVE  /\ e.lifetime \in Services!Lifetime /\ e.service \in Services!Service
         /\ e.nr \in 1 .. Len(b[e.lifetime][e.service])
         /\ b[e.lifetime][e.service][e.nr] \in Bound
         /\ NeedsOf(b, e) \in Seq(Services!Need)
         /\ Len(NeedsOf(b, e)) \in Nat
         /\ \A k \in 1 .. Len(NeedsOf(b, e)) :
              /\ NeedsOf(b, e)[k][1] \in {"get", "try", "all", "factory", "scope"}
              /\ NeedsOf(b, e)[k][2] \in Services!Service
              /\ Asks(b, e.service, NeedsOf(b, e)[k][2])
<1>1. /\ e.lifetime \in Services!Lifetime /\ e.service \in Services!Service
      /\ e.nr \in 1 .. Len(b[e.lifetime][e.service])
  BY DEF Entry
<1>2. b[e.lifetime][e.service] \in Seq(Bound)
  BY <1>1 DEF AreBindings
<1>3. b[e.lifetime][e.service][e.nr] \in Bound
  BY <1>1, <1>2, ElementOfSeq
<1>4. NeedsOf(b, e) \in Seq(Services!Need)
  BY <1>3 DEF Bound, NeedsOf
<1>5. Len(NeedsOf(b, e)) \in Nat
  BY <1>4, LenProperties
<1>6. ASSUME NEW k \in 1 .. Len(NeedsOf(b, e))
      PROVE  /\ NeedsOf(b, e)[k][1] \in {"get", "try", "all", "factory", "scope"}
             /\ NeedsOf(b, e)[k][2] \in Services!Service
             /\ Asks(b, e.service, NeedsOf(b, e)[k][2])
  <2>1. NeedsOf(b, e)[k] \in Services!Need
    BY <1>4, ElementOfSeq
  <2>2. Asks(b, e.service, NeedsOf(b, e)[k][2])
    BY <1>1 DEF Asks, NeedsOf
  <2> QED
    BY <2>1, <2>2 DEF Services!Need
<1> QED
  BY <1>1, <1>3, <1>4, <1>5, <1>6

Inside(h, e) ==
  Services!FlattenSeq([i \in DOMAIN NeedsOf(bindings, e) |->
    Services!JobsInside(h, NeedsOf(bindings, e)[i][1], NeedsOf(bindings, e)[i][2])])

LEMMA InsideIs ==
  ASSUME AreBindings(bindings), NEW h \in Holder, NEW e \in Entry(bindings)
  PROVE  /\ JobsFit(bindings, h, Inside(h, e))
         /\ \A p \in 1 .. Len(Inside(h, e)) : Inside(h, e)[p].do = "activate" =>
              /\ Asks(bindings, e.service, Inside(h, e)[p].entry.service)
              /\ Inside(h, e)[p].entry.lifetime = "singleton" /\ h # Services!Root =>
                   LockedBefore(Inside(h, e), p, Services!Root)
         /\ \A x \in Prerequisites(bindings, h, e) : Ensured(Inside(h, e), x)
         /\ NeedsOf(bindings, e) = <<>> => Len(Inside(h, e)) = 0
<1> DEFINE needs == NeedsOf(bindings, e)  n == Len(needs)  inside == Inside(h, e)
           seqs == [i \in 1 .. n |->
                      Services!JobsInside(h, needs[i][1], needs[i][2])]
           S == JobOf(bindings)
<1>1. /\ n \in Nat /\ needs \in Seq(Services!Need)
      /\ \A k \in 1 .. n :
           /\ needs[k][1] \in {"get", "try", "all", "factory", "scope"}
           /\ needs[k][2] \in Services!Service
           /\ Asks(bindings, e.service, needs[k][2])
  BY NeedsAre
<1>2. DOMAIN needs = 1 .. n /\ (needs = <<>> => n = 0)
  BY <1>1, LenProperties, EmptySeq
<1>3. inside = Services!FlattenSeq(seqs)
  BY <1>2 DEF Inside
<1> HIDE DEF inside, n
<1>4. ASSUME NEW i \in 1 .. n
      PROVE  Answers(bindings, h, needs[i][2], seqs[i]) /\ seqs[i] \in Seq(S)
  <2> DEFINE m == needs[i][1]  s == needs[i][2]
  <2>1. m \in {"get", "try", "all", "factory", "scope"} /\ s \in Services!Service
    BY <1>1
  <2>2. seqs[i] = Services!JobsInside(h, m, s)
    OBVIOUS
  <2> HIDE DEF m, s, seqs
  <2>3. Answers(bindings, h, s, seqs[i])
    BY <2>1, <2>2, JobsInsideAnswer
  <2> QED
    BY <2>3 DEF s, Answers, JobsFit
<1>5. Len(seqs) = n /\ (n = 0 => seqs = <<>>)
  <2>1. seqs \in Seq(Seq(S)) /\ Len(seqs) = n
    <3>1. \A i \in 1 .. n :
            Services!JobsInside(h, needs[i][1], needs[i][2]) \in Seq(S)
      BY <1>4
    <3> HIDE DEF needs, S
    <3> QED
      BY <1>1, <3>1, IsASeq
  <2> HIDE DEF seqs
  <2> QED
    BY <2>1, EmptySeq
<1> HIDE DEF seqs, S, needs
<1>6. inside \in Seq(S) /\ IsFlat(inside, seqs, n)
  <2>1. Len(seqs) \in Nat /\ (Len(seqs) = 0 => seqs = <<>>)
        /\ \A i \in 1 .. Len(seqs) : seqs[i] \in Seq(S)
    BY <1>1, <1>4, <1>5
  <2>2. Services!FlattenSeq(seqs) \in Seq(S)
        /\ IsFlat(Services!FlattenSeq(seqs), seqs, Len(seqs))
    BY <2>1, Flattened
  <2> QED
    BY <1>3, <1>5, <2>2
<1>7. Len(inside) \in Nat
  BY <1>6, LenProperties
<1>8. ASSUME NEW p \in 1 .. Len(inside)
      PROVE  /\ JobFits(bindings, h, inside[p])
             /\ inside[p].do = "activate" =>
                  /\ Asks(bindings, e.service, inside[p].entry.service)
                  /\ inside[p].entry.lifetime = "singleton" /\ h # Services!Root =>
                       LockedBefore(inside, p, Services!Root)
  <2>1. PICK i \in 1 .. n : ComesFrom(inside, p, seqs[i])
    BY <1>6 DEF IsFlat
  <2>2. PICK q \in 1 .. Len(seqs[i]) :
          q <= p /\ \A r \in 1 .. q : inside[p - q + r] = seqs[i][r]
    BY <2>1 DEF ComesFrom
  <2>3. /\ JobsFit(bindings, h, seqs[i])
        /\ seqs[i][q].do = "activate" =>
             /\ seqs[i][q].entry.service = needs[i][2]
             /\ seqs[i][q].entry.lifetime = "singleton" /\ h # Services!Root =>
                  LockedBefore(seqs[i], q, Services!Root)
    BY <1>4 DEF Answers
  <2>4. q \in Nat /\ q \in 1 .. q /\ p - q + q = p /\ p - q \in Nat
    BY <1>7, <2>2
  <2>5. inside[p] = seqs[i][q]
    BY <2>2, <2>4
  <2>6. ASSUME LockedBefore(seqs[i], q, Services!Root)
        PROVE  LockedBefore(inside, p, Services!Root)
    <3>1. PICK r \in 1 .. q - 1 : /\ seqs[i][r].do = "lock"
                                  /\ seqs[i][r].mutex = Services!Root
      BY <2>6 DEF LockedBefore
    <3> DEFINE o == p - q + r
    <3>2. r \in 1 .. q /\ o \in 1 .. p - 1
      BY <2>4
    <3>3. inside[o] = seqs[i][r]
      BY <2>2, <3>2
    <3> HIDE DEF o
    <3> QED
      BY <3>1, <3>2, <3>3 DEF LockedBefore
  <2>7. JobFits(bindings, h, inside[p])
    BY <2>3, <2>5 DEF JobsFit
  <2> QED
    BY <1>1, <2>3, <2>5, <2>6, <2>7
<1>9. ASSUME NEW x \in Prerequisites(bindings, h, e)  PROVE Ensured(inside, x)
  <2>1. PICK k \in 1 .. n : \E l \in {"singleton", "scoped"} :
          /\ Serves(h, l) /\ bindings[l][needs[k][2]] # <<>>
          /\ x = LastEntry(bindings, l, needs[k][2])
    BY DEF Prerequisites, n, needs
  <2>2. Ensured(seqs[k], x)
    BY <1>4, <2>1 DEF Answers
  <2>3. PICK q \in 1 .. Len(seqs[k]) : Ensures(seqs[k][q], x)
    BY <2>2 DEF Ensured
  <2>4. PICK p \in 1 .. Len(inside) : inside[p] = seqs[k][q]
    BY <1>6, <2>3 DEF IsFlat, Contains
  <2> QED
    BY <2>3, <2>4 DEF Ensured
<1>10. ASSUME needs = <<>>  PROVE Len(inside) = 0
  <2>1. n = 0
    BY <1>2, <1>10
  <2>2. \A p \in 1 .. Len(inside) : FALSE
    BY <1>6, <2>1 DEF IsFlat
  <2> QED
    BY <1>7, <2>2
<1>11. JobsFit(bindings, h, inside)
  BY <1>6, <1>8 DEF JobsFit, S
<1> QED
  BY <1>8, <1>9, <1>10, <1>11 DEF inside, needs

(* A factory is called under the mutexes that its own instance takes, or    *)
(* acquires the one of the singletons first.                                *)
LEMMA ConstructionIs ==
  ASSUME AreBindings(bindings), NEW t, Services!Current(t).via \in Holder,
         NEW e \in Entry(bindings), NEW locks,
         Serves(Services!Current(t).via, e.lifetime),
         Suffices(e.lifetime, Services!Current(t).via, locks)
  PROVE  LET h == Services!Current(t).via
             f == Services!Frame(e, Services!Construction(t, e))
         IN /\ FrameSound(bindings, h, locks, f) /\ f.entry = e
            /\ \A x \in Prerequisites(bindings, h, e) : Ensured(f.todo, x)
<1> DEFINE h == Services!Current(t).via
           todo == Services!Construction(t, e)
           f == Services!Frame(e, todo)
           inside == Inside(h, e)
           lock == e.lifetime = "transient" /\ ~bindings[e.lifetime][e.service][e.nr].provided
           S == JobOf(bindings)
<1>1. /\ JobsFit(bindings, h, inside)
      /\ \A p \in 1 .. Len(inside) : inside[p].do = "activate" =>
           /\ Asks(bindings, e.service, inside[p].entry.service)
           /\ inside[p].entry.lifetime = "singleton" /\ h # Services!Root =>
                LockedBefore(inside, p, Services!Root)
      /\ \A x \in Prerequisites(bindings, h, e) : Ensured(inside, x)
      /\ NeedsOf(bindings, e) = <<>> => Len(inside) = 0
  BY InsideIs
<1>2. todo = IF lock THEN <<Services!Lock(Services!Root)>> \o inside ELSE inside
  BY DEF Services!Construction, Services!Binding, Inside, NeedsOf
<1>3. /\ bindings[e.lifetime][e.service][e.nr] \in Bound
      /\ e.lifetime \in Services!Lifetime
  BY NeedsAre
<1>4. ~lock /\ e.lifetime = "transient" => Len(inside) = 0
  BY <1>1, <1>3 DEF Bound, NeedsOf
<1>5. inside \in Seq(S) /\ Len(inside) \in Nat
  BY <1>1, LenProperties DEF JobsFit
<1>6. f.entry = e /\ f.todo = todo /\ f = [entry |-> e, todo |-> todo]
  BY DEF Services!Frame
<1>7. Services!NoEntry \notin Entry(bindings)
  BY DEF Services!NoEntry, Entry, Services!Lifetime
<1> HIDE DEF todo, f, inside, h
<1>8. h \in Holder /\ Serves(h, e.lifetime) /\ Suffices(e.lifetime, h, locks)
  BY DEF h
<1>9. SUFFICES /\ JobsFit(bindings, h, todo) /\ Prepared(todo, h, locks)
               /\ \A p \in 1 .. Len(todo) : todo[p].do = "activate" =>
                    Asks(bindings, e.service, todo[p].entry.service)
               /\ \A x \in Prerequisites(bindings, h, e) : Ensured(todo, x)
  <2>1. todo \in Seq(S)
    BY <1>9 DEF JobsFit
  <2>2. f \in FrameOf(bindings)
    BY <1>6, <2>1 DEF FrameOf
  <2>3. FrameSound(bindings, h, locks, f)
    BY <1>6, <1>8, <1>9, <2>2 DEF FrameSound
  <2> QED
    BY <1>6, <1>9, <2>3 DEF h, f, todo
<1>10. CASE lock
  <2> DEFINE x == Services!Lock(Services!Root)  one == <<x>>  all == one \o inside
             n == Len(inside)
  <2>1. x \in S /\ JobFits(bindings, h, x) /\ x.do = "lock" /\ x.mutex = Services!Root
    BY <1>8, LockFits
  <2> HIDE DEF x, S
  <2>2. one \in Seq(S) /\ Len(one) = 1 /\ one[1] = x
    BY <2>1
  <2> HIDE DEF one
  <2>3. /\ all \in Seq(S) /\ Len(all) = 1 + n
        /\ \A i \in 1 .. 1 + n : all[i] = IF i <= 1 THEN one[i] ELSE inside[i - 1]
    BY <1>5, <2>2, ConcatProperties
  <2>4. todo = all
    BY <1>2, <1>10 DEF one, x
  <2> HIDE DEF all, n
  <2>5. n \in Nat
    BY <1>5 DEF n
  <2>6. all[1] = x
    BY <2>2, <2>3, <2>5
  <2>7. ASSUME NEW p \in 1 .. 1 + n, p # 1
        PROVE  /\ p - 1 \in 1 .. n /\ all[p] = inside[p - 1]
               /\ LockedBefore(all, p, Services!Root)
    <3>1. p - 1 \in 1 .. n /\ ~(p <= 1) /\ 1 \in 1 .. p - 1
      BY <2>5, <2>7
    <3> QED
      BY <2>1, <2>3, <2>6, <3>1 DEF LockedBefore
  <2>8. JobsFit(bindings, h, all)
    <3>1. \A p \in 1 .. 1 + n : JobFits(bindings, h, all[p])
      BY <1>1, <2>1, <2>6, <2>7 DEF JobsFit, n
    <3> QED
      BY <2>3, <3>1 DEF JobsFit, S
  <2>9. Prepared(all, h, locks)
    <3>1. \A p \in 1 .. 1 + n : all[p].do = "activate" => p # 1
      BY <2>1, <2>6
    <3> QED
      BY <2>3, <2>7, <3>1 DEF Prepared
  <2>10. \A p \in 1 .. Len(all) : all[p].do = "activate" =>
           Asks(bindings, e.service, all[p].entry.service)
    BY <1>1, <2>1, <2>3, <2>6, <2>7 DEF n
  <2>11. ASSUME NEW y \in Prerequisites(bindings, h, e)  PROVE Ensured(all, y)
    <3>1. PICK q \in 1 .. n : Ensures(inside[q], y)
      BY <1>1 DEF Ensured, n
    <3> DEFINE p == q + 1
    <3>2. p \in 1 .. 1 + n /\ p # 1 /\ p - 1 = q
      BY <2>5
    <3> HIDE DEF p
    <3>3. Ensures(all[p], y)
      BY <2>7, <3>1, <3>2
    <3> QED
      BY <2>3, <3>2, <3>3 DEF Ensured
  <2> QED
    BY <2>4, <2>8, <2>9, <2>10, <2>11
<1>11. CASE ~lock
  <2>1. todo = inside
    BY <1>2, <1>11
  <2>2. Prepared(inside, h, locks)
    <3>1. CASE e.lifetime = "transient"
      <4>1. Len(inside) = 0
        BY <1>4, <1>11, <3>1
      <4> QED
        BY <4>1 DEF Prepared
    <3>2. CASE e.lifetime = "singleton"
      <4>1. Services!Root \in locks
        BY <1>8, <3>2 DEF Suffices
      <4> QED
        BY <4>1 DEF Prepared
    <3>3. CASE e.lifetime = "scoped"
      <4>1. h # Services!Root /\ (Services!Root \in locks \/ h \in locks)
        BY <1>8, <3>3 DEF Suffices, Serves
      <4> QED
        BY <1>1, <4>1 DEF Prepared
    <3> QED
      BY <1>3, <3>1, <3>2, <3>3 DEF Services!Lifetime
  <2> QED
    BY <1>1, <2>1, <2>2
<1> QED
  BY <1>10, <1>11

-----------------------------------------------------------------------------
(* Services: each binding has a slot of its own. *)

Pairs(b, l, S) == UNION {{s} \X DOMAIN b[l][s] : s \in S}
CountOf(b, l, S) == Cardinality(Pairs(b, l, S))
Before(s) == {x \in Services!Service : x < s}
IndexOf(b, e) == CountOf(b, e.lifetime, Before(e.service)) + e.nr

LEMMA CountIs ==
  ASSUME NEW b, AreBindings(b), NEW l \in Services!Lifetime,
         NEW S, S \subseteq Services!Service
  PROVE  IsFiniteSet(Pairs(b, l, S)) /\ CountOf(b, l, S) \in Nat
<1> DEFINE P(s) == {s} \X DOMAIN b[l][s]
           F == {P(s) : s \in S}
           f == [s \in S |-> P(s)]
<1>1. IsFiniteSet(S)
  <2>1. IsFiniteSet(Services!Service)
    BY ConcurrentAssumption DEF Services!ServicesAssumption, Services!IsFiniteSet,
                                IsFiniteSet
  <2> QED
    BY <2>1, FS_Subset
<1>2. f \in Surjection(S, F)
  <2>1. f \in [S -> F]
    OBVIOUS
  <2>2. \A T \in F : \E s \in S : f[s] = T
    OBVIOUS
  <2> HIDE DEF f, F
  <2> QED
    BY <2>1, <2>2 DEF Surjection
<1>3. IsFiniteSet(F)
  <2> HIDE DEF f, F
  <2> QED
    BY <1>1, <1>2, FS_Surjection
<1>4. ASSUME NEW s \in S  PROVE IsFiniteSet(P(s))
  <2>1. b[l][s] \in Seq(Bound)
    BY DEF AreBindings
  <2>2. DOMAIN b[l][s] = 1 .. Len(b[l][s]) /\ Len(b[l][s]) \in Nat
    BY <2>1, LenProperties
  <2> DEFINE T == 1 .. Len(b[l][s])  one == {s}
  <2>3. IsFiniteSet(one)
    BY FS_Singleton
  <2>4. IsFiniteSet(T)
    BY <2>2, FS_Interval
  <2>5. P(s) = one \X T
    BY <2>2
  <2> HIDE DEF T, one, P
  <2> QED
    BY <2>3, <2>4, <2>5, FS_Product
<1>5. \A T \in F : IsFiniteSet(T)
  BY <1>4
<1>6. Pairs(b, l, S) = UNION F
  BY DEF Pairs
<1> HIDE DEF F
<1>7. IsFiniteSet(Pairs(b, l, S))
  BY <1>3, <1>5, <1>6, FS_UNION
<1> QED
  BY <1>7, FS_CardinalityType DEF CountOf

(* The bindings of a service come behind those of the services before it. *)
LEMMA CountGrows ==
  ASSUME NEW b, AreBindings(b), NEW l \in Services!Lifetime, NEW s \in Services!Service,
         NEW S, S \subseteq Services!Service, Before(s) \cup {s} \subseteq S
  PROVE  /\ CountOf(b, l, Before(s)) \in Nat /\ CountOf(b, l, S) \in Nat
         /\ CountOf(b, l, Before(s)) + Len(b[l][s]) <= CountOf(b, l, S)
<1> DEFINE A == Pairs(b, l, Before(s))  B == Pairs(b, l, {s})  C == Pairs(b, l, S)
           n == Len(b[l][s])
<1>1. s \in Nat /\ Services!Service \subseteq Nat
  BY ConcurrentAssumption DEF Services!ServicesAssumption
<1>2. Before(s) \subseteq Services!Service /\ s \notin Before(s)
  BY <1>1 DEF Before
<1>3. /\ IsFiniteSet(A) /\ IsFiniteSet(B) /\ IsFiniteSet(C)
      /\ Cardinality(A) \in Nat /\ Cardinality(B) \in Nat /\ Cardinality(C) \in Nat
  BY <1>2, CountIs DEF CountOf
<1>4. A \cap B = {}
  BY <1>2 DEF Pairs
<1>5. A \cup B \subseteq C
  BY DEF Pairs
<1>6. Cardinality(B) = n
  <2>1. b[l][s] \in Seq(Bound)
    BY DEF AreBindings
  <2>2. DOMAIN b[l][s] = 1 .. n /\ n \in Nat
    BY <2>1, LenProperties
  <2>3. B = {s} \X (1 .. n)
    BY <2>2 DEF Pairs
  <2>4. IsFiniteSet({s}) /\ Cardinality({s}) = 1
    BY FS_Singleton
  <2> HIDE DEF n, B
  <2>5. IsFiniteSet(1 .. n) /\ Cardinality(1 .. n) = n
    <3>1. Cardinality(1 .. n) = IF 1 > n THEN 0 ELSE n - 1 + 1
      BY <2>2, FS_Interval
    <3>2. IsFiniteSet(1 .. n)
      BY <2>2, FS_Interval
    <3> QED
      BY <2>2, <3>1, <3>2
  <2>6. Cardinality(B) = 1 * n
    BY <2>3, <2>4, <2>5, FS_Product
  <2> QED
    BY <2>2, <2>6
<1>7. Cardinality({}) = 0
  BY FS_EmptySet
<1> HIDE DEF A, B, C, n
<1>8. /\ IsFiniteSet(A \cup B)
      /\ Cardinality(A \cup B) = Cardinality(A) + Cardinality(B) - Cardinality(A \cap B)
  BY <1>3, FS_Union
<1>9. Cardinality(A \cup B) <= Cardinality(C)
  BY <1>3, <1>5, FS_Subset
<1>10. Cardinality(A) + n <= Cardinality(C)
  <2>1. Cardinality(A \cap B) = 0
    BY <1>4, <1>7
  <2> DEFINE i == Cardinality(A)  j == Cardinality(B)  k == Cardinality(C)
             u == Cardinality(A \cup B)
  <2>2. i \in Nat /\ j \in Nat /\ k \in Nat /\ j = n /\ u = i + j - 0 /\ u <= k
    BY <1>3, <1>6, <1>8, <1>9, <2>1
  <2> HIDE DEF i, j, k, u
  <2>3. i + n <= k
    BY <2>2
  <2> QED
    BY <2>3 DEF i, k
<1> QED
  BY <1>3, <1>10 DEF A, C, n, CountOf

LEMMA IndexesAre ==
  ASSUME NEW b, AreBindings(b), NEW e \in Entry(b)
  PROVE  /\ CountOf(b, e.lifetime, Services!Service) \in Nat
         /\ IndexOf(b, e) \in 1 .. CountOf(b, e.lifetime, Services!Service)
<1> DEFINE l == e.lifetime  s == e.service  i == e.nr
           n == CountOf(b, l, Before(s))  m == CountOf(b, l, Services!Service)
<1>1. l \in Services!Lifetime /\ s \in Services!Service /\ i \in 1 .. Len(b[l][s])
  BY NeedsAre
<1>2. b[l][s] \in Seq(Bound)
  BY <1>1 DEF AreBindings
<1>3. Len(b[l][s]) \in Nat
  BY <1>2, LenProperties
<1>4. Before(s) \cup {s} \subseteq Services!Service
  BY <1>1 DEF Before
<1>5. n \in Nat /\ m \in Nat /\ n + Len(b[l][s]) <= m
  <2> HIDE DEF l, s
  <2> QED
    BY <1>1, <1>4, CountGrows
<1>6. IndexOf(b, e) = n + i
  BY DEF IndexOf
<1> HIDE DEF n, m, l, s, i
<1>7. n + i \in 1 .. m
  BY <1>1, <1>3, <1>5
<1> QED
  BY <1>5, <1>6, <1>7 DEF m, l

LEMMA IndexesDiffer ==
  ASSUME NEW b, AreBindings(b), NEW e \in Entry(b), NEW f \in Entry(b),
         e.lifetime = f.lifetime, e.service < f.service
  PROVE  IndexOf(b, e) # IndexOf(b, f)
<1> DEFINE l == e.lifetime  s == e.service  i == e.nr  r == f.service  j == f.nr
           n == CountOf(b, l, Before(s))  m == CountOf(b, l, Before(r))
<1>1. /\ l \in Services!Lifetime /\ s \in Services!Service /\ i \in 1 .. Len(b[l][s])
      /\ r \in Services!Service /\ j \in 1 .. Len(b[l][r])
  BY NeedsAre
<1>2. b[l][s] \in Seq(Bound) /\ b[l][r] \in Seq(Bound)
  BY <1>1 DEF AreBindings
<1>3. Len(b[l][s]) \in Nat /\ Len(b[l][r]) \in Nat
  BY <1>2, LenProperties
<1>4. s \in Nat /\ r \in Nat /\ Services!Service \subseteq Nat
  BY <1>1, ConcurrentAssumption DEF Services!ServicesAssumption
<1>5. Before(s) \cup {s} \subseteq Before(r) /\ Before(r) \subseteq Services!Service
  <2>1. s < r
    OBVIOUS
  <2> HIDE DEF s, r
  <2>2. ASSUME NEW x \in Services!Service, x < s  PROVE x < r
    <3>1. x \in Nat
      BY <1>4
    <3> QED
      BY <1>4, <2>1, <2>2, <3>1
  <2> QED
    BY <1>1, <2>1, <2>2 DEF Before
<1>6. n \in Nat /\ m \in Nat /\ n + Len(b[l][s]) <= m
  <2> HIDE DEF l, s, r
  <2> QED
    BY <1>1, <1>5, CountGrows
<1>7. IndexOf(b, e) = n + i /\ IndexOf(b, f) = m + j
  BY DEF IndexOf
<1> HIDE DEF n, m, l, s, i, r, j
<1>8. n + i # m + j
  BY <1>1, <1>3, <1>6
<1> QED
  BY <1>7, <1>8

LEMMA IndexesAreUnique ==
  ASSUME NEW b, AreBindings(b), NEW e \in Entry(b), NEW f \in Entry(b),
         e.lifetime = f.lifetime, IndexOf(b, e) = IndexOf(b, f)
  PROVE  e = f
<1>1. /\ e.service \in Nat /\ f.service \in Nat /\ e.nr \in Nat /\ f.nr \in Nat
      /\ e = [lifetime |-> e.lifetime, service |-> e.service, nr |-> e.nr]
      /\ f = [lifetime |-> f.lifetime, service |-> f.service, nr |-> f.nr]
      /\ e.lifetime \in Services!Lifetime
  BY ConcurrentAssumption DEF Entry, Services!ServicesAssumption
<1>2. e.service = f.service
  <2>1. ~(e.service < f.service) /\ ~(f.service < e.service)
    BY IndexesDiffer
  <2> QED
    BY <1>1, <2>1
<1> DEFINE n == CountOf(b, e.lifetime, Before(e.service))
<1>3. n \in Nat
  BY <1>1, CountIs DEF Before
<1>4. IndexOf(b, e) = n + e.nr /\ IndexOf(b, f) = n + f.nr
  BY <1>2 DEF IndexOf
<1>5. e.nr = f.nr
  <2> DEFINE i == e.nr  j == f.nr
  <2>1. n + i = n + j
    BY <1>4
  <2>2. i \in Nat /\ j \in Nat
    BY <1>1
  <2> HIDE DEF n, i, j
  <2>3. i = j
    BY <1>3, <2>1, <2>2
  <2> QED
    BY <2>3 DEF i, j
<1> QED
  BY <1>1, <1>2, <1>5

LEMMA IndexesAgree ==
  ASSUME NEW e
  PROVE  Services!UniqueServiceIndex(e) = IndexOf(bindings, e)
  BY DEF Services!UniqueServiceIndex, Services!Count, IndexOf, CountOf, Pairs, Before,
         Services!Cardinality, Cardinality

-----------------------------------------------------------------------------
(* Services: frames and contexts. *)

(* A service that is constructed in a context was asked for by the one      *)
(* before, and is constructed there once.                                   *)
Linked(b, frames) ==
  /\ \A j \in 1 .. Len(frames) : frames[j].entry = Services!NoEntry <=> j = 1
  /\ \A j \in 2 .. Len(frames) - 1 :
       Asks(b, frames[j].entry.service, frames[j + 1].entry.service)
  /\ \A i, j \in 2 .. Len(frames) :
       frames[i].entry.service = frames[j].entry.service => i = j

FramesSound(b, h, locks, frames) ==
  /\ frames \in Seq(FrameOf(b)) /\ frames # <<>>
  /\ \A j \in 1 .. Len(frames) : FrameSound(b, h, locks, frames[j])
  /\ Linked(b, frames)

ContextSound(b, providers, c) ==
  /\ c.via \in providers /\ c.via \in Holder
  /\ c.locks \subseteq {Services!Root, c.via}
  /\ FramesSound(b, c.via, c.locks, c.frames)

(* Sequences of which the last one is replaced or taken away *)
LEMMA LastReplaced ==
  ASSUME NEW S, NEW s \in Seq(S), s # <<>>, NEW x \in S
  PROVE  LET r == Append(Services!Front(s), x)
         IN /\ Len(s) \in Nat /\ Len(s) >= 1
            /\ r \in Seq(S) /\ Len(r) = Len(s) /\ r[Len(s)] = x
            /\ \A i \in 1 .. Len(s) - 1 : r[i] = s[i]
            /\ Services!Front(s) \in Seq(S) /\ Len(Services!Front(s)) = Len(s) - 1
            /\ \A i \in 1 .. Len(s) - 1 : Services!Front(s)[i] = s[i]
<1> DEFINE n == Len(s)  f == SubSeq(s, 1, n - 1)
<1>1. n \in Nat /\ n >= 1
  <2>1. n \in Nat \ {0}
    BY EmptySeq
  <2> HIDE DEF n
  <2> QED
    BY <2>1
<1>2. ASSUME NEW i \in 1 .. n - 1  PROVE s[i] \in S
  <2>1. i \in 1 .. n
    BY <1>1
  <2> QED
    BY <2>1, ElementOfSeq
<1> HIDE DEF n
<1>3. /\ f \in Seq(S) /\ Len(f) = n - 1
      /\ \A i \in 1 .. n - 1 : f[i] = s[i]
  <2>1. 1 \in Int /\ n - 1 \in Int
    BY <1>1
  <2>2. /\ f \in Seq(S)
        /\ Len(f) = IF 1 <= n - 1 THEN n - 1 - 1 + 1 ELSE 0
        /\ \A i \in 1 .. n - 1 - 1 + 1 : f[i] = s[1 + i - 1]
    BY <1>2, <2>1, SubSeqProperties
  <2> HIDE DEF f
  <2>3. Len(f) = n - 1
    BY <1>1, <2>2
  <2>4. ASSUME NEW i \in 1 .. n - 1  PROVE f[i] = s[i]
    <3>1. i \in 1 .. n - 1 - 1 + 1 /\ 1 + i - 1 = i
      BY <1>1
    <3> QED
      BY <2>2, <3>1
  <2> QED
    BY <2>2, <2>3, <2>4
<1>4. Services!Front(s) = f
  BY DEF Services!Front, n
<1> DEFINE r == Append(f, x)
<1> HIDE DEF f
<1>5. /\ r \in Seq(S) /\ Len(r) = Len(f) + 1 /\ r[Len(f) + 1] = x
      /\ \A i \in 1 .. Len(f) : r[i] = f[i]
  BY <1>3, AppendProperties
<1>6. Len(f) + 1 = n
  BY <1>1, <1>3
<1>7. \A i \in 1 .. n - 1 : r[i] = s[i]
  BY <1>3, <1>5
<1>8. Len(r) = n /\ r[n] = x
  BY <1>5, <1>6
<1> HIDE DEF r
<1> QED
  BY <1>1, <1>3, <1>4, <1>5, <1>7, <1>8 DEF r, n

(* More mutexes do no harm, and a job that is done leaves the ones it took. *)
LEMMA FrameKeeps ==
  ASSUME NEW b, NEW h, NEW locks, NEW more, locks \subseteq more, NEW f,
         FrameSound(b, h, locks, f)
  PROVE  FrameSound(b, h, more, f)
<1>1. Prepared(f.todo, h, more)
  BY DEF FrameSound, Prepared
<1>2. \A l : Suffices(l, h, locks) => Suffices(l, h, more)
  BY DEF Suffices
<1> QED
  BY <1>1, <1>2 DEF FrameSound

LEMMA FrameGoesOn ==
  ASSUME NEW b, NEW h, NEW locks, NEW more, locks \subseteq more, NEW f,
         FrameSound(b, h, locks, f), f.todo # <<>>,
         Head(f.todo).do = "lock" => Head(f.todo).mutex \in more
  PROVE  LET g == [f EXCEPT !.todo = Tail(@)]
         IN /\ FrameSound(b, h, more, g) /\ g.entry = f.entry /\ g.todo = Tail(f.todo)
            /\ Len(f.todo) \in Nat /\ Len(f.todo) >= 1 /\ Head(f.todo) = f.todo[1]
            /\ Len(g.todo) = Len(f.todo) - 1
            /\ \A p \in 1 .. Len(g.todo) : g.todo[p] = f.todo[p + 1]
<1> DEFINE S == JobOf(b)  todo == f.todo  rest == Tail(todo)  n == Len(todo)
           g == [f EXCEPT !.todo = Tail(@)]
<1>1. f \in FrameOf(b) /\ JobsFit(b, h, todo) /\ Prepared(todo, h, locks)
  BY DEF FrameSound
<1>2. g = [entry |-> f.entry, todo |-> rest] /\ todo \in Seq(S)
  BY <1>1 DEF FrameOf
<1>3. g.entry = f.entry /\ g.todo = rest
  BY <1>2
<1> HIDE DEF g, S
<1>4. n \in Nat /\ n >= 1
  <2>1. n \in Nat \ {0}
    BY <1>2, EmptySeq
  <2> QED
    BY <2>1
<1>5. /\ rest \in Seq(S) /\ Len(rest) = n - 1
      /\ \A p \in 1 .. Len(rest) : rest[p] = todo[p + 1]
  BY <1>2, HeadTailProperties
<1>6. Head(todo) = todo[1]
  BY <1>2
<1> HIDE DEF rest, n, todo
<1>7. ASSUME NEW p \in 1 .. n - 1
      PROVE  p + 1 \in 1 .. n /\ rest[p] = todo[p + 1]
  BY <1>4, <1>5
<1>8. JobsFit(b, h, rest)
  BY <1>1, <1>5, <1>7 DEF JobsFit, S, n
<1>9. ASSUME NEW p \in 1 .. n - 1, NEW m, LockedBefore(todo, p + 1, m)
      PROVE  m \in more \/ LockedBefore(rest, p, m)
  <2>1. PICK q \in 1 .. p + 1 - 1 : todo[q].do = "lock" /\ todo[q].mutex = m
    BY <1>9 DEF LockedBefore
  <2>2. CASE q = 1
    BY <1>6, <2>1, <2>2 DEF todo
  <2>3. CASE q # 1
    <3> DEFINE r == q - 1
    <3>1. r \in 1 .. p - 1 /\ r \in 1 .. n - 1 /\ r + 1 = q
      BY <1>4, <2>1, <2>3
    <3> HIDE DEF r
    <3>2. rest[r] = todo[q]
      BY <1>7, <3>1
    <3> QED
      BY <2>1, <3>1, <3>2 DEF LockedBefore
  <2> QED
    BY <2>2, <2>3
<1>10. Prepared(rest, h, more)
  <2>1. ASSUME NEW p \in 1 .. n - 1, rest[p].do = "activate"
        PROVE  /\ rest[p].entry.lifetime = "singleton" =>
                    Services!Root \in more \/ LockedBefore(rest, p, Services!Root)
               /\ rest[p].entry.lifetime = "scoped" =>
                    \/ Services!Root \in more \/ LockedBefore(rest, p, Services!Root)
                    \/ h \in more \/ LockedBefore(rest, p, h)
    <3> DEFINE q == p + 1
    <3>1. q \in 1 .. n /\ rest[p] = todo[q]
      BY <1>7
    <3>2. \A m : LockedBefore(todo, q, m) => m \in more \/ LockedBefore(rest, p, m)
      BY <1>9
    <3> HIDE DEF q
    <3> QED
      BY <1>1, <2>1, <3>1, <3>2 DEF Prepared, n
  <2> QED
    BY <1>5, <2>1 DEF Prepared
<1>11. g \in FrameOf(b)
  BY <1>1, <1>2, <1>5 DEF FrameOf, S
<1>12. f.entry # Services!NoEntry =>
         /\ Serves(h, f.entry.lifetime) /\ Suffices(f.entry.lifetime, h, more)
         /\ \A p \in 1 .. n - 1 : rest[p].do = "activate" =>
              Asks(b, f.entry.service, rest[p].entry.service)
  <2> SUFFICES ASSUME f.entry # Services!NoEntry
               PROVE  /\ Serves(h, f.entry.lifetime) /\ Suffices(f.entry.lifetime, h, more)
                      /\ \A p \in 1 .. n - 1 : rest[p].do = "activate" =>
                           Asks(b, f.entry.service, rest[p].entry.service)
    OBVIOUS
  <2>1. Serves(h, f.entry.lifetime) /\ Suffices(f.entry.lifetime, h, locks)
        /\ \A p \in 1 .. n : todo[p].do = "activate" =>
             Asks(b, f.entry.service, todo[p].entry.service)
    BY DEF FrameSound, todo, n
  <2>2. Suffices(f.entry.lifetime, h, more)
    BY <2>1 DEF Suffices
  <2> QED
    BY <1>7, <2>1, <2>2
<1>13. FrameSound(b, h, more, g)
  BY <1>3, <1>5, <1>8, <1>10, <1>11, <1>12 DEF FrameSound
<1> QED
  BY <1>3, <1>4, <1>5, <1>6, <1>13 DEF g, rest, n, todo

(* The innermost frame with its next job done *)
Advanced(frames) ==
  Append(Services!Front(frames), [Services!Last(frames) EXCEPT !.todo = Tail(@)])

LEMMA FramesGoOn ==
  ASSUME NEW b, NEW h, NEW locks, NEW more, locks \subseteq more, NEW frames,
         FramesSound(b, h, locks, frames), Services!Last(frames).todo # <<>>,
         Head(Services!Last(frames).todo).do = "lock" =>
           Head(Services!Last(frames).todo).mutex \in more
  PROVE  LET n == Len(frames)  done == Advanced(frames)
         IN /\ FramesSound(b, h, more, done)
            /\ n \in Nat /\ n >= 1 /\ Len(done) = n /\ Services!Last(frames) = frames[n]
            /\ \A j \in 1 .. n - 1 : done[j] = frames[j]
            /\ \A j \in 1 .. n : done[j].entry = frames[j].entry
            /\ done[n].todo = Tail(frames[n].todo)
<1> DEFINE n == Len(frames)  f == frames[n]  g == [f EXCEPT !.todo = Tail(@)]
           done == Append(Services!Front(frames), g)  S == FrameOf(b)
<1>1. frames \in Seq(S) /\ frames # <<>> /\ Linked(b, frames)
      /\ \A j \in 1 .. n : FrameSound(b, h, locks, frames[j])
  BY DEF FramesSound
<1>2. Services!Last(frames) = f /\ Advanced(frames) = done
  BY DEF Services!Last, Advanced
<1>3. n \in Nat /\ n \in 1 .. n
  <2>1. n \in Nat \ {0}
    BY <1>1, EmptySeq
  <2> QED
    BY <2>1
<1> HIDE DEF n
<1>4. FrameSound(b, h, locks, f) /\ f.todo # <<>>
      /\ (Head(f.todo).do = "lock" => Head(f.todo).mutex \in more)
  BY <1>1, <1>2, <1>3
<1>5. FrameSound(b, h, more, g) /\ g.entry = f.entry /\ g.todo = Tail(f.todo)
  <2> HIDE DEF f
  <2> QED
    BY <1>4, FrameGoesOn
<1>6. g \in S
  BY <1>5 DEF FrameSound
<1> HIDE DEF g, S
<1>7. /\ done \in Seq(S) /\ Len(done) = n /\ done[n] = g
      /\ \A j \in 1 .. n - 1 : done[j] = frames[j]
  BY <1>1, <1>6, LastReplaced DEF n
<1> HIDE DEF done
<1>8. ASSUME NEW j \in 1 .. n
      PROVE  FrameSound(b, h, more, done[j]) /\ done[j].entry = frames[j].entry
  <2>1. CASE j = n
    BY <1>5, <1>7, <2>1
  <2>2. CASE j # n
    <3>1. j \in 1 .. n - 1
      BY <1>3, <2>2
    <3>2. done[j] = frames[j] /\ FrameSound(b, h, locks, frames[j])
      BY <1>1, <1>7, <3>1
    <3> QED
      BY <3>2, FrameKeeps
  <2> QED
    BY <2>1, <2>2
<1>9. Linked(b, done)
  <2>1. \A j \in 1 .. n : done[j].entry = Services!NoEntry <=> j = 1
    BY <1>1, <1>8 DEF Linked, n
  <2>2. ASSUME NEW j \in 2 .. n - 1
        PROVE  Asks(b, done[j].entry.service, done[j + 1].entry.service)
    <3> DEFINE k == j + 1
    <3>1. j \in 1 .. n /\ k \in 1 .. n
      BY <1>3
    <3>2. Asks(b, frames[j].entry.service, frames[k].entry.service)
      BY <1>1 DEF Linked, n
    <3> HIDE DEF k
    <3>3. Asks(b, done[j].entry.service, done[k].entry.service)
      BY <1>8, <3>1, <3>2
    <3> QED
      BY <3>3 DEF k
  <2>3. ASSUME NEW i \in 2 .. n, NEW j \in 2 .. n,
               done[i].entry.service = done[j].entry.service
        PROVE  i = j
    <3>1. i \in 1 .. n /\ j \in 1 .. n
      BY <1>3
    <3>2. frames[i].entry.service = frames[j].entry.service
      BY <1>8, <2>3, <3>1
    <3> QED
      BY <1>1, <3>2 DEF Linked, n
  <2> QED
    BY <1>7, <2>1, <2>2, <2>3 DEF Linked
<1>10. done # <<>>
  BY <1>3, <1>7, EmptySeq
<1>11. FramesSound(b, h, more, done)
  BY <1>7, <1>8, <1>9, <1>10 DEF FramesSound, S
<1>12. n >= 1
  BY <1>3
<1> QED
  BY <1>2, <1>3, <1>5, <1>7, <1>8, <1>11, <1>12 DEF n

(* The frame of an instance is put on top of the frame that asked for it.   *)
LEMMA FramesGrow ==
  ASSUME NEW b, NEW h, NEW locks, NEW frames, FramesSound(b, h, locks, frames),
         NEW g, FrameSound(b, h, locks, g), g.entry # Services!NoEntry,
         Len(frames) > 1 => Asks(b, frames[Len(frames)].entry.service, g.entry.service),
         \A j \in 2 .. Len(frames) : frames[j].entry.service # g.entry.service
  PROVE  LET n == Len(frames)  more == Append(frames, g)
         IN /\ FramesSound(b, h, locks, more)
            /\ Len(more) = n + 1 /\ more[n + 1] = g
            /\ \A j \in 1 .. n : more[j] = frames[j]
<1> DEFINE n == Len(frames)  more == Append(frames, g)  S == FrameOf(b)
<1>1. frames \in Seq(S) /\ frames # <<>> /\ Linked(b, frames) /\ g \in S
      /\ \A j \in 1 .. n : FrameSound(b, h, locks, frames[j])
  BY DEF FramesSound, FrameSound
<1>2. n \in Nat /\ n \in 1 .. n
  <2>1. n \in Nat \ {0}
    BY <1>1, EmptySeq
  <2> QED
    BY <2>1
<1> HIDE DEF S, n
<1>3. /\ more \in Seq(S) /\ more # <<>> /\ Len(more) = n + 1 /\ more[n + 1] = g
      /\ \A j \in 1 .. n : more[j] = frames[j]
  BY <1>1, AppendProperties DEF n
<1> HIDE DEF more
<1>4. \A j \in 1 .. n + 1 : j \in 1 .. n \/ j = n + 1
  BY <1>2
<1>5. \A j \in 1 .. n + 1 : FrameSound(b, h, locks, more[j])
  BY <1>1, <1>3, <1>4
<1>6. Linked(b, more)
  <2>1. \A j \in 1 .. n + 1 : more[j].entry = Services!NoEntry <=> j = 1
    <3>1. \A j \in 1 .. n : more[j].entry = Services!NoEntry <=> j = 1
      BY <1>1, <1>3 DEF Linked, n
    <3>2. n + 1 # 1
      BY <1>2
    <3> QED
      BY <1>3, <1>4, <3>1, <3>2
  <2>2. ASSUME NEW j \in 2 .. n
        PROVE  Asks(b, more[j].entry.service, more[j + 1].entry.service)
    <3>1. CASE j = n
      <4>1. Asks(b, frames[n].entry.service, g.entry.service)
        BY <1>2, <3>1 DEF n
      <4> QED
        BY <1>2, <1>3, <3>1, <4>1
    <3>2. CASE j # n
      <4> DEFINE k == j + 1
      <4>1. j \in 2 .. n - 1 /\ j \in 1 .. n /\ k \in 1 .. n
        BY <1>2, <3>2
      <4>2. Asks(b, frames[j].entry.service, frames[k].entry.service)
        BY <1>1, <4>1 DEF Linked, n
      <4> HIDE DEF k
      <4>3. Asks(b, more[j].entry.service, more[k].entry.service)
        BY <1>3, <4>1, <4>2
      <4> QED
        BY <4>3 DEF k
    <3> QED
      BY <3>1, <3>2
  <2>3. ASSUME NEW i \in 2 .. n + 1, NEW j \in 2 .. n + 1,
               more[i].entry.service = more[j].entry.service
        PROVE  i = j
    <3>1. ASSUME NEW k \in 2 .. n + 1, k # n + 1
          PROVE  k \in 2 .. n /\ more[k] = frames[k]
      <4>1. k \in 2 .. n /\ k \in 1 .. n
        BY <1>2, <3>1
      <4> QED
        BY <1>3, <4>1
    <3> QED
      BY <1>1, <1>3, <2>3, <3>1 DEF Linked, n
  <2>4. 2 .. Len(more) - 1 = 2 .. n /\ 1 .. Len(more) = 1 .. n + 1
        /\ 2 .. Len(more) = 2 .. n + 1
    BY <1>2, <1>3
  <2> QED
    BY <2>1, <2>2, <2>3, <2>4 DEF Linked
<1>7. FramesSound(b, h, locks, more)
  BY <1>3, <1>5, <1>6 DEF FramesSound, S
<1> QED
  BY <1>3, <1>7 DEF more, n

(* The innermost frame is taken away. *)
LEMMA FramesShrink ==
  ASSUME NEW b, NEW h, NEW locks, NEW frames, FramesSound(b, h, locks, frames),
         Services!Last(frames).entry # Services!NoEntry
  PROVE  LET n == Len(frames)  less == Services!Front(frames)
         IN /\ FramesSound(b, h, locks, less)
            /\ n \in Nat /\ n >= 2 /\ Len(less) = n - 1 /\ Services!Last(frames) = frames[n]
            /\ \A j \in 1 .. n - 1 : less[j] = frames[j]
<1> DEFINE n == Len(frames)  less == Services!Front(frames)  S == FrameOf(b)
<1>1. frames \in Seq(S) /\ frames # <<>> /\ Linked(b, frames)
      /\ \A j \in 1 .. n : FrameSound(b, h, locks, frames[j])
  BY DEF FramesSound
<1>2. n \in Nat /\ n \in 1 .. n
  <2>1. n \in Nat \ {0}
    BY <1>1, EmptySeq
  <2> QED
    BY <2>1
<1>3. Services!Last(frames) = frames[n]
  BY DEF Services!Last
<1>4. n # 1
  BY <1>1, <1>2, <1>3 DEF Linked
<1> HIDE DEF S, n
<1>5. n >= 2
  BY <1>2, <1>4
<1>6. /\ less \in Seq(S) /\ Len(less) = n - 1
      /\ \A j \in 1 .. n - 1 : less[j] = frames[j]
  <2>1. PICK x : x \in S
    <3>1. frames[n] \in S
      BY <1>1, <1>2, ElementOfSeq DEF n
    <3> QED
      BY <3>1
  <2> QED
    BY <1>1, <2>1, LastReplaced DEF n
<1> HIDE DEF less
<1>7. \A j \in 1 .. n - 1 : j \in 1 .. n
  BY <1>2
<1>8. \A j \in 1 .. n - 1 : FrameSound(b, h, locks, less[j])
  BY <1>1, <1>6, <1>7 DEF n
<1>9. Linked(b, less)
  <2>1. \A j \in 1 .. n - 1 : less[j].entry = Services!NoEntry <=> j = 1
    BY <1>1, <1>6, <1>7 DEF Linked, n
  <2>2. ASSUME NEW j \in 2 .. n - 1 - 1
        PROVE  Asks(b, less[j].entry.service, less[j + 1].entry.service)
    <3> DEFINE k == j + 1
    <3>1. j \in 2 .. n - 1 /\ j \in 1 .. n - 1 /\ k \in 1 .. n - 1
      BY <1>2
    <3>2. Asks(b, frames[j].entry.service, frames[k].entry.service)
      BY <1>1, <3>1 DEF Linked, n
    <3> HIDE DEF k
    <3>3. Asks(b, less[j].entry.service, less[k].entry.service)
      BY <1>6, <3>1, <3>2
    <3> QED
      BY <3>3 DEF k
  <2>3. ASSUME NEW i \in 2 .. n - 1, NEW j \in 2 .. n - 1,
               less[i].entry.service = less[j].entry.service
        PROVE  i = j
    <3>1. i \in 2 .. n /\ j \in 2 .. n /\ less[i] = frames[i] /\ less[j] = frames[j]
      BY <1>2, <1>6
    <3> QED
      BY <1>1, <2>3, <3>1 DEF Linked, n
  <2> QED
    BY <1>6, <2>1, <2>2, <2>3 DEF Linked
<1>10. less # <<>>
  <2>1. Len(less) # 0
    BY <1>2, <1>5, <1>6
  <2> QED
    BY <2>1, EmptySeq
<1>11. FramesSound(b, h, locks, less)
  BY <1>6, <1>8, <1>9, <1>10 DEF FramesSound, S
<1> QED
  BY <1>2, <1>3, <1>5, <1>6, <1>11 DEF less, n

(* A new context *)
LEMMA FirstFrame ==
  ASSUME NEW b, NEW h, NEW todo, JobsFit(b, h, todo), Prepared(todo, h, {})
  PROVE  FramesSound(b, h, {}, <<Services!Frame(Services!NoEntry, todo)>>)
<1> DEFINE f == Services!Frame(Services!NoEntry, todo)  S == FrameOf(b)
<1>1. f = [entry |-> Services!NoEntry, todo |-> todo]
  BY DEF Services!Frame
<1>2. f.entry = Services!NoEntry /\ f.todo = todo
  BY <1>1
<1> HIDE DEF f
<1>3. f \in S
  BY <1>1 DEF FrameOf, JobsFit
<1>4. FrameSound(b, h, {}, f)
  BY <1>2, <1>3 DEF FrameSound
<1> HIDE DEF S
<1> DEFINE frames == <<f>>
<1>5. frames \in Seq(S) /\ frames # <<>> /\ Len(frames) = 1 /\ frames[1] = f
  BY <1>3
<1> HIDE DEF frames
<1>6. \A j \in 1 .. Len(frames) : j = 1
  BY <1>5
<1>7. 2 .. Len(frames) = {} /\ 2 .. Len(frames) - 1 = {}
  BY <1>5
<1>8. Linked(b, frames)
  BY <1>2, <1>5, <1>6, <1>7 DEF Linked
<1>9. FramesSound(b, h, {}, frames)
  BY <1>4, <1>5, <1>6, <1>8 DEF FramesSound, S
<1> QED
  BY <1>9 DEF frames, f

-----------------------------------------------------------------------------
(* Services: what a factory asked for will be there. *)

Created(b, sets, h, x) == sets[Services!InstanceSetOf(h, x)][IndexOf(b, x)].made > 0

(* A frame has yet to activate an instance, or is waiting for it. *)
Activates(todo, x) == \E p \in 1 .. Len(todo) : todo[p] = Services!Activate(x)
Delegates(todo, x) ==
  \E p \in 1 .. Len(todo) : todo[p] = Services!Open(x, TRUE) \/ todo[p] = Services!Throw
Pending(frames, j, x) ==
  \/ Activates(frames[j].todo, x)
  \/ j < Len(frames) /\ frames[j + 1].entry = x
FrameAwaits(s, k, j, x) ==
  \/ Pending(s[k].frames, j, x)
  \/ Delegates(s[k].frames[j].todo, x)
  \/ /\ j = Len(s[k].frames) /\ k < Len(s)
     /\ s[k + 1].via = s[k].via /\ Pending(s[k + 1].frames, 1, x)
StackAwaits(b, sets, s) ==
  \A k \in 1 .. Len(s) : \A j \in 2 .. Len(s[k].frames) :
    \A x \in Prerequisites(b, s[k].via, s[k].frames[j].entry) :
      Created(b, sets, s[k].via, x) \/ FrameAwaits(s, k, j, x)

(* What is there stays. *)
Remains(b, providers, sets, more) ==
  \A h \in providers : \A x \in Entry(b) :
    x.lifetime # "transient" /\ Serves(h, x.lifetime) /\ Created(b, sets, h, x) =>
      Created(b, more, h, x)

LEMMA PrerequisitesAre ==
  ASSUME NEW b, AreBindings(b), NEW h, NEW e, NEW x \in Prerequisites(b, h, e)
  PROVE  x \in Entry(b) /\ x.lifetime # "transient" /\ Serves(h, x.lifetime)
<1>1. PICK l \in {"singleton", "scoped"} :
        /\ Serves(h, l) /\ \E s : x = LastEntry(b, l, s)
  BY DEF Prerequisites
<1>2. x.lifetime = l
  BY <1>1 DEF LastEntry
<1> QED
  BY <1>1, <1>2 DEF Prerequisites

LEMMA StackGoesOn ==
  ASSUME NEW b, AreBindings(b), NEW providers, NEW sets, NEW more,
         Remains(b, providers, sets, more),
         NEW s, Len(s) \in Nat, Len(s) >= 1, NEW r, Len(r) \in {Len(s), Len(s) + 1},
         \A k \in 1 .. Len(s) - 1 : r[k] = s[k],
         r[Len(s)].via = s[Len(s)].via,
         \A k \in 1 .. Len(s) : s[k].via \in providers,
         Len(r) = Len(s) + 1 => Len(r[Len(s) + 1].frames) = 1,
         StackAwaits(b, sets, s),
         \A x \in Entry(b) :
           x.lifetime # "transient" /\ Serves(s[Len(s)].via, x.lifetime) =>
             (Pending(s[Len(s)].frames, 1, x) =>
                \/ Created(b, more, s[Len(s)].via, x)
                \/ Pending(r[Len(s)].frames, 1, x)),
         \A j \in 2 .. Len(r[Len(s)].frames) :
           \A x \in Prerequisites(b, s[Len(s)].via, r[Len(s)].frames[j].entry) :
             Created(b, more, s[Len(s)].via, x) \/ FrameAwaits(r, Len(s), j, x)
  PROVE  StackAwaits(b, more, r)
<1> DEFINE n == Len(s)  h == s[n].via
<1>1. SUFFICES ASSUME NEW k \in 1 .. Len(r), NEW j \in 2 .. Len(r[k].frames),
                      NEW x \in Prerequisites(b, r[k].via, r[k].frames[j].entry)
               PROVE  Created(b, more, r[k].via, x) \/ FrameAwaits(r, k, j, x)
  BY DEF StackAwaits
<1>2. x \in Entry(b) /\ x.lifetime # "transient" /\ Serves(r[k].via, x.lifetime)
  BY PrerequisitesAre
<1>3. CASE k = n
  BY <1>3
<1>4. CASE k = n + 1
  <2>1. Len(r[k].frames) = 1
    BY <1>4
  <2>2. \A i \in 2 .. 1 : FALSE
    OBVIOUS
  <2> QED
    BY <2>1, <2>2
<1>5. CASE k \in 1 .. n - 1
  <2>1. r[k] = s[k] /\ k \in 1 .. n
    BY <1>5
  <2>2. Created(b, sets, s[k].via, x) \/ FrameAwaits(s, k, j, x)
    BY <2>1 DEF StackAwaits
  <2>3. CASE Created(b, sets, s[k].via, x)
    BY <1>2, <2>1, <2>3 DEF Remains
  <2>4. CASE Pending(s[k].frames, j, x) \/ Delegates(s[k].frames[j].todo, x)
    BY <2>1, <2>4 DEF FrameAwaits
  <2>5. CASE /\ j = Len(s[k].frames) /\ k < Len(s)
             /\ s[k + 1].via = s[k].via /\ Pending(s[k + 1].frames, 1, x)
    <3> DEFINE i == k + 1
    <3>1. i \in 1 .. n /\ k < Len(r)
      BY <1>5
    <3>2. CASE i = n
      <4>1. \/ Created(b, more, h, x) \/ Pending(r[n].frames, 1, x)
        BY <1>2, <2>1, <2>5, <3>2
      <4> HIDE DEF i
      <4>2. s[i].via = s[k].via /\ r[i].via = s[i].via
        BY <2>5, <3>2 DEF i
      <4>3. CASE Created(b, more, h, x)
        BY <2>1, <3>2, <4>2, <4>3
      <4>4. CASE Pending(r[n].frames, 1, x)
        <5>1. /\ j = Len(r[k].frames) /\ k < Len(r)
              /\ r[i].via = r[k].via /\ Pending(r[i].frames, 1, x)
          BY <2>1, <2>5, <3>1, <3>2, <4>2, <4>4
        <5> QED
          BY <5>1 DEF FrameAwaits, i
      <4> QED
        BY <4>1, <4>3, <4>4
    <3>3. CASE i # n
      <4>1. i \in 1 .. n - 1
        BY <3>1, <3>3
      <4>2. r[i] = s[i]
        BY <4>1
      <4>3. s[i].via = s[k].via /\ Pending(s[i].frames, 1, x)
        BY <2>5
      <4> HIDE DEF i
      <4>4. /\ j = Len(r[k].frames) /\ k < Len(r)
            /\ r[i].via = r[k].via /\ Pending(r[i].frames, 1, x)
        BY <2>1, <2>5, <3>1, <4>2, <4>3
      <4> QED
        BY <4>4 DEF FrameAwaits, i
    <3> QED
      BY <3>2, <3>3
  <2> QED
    BY <2>2, <2>3, <2>4, <2>5 DEF FrameAwaits
<1> QED
  BY <1>3, <1>4, <1>5

(* What a job that is done leaves of the frames, whatever it locked *)
LEMMA AdvancedIs ==
  ASSUME NEW b, NEW h, NEW locks, NEW frames, FramesSound(b, h, locks, frames),
         Services!Last(frames).todo # <<>>
  PROVE  /\ Len(frames) \in Nat /\ Len(frames) >= 1
         /\ Len(Advanced(frames)) = Len(frames)
         /\ Services!Last(frames) = frames[Len(frames)]
         /\ \A i \in 1 .. Len(frames) - 1 : Advanced(frames)[i] = frames[i]
         /\ \A i \in 1 .. Len(frames) : Advanced(frames)[i].entry = frames[i].entry
         /\ Advanced(frames)[Len(frames)].todo = Tail(frames[Len(frames)].todo)
         /\ Advanced(frames) \in Seq(FrameOf(b))
<1>1. PICK m : m = Head(Services!Last(frames).todo).mutex
  OBVIOUS
<1>2. PICK more : more = locks \cup {m}
  OBVIOUS
<1>3. locks \subseteq more /\ m \in more
  BY <1>2
<1>4. Head(Services!Last(frames).todo).do = "lock" =>
        Head(Services!Last(frames).todo).mutex \in more
  BY <1>1, <1>3
<1>5. LET n == Len(frames)  done == Advanced(frames)
      IN /\ FramesSound(b, h, more, done)
         /\ n \in Nat /\ n >= 1 /\ Len(done) = n /\ Services!Last(frames) = frames[n]
         /\ \A j \in 1 .. n - 1 : done[j] = frames[j]
         /\ \A j \in 1 .. n : done[j].entry = frames[j].entry
         /\ done[n].todo = Tail(frames[n].todo)
  BY <1>3, <1>4, FramesGoOn
<1>6. Advanced(frames) \in Seq(FrameOf(b))
  BY <1>5 DEF FramesSound
<1> QED
  BY <1>5, <1>6

(* What is pending stays so, until its job is done. *)
LEMMA PendingGoesOn ==
  ASSUME NEW b, NEW h, NEW locks, NEW frames, FramesSound(b, h, locks, frames),
         Services!Last(frames).todo # <<>>, NEW j \in 1 .. Len(frames), NEW x
  PROVE  LET job == Head(Services!Last(frames).todo)  done == Advanced(frames)
         IN /\ Pending(frames, j, x) =>
                 \/ Pending(done, j, x)
                 \/ j = Len(frames) /\ job = Services!Activate(x)
            /\ Delegates(frames[j].todo, x) =>
                 \/ Delegates(done[j].todo, x)
                 \/ /\ j = Len(frames)
                    /\ job = Services!Open(x, TRUE) \/ job = Services!Throw
<1> DEFINE n == Len(frames)  done == Advanced(frames)  f == frames[n]
           todo == f.todo  rest == Tail(todo)
           job == Head(todo)  m == Len(todo)
<1>1. Services!Last(frames) = f
  BY DEF Services!Last
<1>2. /\ n \in Nat /\ n >= 1 /\ Len(done) = n
      /\ \A i \in 1 .. n - 1 : done[i] = frames[i]
      /\ \A i \in 1 .. n : done[i].entry = frames[i].entry
      /\ done[n].todo = rest
  BY AdvancedIs
<1>3. /\ m \in Nat /\ m >= 1 /\ job = todo[1] /\ Len(rest) = m - 1
      /\ \A p \in 1 .. Len(rest) : rest[p] = todo[p + 1]
  <2>1. n \in 1 .. n
    BY <1>2
  <2>2. todo \in Seq(JobOf(b)) /\ todo # <<>>
    BY <1>1, <2>1 DEF FramesSound, FrameSound, JobsFit
  <2>3. /\ Len(rest) = m - 1 /\ \A p \in 1 .. Len(rest) : rest[p] = todo[p + 1]
        /\ m \in Nat \ {0}
    <3> HIDE DEF todo
    <3> QED
      BY <2>2, HeadTailProperties, EmptySeq
  <2>4. job = todo[1]
    BY <2>2
  <2> HIDE DEF todo, rest, m
  <2> QED
    BY <2>3, <2>4
<1> HIDE DEF n, done, f, todo, rest, job, m
<1>4. ASSUME NEW p \in 1 .. m
      PROVE  todo[p] = job \/ \E q \in 1 .. Len(rest) : rest[q] = todo[p]
  <2>1. CASE p = 1
    BY <1>3, <2>1
  <2>2. CASE p # 1
    <3> DEFINE q == p - 1
    <3>1. q \in 1 .. Len(rest) /\ q + 1 = p
      BY <1>3, <2>2
    <3> HIDE DEF q
    <3>2. rest[q] = todo[p]
      BY <1>3, <3>1
    <3> QED
      BY <3>1, <3>2
  <2> QED
    BY <2>1, <2>2
<1>5. CASE j = n
  <2>1. frames[j].todo = todo /\ done[j].todo = rest /\ ~(j < Len(frames))
    BY <1>2, <1>5 DEF todo, f, n
  <2>2. Activates(todo, x) => Activates(rest, x) \/ job = Services!Activate(x)
    BY <1>4 DEF Activates, m
  <2>3. Delegates(todo, x) =>
          \/ Delegates(rest, x)
          \/ job = Services!Open(x, TRUE) \/ job = Services!Throw
    BY <1>4 DEF Delegates, m
  <2>4. Pending(frames, j, x) => Activates(todo, x)
    BY <2>1 DEF Pending
  <2>5. Activates(rest, x) => Pending(done, j, x)
    BY <2>1 DEF Pending
  <2>6. Head(Services!Last(frames).todo) = job
    BY <1>1 DEF job, todo
  <2> QED
    BY <1>5, <2>1, <2>2, <2>3, <2>4, <2>5, <2>6 DEF done, n
<1>6. CASE j # n
  <2>1. j \in 1 .. n - 1 /\ j + 1 \in 1 .. n
    BY <1>2, <1>6 DEF n
  <2>2. done[j] = frames[j] /\ done[j + 1].entry = frames[j + 1].entry
    BY <1>2, <2>1
  <2>3. Pending(frames, j, x) => Pending(done, j, x)
    BY <1>2, <2>2 DEF Pending, n
  <2> QED
    BY <2>2, <2>3 DEF done
<1> QED
  BY <1>5, <1>6

(* Another frame is put on top. *)
LEMMA PendingGrows ==
  ASSUME NEW frames, NEW more, Len(frames) \in Nat, Len(more) = Len(frames) + 1,
         \A i \in 1 .. Len(frames) : more[i] = frames[i],
         NEW j \in 1 .. Len(frames), NEW x
  PROVE  /\ Pending(frames, j, x) => Pending(more, j, x)
         /\ j = Len(frames) /\ more[j + 1].entry = x => Pending(more, j, x)
<1>1. j < Len(more)
  OBVIOUS
<1>2. more[j] = frames[j]
  OBVIOUS
<1>3. j < Len(frames) => more[j + 1] = frames[j + 1]
  OBVIOUS
<1> QED
  BY <1>1, <1>2, <1>3 DEF Pending

(* An instance is there when its frame is taken away. *)
LEMMA PendingShrinks ==
  ASSUME NEW frames, NEW less, Len(frames) \in Nat, Len(less) = Len(frames) - 1,
         \A i \in 1 .. Len(frames) - 1 : less[i] = frames[i],
         NEW j \in 1 .. Len(frames) - 1, NEW x
  PROVE  Pending(frames, j, x) => Pending(less, j, x) \/ frames[Len(frames)].entry = x
<1>1. less[j] = frames[j]
  OBVIOUS
<1>2. j < Len(frames)
  OBVIOUS
<1>3. CASE j = Len(frames) - 1
  <2>1. j + 1 = Len(frames)
    BY <1>3
  <2> QED
    BY <1>1, <2>1 DEF Pending
<1>4. CASE j # Len(frames) - 1
  <2>1. j < Len(less) /\ j + 1 \in 1 .. Len(frames) - 1
    BY <1>4
  <2>2. less[j + 1] = frames[j + 1]
    BY <2>1
  <2> QED
    BY <1>1, <2>1, <2>2 DEF Pending
<1> QED
  BY <1>3, <1>4

-----------------------------------------------------------------------------
(* Services: what the steps of a thread do to its stack of contexts. *)

StackSound(b, providers, s) ==
  \A k \in 1 .. Len(s) : ContextSound(b, providers, s[k])

(* Something that is asked for is there, or a new context is to make it.    *)
Given(b, sets, s, r, x) ==
  \/ Created(b, sets, s[Len(s)].via, x)
  \/ /\ Len(r) = Len(s) + 1 /\ r[Len(s) + 1].via = s[Len(s)].via
     /\ Pending(r[Len(s) + 1].frames, 1, x)

(* What a job is to bring about is given, and the frame has no other left.  *)
JobGiven(b, sets, s, r, job) ==
  /\ job # Services!Throw
  /\ \A x \in Entry(b) : x.lifetime # "transient" /\ Serves(s[Len(s)].via, x.lifetime) =>
       /\ job = Services!Activate(x) => Created(b, sets, s[Len(s)].via, x)
       /\ job = Services!Open(x, TRUE) => Given(b, sets, s, r, x)
JobGone(s, r, job) ==
  /\ Services!Last(s[Len(s)].frames).todo # <<>>
  /\ job = Head(Services!Last(s[Len(s)].frames).todo)
  /\ Len(r) \in {Len(s), Len(s) + 1}
  /\ \A k \in 1 .. Len(s) - 1 : r[k] = s[k]
  /\ r[Len(s)].via = s[Len(s)].via /\ r[Len(s)].frames = Advanced(s[Len(s)].frames)
  /\ Len(r) = Len(s) + 1 => Len(r[Len(s) + 1].frames) = 1

(* The next job of the innermost frame is done. *)
LEMMA JobIsDone ==
  ASSUME NEW b, AreBindings(b), NEW providers, NEW sets,
         NEW s, Len(s) \in Nat, Len(s) >= 1,
         StackSound(b, providers, s), StackAwaits(b, sets, s),
         NEW job, NEW r, JobGone(s, r, job), JobGiven(b, sets, s, r, job)
  PROVE  StackAwaits(b, sets, r)
<1> USE DEF JobGone
<1> DEFINE n == Len(s)  h == s[n].via  fs == s[n].frames  done == Advanced(fs)
           m == Len(fs)
<1>1. n \in 1 .. n /\ n \in Nat
  OBVIOUS
<1>2. FramesSound(b, h, s[n].locks, fs) /\ h \in providers
  BY <1>1 DEF StackSound, ContextSound
<1>3. /\ m \in Nat /\ m >= 1 /\ Len(done) = m /\ 1 \in 1 .. m
      /\ \A i \in 1 .. m : done[i].entry = fs[i].entry
  <2> HIDE DEF fs, h
  <2>1. Services!Last(fs).todo # <<>>
    BY DEF fs
  <2> QED
    BY <1>2, <2>1, AdvancedIs
<1>4. \A j \in 1 .. m : \A x :
        /\ Pending(fs, j, x) =>
             Pending(done, j, x) \/ job = Services!Activate(x)
        /\ Delegates(fs[j].todo, x) =>
             \/ Delegates(done[j].todo, x)
             \/ j = m /\ job = Services!Open(x, TRUE)
  <2>1. SUFFICES ASSUME NEW j \in 1 .. m, NEW x
                 PROVE  /\ Pending(fs, j, x) =>
                             Pending(done, j, x) \/ job = Services!Activate(x)
                        /\ Delegates(fs[j].todo, x) =>
                             \/ Delegates(done[j].todo, x)
                             \/ j = m /\ job = Services!Open(x, TRUE)
    OBVIOUS
  <2>2. job = Head(Services!Last(fs).todo) /\ Services!Last(fs).todo # <<>>
    OBVIOUS
  <2> HIDE DEF fs, h
  <2>3. /\ Pending(fs, j, x) =>
             \/ Pending(Advanced(fs), j, x)
             \/ j = Len(fs) /\ Head(Services!Last(fs).todo) = Services!Activate(x)
        /\ Delegates(fs[j].todo, x) =>
             \/ Delegates(Advanced(fs)[j].todo, x)
             \/ /\ j = Len(fs)
                /\ \/ Head(Services!Last(fs).todo) = Services!Open(x, TRUE)
                   \/ Head(Services!Last(fs).todo) = Services!Throw
    BY <1>2, <2>2, PendingGoesOn
  <2> QED
    BY <2>2, <2>3 DEF JobGiven
<1>5. Remains(b, providers, sets, sets)
  BY DEF Remains
<1>6. \A k \in 1 .. n : s[k].via \in providers
  BY DEF StackSound, ContextSound
<1>7. ASSUME NEW x \in Entry(b), x.lifetime # "transient", Serves(h, x.lifetime),
             Pending(fs, 1, x)
      PROVE  Created(b, sets, h, x) \/ Pending(r[n].frames, 1, x)
  BY <1>3, <1>4, <1>7 DEF JobGiven
<1>8. ASSUME NEW j \in 2 .. Len(r[n].frames), NEW x \in Prerequisites(b, h, r[n].frames[j].entry)
      PROVE  Created(b, sets, h, x) \/ FrameAwaits(r, n, j, x)
  <2>1. j \in 1 .. m /\ j \in 2 .. m /\ r[n].frames = done /\ r[n].via = h
    BY <1>3
  <2>2. x \in Prerequisites(b, h, fs[j].entry)
    BY <1>3, <2>1
  <2>3. x \in Entry(b) /\ x.lifetime # "transient" /\ Serves(h, x.lifetime)
    BY <2>2, PrerequisitesAre
  <2>4. Created(b, sets, h, x) \/ FrameAwaits(s, n, j, x)
    BY <1>1, <2>1, <2>2 DEF StackAwaits
  <2>5. FrameAwaits(s, n, j, x) => Pending(fs, j, x) \/ Delegates(fs[j].todo, x)
    BY <1>1 DEF FrameAwaits
  <2>6. Pending(fs, j, x) => Created(b, sets, h, x) \/ Pending(r[n].frames, j, x)
    BY <1>4, <2>1, <2>3 DEF JobGiven
  <2>7. ASSUME Delegates(fs[j].todo, x)
        PROVE  Created(b, sets, h, x) \/ FrameAwaits(r, n, j, x)
    <3>1. CASE Delegates(done[j].todo, x)
      BY <2>1, <3>1 DEF FrameAwaits
    <3>2. CASE j = m /\ job = Services!Open(x, TRUE)
      <4>1. Given(b, sets, s, r, x)
        BY <2>3, <3>2 DEF JobGiven
      <4>2. n < Len(r) <=> Len(r) = n + 1
        BY <1>1
      <4>3. j = Len(r[n].frames)
        BY <1>3, <2>1, <3>2
      <4> QED
        BY <2>1, <4>1, <4>2, <4>3 DEF Given, FrameAwaits
    <3> QED
      BY <1>4, <2>1, <2>7, <3>1, <3>2
  <2> QED
    BY <2>4, <2>5, <2>6, <2>7 DEF FrameAwaits
<1> QED
  BY <1>1, <1>5, <1>6, <1>7, <1>8, StackGoesOn

(* The kinds of jobs are different. *)
LEMMA JobsDiffer ==
  ASSUME NEW job
  PROVE  /\ job.do = "open" =>
              job # Services!Throw /\ \A x : job # Services!Activate(x)
         /\ job.do = "activate" =>
              job # Services!Throw /\ \A x : job # Services!Open(x, TRUE)
         /\ \A x : job = Services!Open(x, TRUE) => job.entry = x /\ job.peek = TRUE
         /\ \A x : job = Services!Activate(x) => job.entry = x
<1>1. Services!Throw.do = "throw"
  BY DEF Services!Throw
<1>2. ASSUME NEW x
      PROVE  /\ Services!Activate(x).do = "activate" /\ Services!Open(x, TRUE).do = "open"
             /\ Services!Activate(x).entry = x /\ Services!Open(x, TRUE).entry = x
             /\ Services!Open(x, TRUE).peek = TRUE
  BY DEF Services!Activate, Services!Open
<1> QED
  BY <1>1, <1>2

(* What a job that activates a service leaves pending *)
LEMMA ActivationLeaves ==
  ASSUME NEW b, NEW h, NEW locks, NEW frames, FramesSound(b, h, locks, frames),
         Services!Last(frames).todo # <<>>, NEW job, job = Head(Services!Last(frames).todo),
         NEW e, job.do = "activate", job.entry = e,
         NEW g, g.entry = e, NEW j \in 1 .. Len(frames), NEW x
  PROVE  LET more == Append(Advanced(frames), g)
         IN /\ Pending(frames, j, x) => Pending(more, j, x)
            /\ Delegates(frames[j].todo, x) => Delegates(more[j].todo, x)
<1> DEFINE done == Advanced(frames)  more == Append(done, g)  m == Len(frames)
<1>1. m \in Nat /\ Len(done) = m /\ done \in Seq(FrameOf(b))
  BY AdvancedIs
<1>2. done \in Seq(FrameOf(b) \cup {g})
  BY <1>1
<1>3. Len(more) = m + 1 /\ more[m + 1] = g /\ \A i \in 1 .. m : more[i] = done[i]
  <2> HIDE DEF done
  <2> QED
    BY <1>1, <1>2
<1>4. /\ Pending(frames, j, x) =>
           \/ Pending(Advanced(frames), j, x)
           \/ j = Len(frames) /\ Head(Services!Last(frames).todo) = Services!Activate(x)
      /\ Delegates(frames[j].todo, x) =>
           \/ Delegates(Advanced(frames)[j].todo, x)
           \/ /\ j = Len(frames)
              /\ \/ Head(Services!Last(frames).todo) = Services!Open(x, TRUE)
                 \/ Head(Services!Last(frames).todo) = Services!Throw
  BY PendingGoesOn
<1>5. /\ job # Services!Open(x, TRUE) /\ job # Services!Throw
      /\ job = Services!Activate(x) => x = e
  BY JobsDiffer
<1>6. /\ Pending(done, j, x) => Pending(more, j, x)
      /\ j = m /\ more[j + 1].entry = x => Pending(more, j, x)
  <2> HIDE DEF done, more
  <2> QED
    BY <1>1, <1>3, PendingGrows
<1>7. more[j] = done[j]
  BY <1>3
<1>8. j = m => more[j + 1].entry = e
  BY <1>3
<1> HIDE DEF done, more
<1> QED
  BY <1>4, <1>5, <1>6, <1>7, <1>8 DEF done, more

(* A factory is called: its frame is put on top. *)
FrameAdded(b, s, r, e, g) ==
  /\ g.entry = e
  /\ \A x \in Prerequisites(b, s[Len(s)].via, e) : Ensured(g.todo, x)
  /\ Len(r) = Len(s) /\ \A k \in 1 .. Len(s) - 1 : r[k] = s[k]
  /\ r[Len(s)].via = s[Len(s)].via
  /\ \A j \in 1 .. Len(s[Len(s)].frames) : \A x :
       /\ Pending(s[Len(s)].frames, j, x) => Pending(r[Len(s)].frames, j, x)
       /\ Delegates(s[Len(s)].frames[j].todo, x) => Delegates(r[Len(s)].frames[j].todo, x)
  /\ Len(r[Len(s)].frames) = Len(s[Len(s)].frames) + 1
  /\ r[Len(s)].frames[Len(r[Len(s)].frames)] = g
  /\ \A i \in 1 .. Len(s[Len(s)].frames) :
       r[Len(s)].frames[i].entry = s[Len(s)].frames[i].entry

LEMMA FactoryIsCalled ==
  ASSUME NEW b, AreBindings(b), NEW providers, NEW sets, NEW more,
         Remains(b, providers, sets, more), NEW s, Len(s) \in Nat, Len(s) >= 1,
         StackSound(b, providers, s), StackAwaits(b, sets, s),
         NEW e, NEW g, NEW r, FrameAdded(b, s, r, e, g)
  PROVE  StackAwaits(b, more, r)
<1> USE DEF FrameAdded
<1> DEFINE n == Len(s)  h == s[n].via  fs == s[n].frames  m == Len(fs)  new == r[n].frames
<1>1. n \in 1 .. n /\ n \in Nat
  OBVIOUS
<1>2. FramesSound(b, h, s[n].locks, fs) /\ h \in providers
  BY <1>1 DEF StackSound, ContextSound
<1>3. m \in Nat /\ 1 \in 1 .. m
  BY <1>2, EmptySeq DEF FramesSound
<1>4. ASSUME NEW j \in 1 .. m, NEW x
      PROVE  /\ Pending(fs, j, x) => Pending(new, j, x)
             /\ Delegates(fs[j].todo, x) => Delegates(new[j].todo, x)
  OBVIOUS
<1>5. \A k \in 1 .. n : s[k].via \in providers
  BY DEF StackSound, ContextSound
<1>6. ASSUME NEW j \in 2 .. Len(new), NEW x \in Prerequisites(b, h, new[j].entry)
      PROVE  Created(b, more, h, x) \/ FrameAwaits(r, n, j, x)
  <2>1. CASE j = Len(new)
    <3>1. new[j] = g /\ x \in Prerequisites(b, h, e)
      BY <2>1
    <3>2. Activates(g.todo, x) \/ Delegates(g.todo, x)
      BY <3>1 DEF Ensured, Ensures, Activates, Delegates
    <3> QED
      BY <3>1, <3>2 DEF FrameAwaits, Pending
  <2>2. CASE j # Len(new)
    <3>1. j \in 1 .. m /\ j \in 2 .. m
      BY <1>3, <2>2
    <3>2. x \in Prerequisites(b, h, fs[j].entry)
      BY <3>1
    <3>3. x \in Entry(b) /\ x.lifetime # "transient" /\ Serves(h, x.lifetime)
      BY <3>2, PrerequisitesAre
    <3>4. Created(b, sets, h, x) \/ FrameAwaits(s, n, j, x)
      BY <1>1, <3>1, <3>2 DEF StackAwaits
    <3>5. Created(b, sets, h, x) => Created(b, more, h, x)
      BY <1>2, <3>3 DEF Remains
    <3>6. FrameAwaits(s, n, j, x) => Pending(fs, j, x) \/ Delegates(fs[j].todo, x)
      BY <1>1 DEF FrameAwaits
    <3> QED
      BY <1>4, <3>1, <3>4, <3>5, <3>6 DEF FrameAwaits
  <2> QED
    BY <2>1, <2>2
<1>7. ASSUME NEW x \in Entry(b), x.lifetime # "transient", Pending(fs, 1, x)
      PROVE  Created(b, more, h, x) \/ Pending(new, 1, x)
  BY <1>3, <1>4, <1>7
<1>8. Len(r) = n + 1 => Len(r[n + 1].frames) = 1
  BY <1>1
<1> QED
  BY <1>1, <1>5, <1>6, <1>7, <1>8, StackGoesOn

(* A factory has returned: its frame is taken away. *)
FrameTaken(b, more, s, r, e) ==
  /\ e = Services!Last(s[Len(s)].frames).entry /\ e # Services!NoEntry
  /\ e.lifetime # "transient" => Created(b, more, s[Len(s)].via, e)
  /\ Len(r) = Len(s) /\ \A k \in 1 .. Len(s) - 1 : r[k] = s[k]
  /\ r[Len(s)].via = s[Len(s)].via
  /\ r[Len(s)].frames = Services!Front(s[Len(s)].frames)

LEMMA FactoryReturns ==
  ASSUME NEW b, AreBindings(b), NEW providers, NEW sets, NEW more,
         Remains(b, providers, sets, more), NEW s, Len(s) \in Nat, Len(s) >= 1,
         StackSound(b, providers, s), StackAwaits(b, sets, s),
         NEW e, NEW r, FrameTaken(b, more, s, r, e)
  PROVE  StackAwaits(b, more, r)
<1> USE DEF FrameTaken
<1> DEFINE n == Len(s)  h == s[n].via  fs == s[n].frames  m == Len(fs)  new == r[n].frames
<1>1. n \in 1 .. n /\ n \in Nat
  OBVIOUS
<1>2. FramesSound(b, h, s[n].locks, fs) /\ h \in providers
  BY <1>1 DEF StackSound, ContextSound
<1>3. /\ m \in Nat /\ m >= 2 /\ Len(new) = m - 1 /\ fs[m].entry = e
      /\ \A i \in 1 .. m - 1 : new[i] = fs[i]
  <2>1. Services!Last(fs).entry # Services!NoEntry /\ new = Services!Front(fs)
        /\ e = Services!Last(fs).entry
    OBVIOUS
  <2> HIDE DEF fs, h, new
  <2>2. LET k == Len(fs)  less == Services!Front(fs)
        IN /\ FramesSound(b, h, s[n].locks, less)
           /\ k \in Nat /\ k >= 2 /\ Len(less) = k - 1 /\ Services!Last(fs) = fs[k]
           /\ \A j \in 1 .. k - 1 : less[j] = fs[j]
    BY <1>2, <2>1, FramesShrink
  <2> QED
    BY <2>1, <2>2
<1>4. ASSUME NEW j \in 1 .. m - 1, NEW x, x.lifetime # "transient"
      PROVE  Pending(fs, j, x) => Pending(new, j, x) \/ Created(b, more, h, x)
  <2> HIDE DEF fs, h, new
  <2>1. Pending(fs, j, x) => Pending(new, j, x) \/ fs[m].entry = x
    BY <1>3, PendingShrinks
  <2> QED
    BY <1>3, <1>4, <2>1 DEF h
<1>5. \A k \in 1 .. n : s[k].via \in providers
  BY DEF StackSound, ContextSound
<1>6. ASSUME NEW j \in 2 .. Len(new), NEW x \in Prerequisites(b, h, new[j].entry)
      PROVE  Created(b, more, h, x) \/ FrameAwaits(r, n, j, x)
  <2>1. j \in 1 .. m - 1 /\ j \in 2 .. m /\ new[j] = fs[j]
    BY <1>3
  <2>3. x \in Entry(b) /\ x.lifetime # "transient" /\ Serves(h, x.lifetime)
    BY PrerequisitesAre
  <2>4. Created(b, sets, h, x) \/ FrameAwaits(s, n, j, x)
    BY <1>1, <2>1 DEF StackAwaits
  <2>5. Created(b, sets, h, x) => Created(b, more, h, x)
    BY <1>2, <2>3 DEF Remains
  <2>6. FrameAwaits(s, n, j, x) => Pending(fs, j, x) \/ Delegates(fs[j].todo, x)
    BY <1>1 DEF FrameAwaits
  <2>7. Pending(new, j, x) \/ Delegates(new[j].todo, x) => FrameAwaits(r, n, j, x)
    BY DEF FrameAwaits
  <2> QED
    BY <1>4, <2>1, <2>3, <2>4, <2>5, <2>6, <2>7
<1>7. ASSUME NEW x \in Entry(b), x.lifetime # "transient", Pending(fs, 1, x)
      PROVE  Created(b, more, h, x) \/ Pending(new, 1, x)
  BY <1>3, <1>4, <1>7
<1>8. Len(r) = n + 1 => Len(r[n + 1].frames) = 1
  BY <1>1
<1>9. Len(r) = Len(s) /\ \A k \in 1 .. Len(s) - 1 : r[k] = s[k]
  OBVIOUS
<1>10. r[Len(s)].via = s[Len(s)].via
  OBVIOUS
<1> HIDE DEF FrameTaken
<1> QED
  BY <1>1, <1>5, <1>6, <1>7, <1>8, <1>9, <1>10, StackGoesOn

-----------------------------------------------------------------------------
(* Services: who makes an instance. *)

(* A context with a factory that makes the instance of a slot *)
Makes(b, c, h, i) ==
  \E j \in 2 .. Len(c.frames) :
    /\ c.frames[j].entry.lifetime # "transient"
    /\ Services!InstanceSetOf(c.via, c.frames[j].entry) = h
    /\ IndexOf(b, c.frames[j].entry) = i

(* A stack of contexts in which nobody begins to make an instance, and no   *)
(* maker lets go of a mutex *)
NoNewMaker(b, s, r, k) ==
  \A h, i : Makes(b, r[k], h, i) =>
    k \in 1 .. Len(s) /\ Makes(b, s[k], h, i) /\ s[k].locks \subseteq r[k].locks
NoNewMakers(b, s, r) == \A k \in 1 .. Len(r) : NoNewMaker(b, s, r, k)

LEMMA FewerMake ==
  ASSUME NEW b, NEW c, NEW d, d.via = c.via, Len(c.frames) \in Nat,
         Len(d.frames) \in Nat, Len(d.frames) <= Len(c.frames),
         \A j \in 2 .. Len(d.frames) : d.frames[j].entry = c.frames[j].entry,
         NEW h, NEW i, Makes(b, d, h, i)
  PROVE  Makes(b, c, h, i)
<1>1. PICK j \in 2 .. Len(d.frames) :
        /\ d.frames[j].entry.lifetime # "transient"
        /\ Services!InstanceSetOf(d.via, d.frames[j].entry) = h
        /\ IndexOf(b, d.frames[j].entry) = i
  BY DEF Makes
<1>2. j \in 2 .. Len(c.frames) /\ d.frames[j].entry = c.frames[j].entry
  OBVIOUS
<1> QED
  BY <1>1, <1>2 DEF Makes

(* What a stack has on top *)
LEMMA TopIs ==
  ASSUME NEW b, NEW providers, NEW s, IsStack(s), s # <<>>, StackSound(b, providers, s)
  PROVE  /\ Len(s) \in Nat /\ Len(s) >= 1 /\ Services!Last(s) = s[Len(s)]
         /\ IsContext(s[Len(s)]) /\ ContextSound(b, providers, s[Len(s)])
         /\ Len(s[Len(s)].frames) \in Nat
<1>1. Len(s) \in Nat /\ Len(s) >= 1
  BY Popped DEF IsStack
<1>2. Len(s) \in 1 .. Len(s)
  BY <1>1
<1>3. ContextSound(b, providers, s[Len(s)]) /\ IsContext(s[Len(s)])
  BY <1>2 DEF StackSound, IsStack
<1> QED
  BY <1>1, <1>3 DEF Services!Last, ContextSound, FramesSound

WithTop(s, c) == Append(Services!Front(s), c)

(* The innermost context becomes another one. *)
LEMMA TopBecomes ==
  ASSUME NEW b, NEW providers, NEW s, IsStack(s), s # <<>>, StackSound(b, providers, s),
         NEW c, IsContext(c), ContextSound(b, providers, c)
  PROVE  LET r == WithTop(s, c)
         IN /\ IsStack(r) /\ StackSound(b, providers, r) /\ Len(r) = Len(s)
            /\ r[Len(s)] = c
            /\ \A k \in 1 .. Len(s) - 1 : r[k] = s[k] /\ NoNewMaker(b, s, r, k)
<1> DEFINE n == Len(s)  r == WithTop(s, c)
<1>1. n \in Nat /\ n >= 1 /\ ContextSound(b, providers, s[n])
  BY TopIs
<1>2. /\ IsStack(r) /\ Len(r) = n /\ r[n] = c
      /\ \A i \in 1 .. n - 1 : r[i] = s[i]
  <2>1. /\ IsStack(Append(Services!Front(s), c))
        /\ Len(Append(Services!Front(s), c)) = Len(s)
        /\ Append(Services!Front(s), c)[Len(s)] = c
        /\ \A i \in 1 .. Len(s) - 1 : Append(Services!Front(s), c)[i] = s[i]
    BY Replaced
  <2> QED
    BY <2>1 DEF WithTop
<1> HIDE DEF r
<1>3. StackSound(b, providers, r)
  <2>1. SUFFICES ASSUME NEW k \in 1 .. n PROVE ContextSound(b, providers, r[k])
    BY <1>2 DEF StackSound
  <2>2. CASE k = n
    BY <1>2, <2>2
  <2>3. CASE k # n
    <3>1. k \in 1 .. n - 1
      BY <1>1, <2>3
    <3> QED
      BY <1>2, <3>1 DEF StackSound
  <2> QED
    BY <2>2, <2>3
<1>4. ASSUME NEW k \in 1 .. n - 1
      PROVE  NoNewMaker(b, s, r, k)
  <2>1. r[k] = s[k] /\ k \in 1 .. Len(s)
    BY <1>1, <1>2
  <2> QED
    BY <2>1 DEF NoNewMaker
<1> QED
  BY <1>2, <1>3, <1>4 DEF r

(* ... and no other factory runs in it. *)
LEMMA NobodyBegins ==
  ASSUME NEW b, NEW providers, NEW s, IsStack(s), s # <<>>, StackSound(b, providers, s),
         NEW c, IsContext(c), ContextSound(b, providers, c),
         s[Len(s)].locks \subseteq c.locks,
         \A g, i : Makes(b, c, g, i) => Makes(b, s[Len(s)], g, i)
  PROVE  NoNewMakers(b, s, WithTop(s, c))
<1> DEFINE r == WithTop(s, c)  n == Len(s)
<1>1. /\ Len(r) = n /\ r[n] = c
      /\ \A k \in 1 .. n - 1 : NoNewMaker(b, s, r, k)
  BY TopBecomes
<1>2. n \in Nat /\ n >= 1
  BY TopIs
<1> HIDE DEF r, n
<1>3. NoNewMaker(b, s, r, n)
  BY <1>1, <1>2 DEF NoNewMaker, n
<1>4. \A k \in 1 .. n : k = n \/ k \in 1 .. n - 1
  BY <1>2
<1>5. NoNewMakers(b, s, r)
  BY <1>1, <1>3, <1>4 DEF NoNewMakers
<1> QED
  BY <1>5 DEF r

(* A job of the innermost context is done. *)
LEMMA ContextAdvances ==
  ASSUME NEW b, NEW providers, NEW s, IsStack(s), s # <<>>, StackSound(b, providers, s),
         Services!Last(s[Len(s)].frames).todo # <<>>,
         NEW c, IsContext(c), c.via = s[Len(s)].via, s[Len(s)].locks \subseteq c.locks,
         c.locks \subseteq {Services!Root, c.via},
         Head(Services!Last(s[Len(s)].frames).todo).do = "lock" =>
           Head(Services!Last(s[Len(s)].frames).todo).mutex \in c.locks,
         c.frames = Advanced(s[Len(s)].frames)
  PROVE  /\ ContextSound(b, providers, c)
         /\ \A g, i : Makes(b, c, g, i) => Makes(b, s[Len(s)], g, i)
<1> DEFINE n == Len(s)  h == s[n].via  old == s[n].locks  fs == s[n].frames
<1>1. /\ n \in Nat /\ n >= 1 /\ n \in 1 .. n /\ FramesSound(b, h, old, fs)
      /\ h \in providers /\ h \in Holder
  BY TopIs DEF ContextSound
<1>2. PICK all : all = c.locks
  OBVIOUS
<1>3. /\ old \subseteq all /\ FramesSound(b, h, old, fs) /\ Services!Last(fs).todo # <<>>
      /\ Head(Services!Last(fs).todo).do = "lock" =>
           Head(Services!Last(fs).todo).mutex \in all
      /\ c.frames = Advanced(fs)
  BY <1>1, <1>2
<1> HIDE DEF h, old, fs
<1>4. FramesSound(b, h, all, Advanced(fs))
  BY <1>3, FramesGoOn
<1>5. /\ Len(fs) \in Nat /\ Len(Advanced(fs)) = Len(fs)
      /\ \A j \in 1 .. Len(fs) : Advanced(fs)[j].entry = fs[j].entry
  BY <1>3, AdvancedIs
<1>6. ContextSound(b, providers, c)
  BY <1>1, <1>2, <1>3, <1>4 DEF ContextSound, h
<1>7. ASSUME NEW g, NEW i, Makes(b, c, g, i)
      PROVE  Makes(b, s[n], g, i)
  <2>2. /\ c.via = s[n].via /\ Len(s[n].frames) \in Nat /\ Len(c.frames) \in Nat
        /\ Len(c.frames) <= Len(s[n].frames)
        /\ \A j \in 2 .. Len(c.frames) : c.frames[j].entry = s[n].frames[j].entry
    BY <1>3, <1>5 DEF fs
  <2>3. PICK d : d = s[n]
    OBVIOUS
  <2> QED
    BY <1>7, <2>2, <2>3, FewerMake
<1> QED
  BY <1>6, <1>7

(* A factory is called in the innermost context. *)
LEMMA ContextCalls ==
  ASSUME NEW b, NEW providers, NEW s, IsStack(s), s # <<>>, StackSound(b, providers, s),
         Services!Last(s[Len(s)].frames).todo # <<>>,
         NEW job, job = Head(Services!Last(s[Len(s)].frames).todo),
         NEW e \in Entry(b), job.do = "activate", job.entry = e,
         \A j \in 2 .. Len(s[Len(s)].frames) :
           s[Len(s)].frames[j].entry.service # e.service,
         NEW g, g.entry = e, FrameSound(b, s[Len(s)].via, s[Len(s)].locks, g),
         NEW c, IsContext(c), c.via = s[Len(s)].via, c.locks = s[Len(s)].locks,
         c.frames = Append(Advanced(s[Len(s)].frames), g)
  PROVE  /\ ContextSound(b, providers, c)
         /\ Len(c.frames) = Len(s[Len(s)].frames) + 1
         /\ c.frames[Len(s[Len(s)].frames) + 1] = g
         /\ \A j \in 1 .. Len(s[Len(s)].frames) :
              c.frames[j].entry = s[Len(s)].frames[j].entry
<1> DEFINE n == Len(s)  h == s[n].via  old == s[n].locks  fs == s[n].frames
           done == Advanced(fs)  m == Len(fs)
<1>1. /\ n \in Nat /\ n >= 1 /\ n \in 1 .. n /\ FramesSound(b, h, old, fs)
      /\ h \in providers /\ h \in Holder /\ old \subseteq {Services!Root, h}
  BY TopIs DEF ContextSound
<1>2. /\ old \subseteq old /\ FramesSound(b, h, old, fs) /\ Services!Last(fs).todo # <<>>
      /\ Head(Services!Last(fs).todo) = job
      /\ Head(Services!Last(fs).todo).do # "lock"
      /\ c.frames = Append(done, g)
  BY <1>1
<1>3. /\ m \in Nat /\ m >= 1 /\ Len(done) = m
      /\ Services!Last(fs) = fs[m]
      /\ \A j \in 1 .. m : done[j].entry = fs[j].entry
  <2> HIDE DEF h, old, fs
  <2> QED
    BY <1>2, AdvancedIs
<1>4. FramesSound(b, h, old, done)
  <2> HIDE DEF h, old, fs
  <2>1. PICK all : all = old
    OBVIOUS
  <2>2. old \subseteq all
    BY <2>1
  <2>3. FramesSound(b, h, all, Advanced(fs))
    BY <1>2, <2>2, FramesGoOn
  <2> QED
    BY <2>1, <2>3
<1>5. g.entry # Services!NoEntry
  <2>1. e.service \in Services!Service /\ e.lifetime \in Services!Lifetime
    BY DEF Entry
  <2> QED
    BY <2>1 DEF Services!NoEntry, Services!Lifetime
<1>6. Len(done) > 1 => Asks(b, done[Len(done)].entry.service, g.entry.service)
  <2>1. SUFFICES ASSUME m > 1
                 PROVE  Asks(b, fs[m].entry.service, e.service)
    BY <1>3
  <2>2. m \in 1 .. m
    BY <1>3
  <2>3. FrameSound(b, h, old, fs[m]) /\ fs[m].entry # Services!NoEntry
    BY <1>1, <2>1, <2>2 DEF FramesSound, Linked
  <2>4. PICK todo : todo = fs[m].todo
    OBVIOUS
  <2>5. todo \in Seq(JobOf(b)) /\ todo # <<>> /\ Head(todo) = job
    BY <1>2, <1>3, <2>3, <2>4 DEF FrameSound, JobsFit
  <2>6. 1 \in 1 .. Len(todo) /\ todo[1] = job
    BY <2>5, EmptySeq
  <2>7. todo[1].do = "activate" /\ todo[1].entry = e
    BY <2>6
  <2> QED
    BY <2>3, <2>4, <2>6, <2>7 DEF FrameSound
<1>7. \A j \in 2 .. Len(done) : done[j].entry.service # g.entry.service
  BY <1>3
<1>8. FrameSound(b, h, old, g)
  OBVIOUS
<1>9. /\ FramesSound(b, h, old, c.frames)
      /\ Len(c.frames) = m + 1 /\ c.frames[m + 1] = g
      /\ \A j \in 1 .. m : c.frames[j] = done[j]
  <2> HIDE DEF done, h, old
  <2>1. LET k == Len(done)  more == Append(done, g)
        IN /\ FramesSound(b, h, old, more)
           /\ Len(more) = k + 1 /\ more[k + 1] = g
           /\ \A j \in 1 .. k : more[j] = done[j]
    BY <1>4, <1>5, <1>6, <1>7, <1>8, FramesGrow
  <2> QED
    BY <1>2, <1>3, <2>1
<1>10. ContextSound(b, providers, c)
  BY <1>1, <1>9 DEF ContextSound
<1>11. \A j \in 1 .. m : c.frames[j].entry = fs[j].entry
  BY <1>3, <1>9
<1> QED
  BY <1>9, <1>10, <1>11

(* A factory of the innermost context returns. *)
LEMMA ContextReturns ==
  ASSUME NEW b, NEW providers, NEW s, IsStack(s), s # <<>>, StackSound(b, providers, s),
         Services!Last(s[Len(s)].frames).entry # Services!NoEntry,
         NEW c, IsContext(c), c.via = s[Len(s)].via, c.locks = s[Len(s)].locks,
         c.frames = Services!Front(s[Len(s)].frames)
  PROVE  /\ ContextSound(b, providers, c)
         /\ \A g, i : Makes(b, c, g, i) => Makes(b, s[Len(s)], g, i)
         /\ Len(s[Len(s)].frames) >= 2 /\ Len(c.frames) = Len(s[Len(s)].frames) - 1
         /\ \A j \in 1 .. Len(c.frames) : c.frames[j] = s[Len(s)].frames[j]
<1> DEFINE n == Len(s)  h == s[n].via  old == s[n].locks  fs == s[n].frames  m == Len(fs)
<1>1. /\ n \in Nat /\ n >= 1 /\ n \in 1 .. n /\ FramesSound(b, h, old, fs)
      /\ h \in providers /\ h \in Holder /\ old \subseteq {Services!Root, h}
  BY TopIs DEF ContextSound
<1>2. FramesSound(b, h, old, fs) /\ Services!Last(fs).entry # Services!NoEntry
  BY <1>1
<1>3. /\ FramesSound(b, h, old, c.frames)
      /\ m \in Nat /\ m >= 2 /\ Len(c.frames) = m - 1
      /\ \A j \in 1 .. m - 1 : c.frames[j] = fs[j]
  <2>1. FramesSound(b, h, old, Services!Front(fs))
    <3> HIDE DEF h, old, fs
    <3> QED
      BY <1>2, FramesShrink
  <2>2. /\ m \in Nat /\ m >= 2 /\ Len(Services!Front(fs)) = m - 1
        /\ \A j \in 1 .. m - 1 : Services!Front(fs)[j] = fs[j]
    <3> HIDE DEF h, old, fs
    <3>1. LET k == Len(fs)  less == Services!Front(fs)
          IN /\ FramesSound(b, h, old, less)
             /\ k \in Nat /\ k >= 2 /\ Len(less) = k - 1 /\ Services!Last(fs) = fs[k]
             /\ \A j \in 1 .. k - 1 : less[j] = fs[j]
      BY <1>2, <2>1, FramesShrink
    <3> QED
      BY <3>1
  <2> QED
    BY <2>1, <2>2
<1>4. ContextSound(b, providers, c)
  BY <1>1, <1>3 DEF ContextSound
<1>5. ASSUME NEW g, NEW i, Makes(b, c, g, i)
      PROVE  Makes(b, s[n], g, i)
  <2>2. /\ c.via = s[n].via /\ Len(s[n].frames) \in Nat /\ Len(c.frames) \in Nat
        /\ Len(c.frames) <= Len(s[n].frames)
        /\ \A j \in 2 .. Len(c.frames) : c.frames[j].entry = s[n].frames[j].entry
    BY <1>3
  <2>3. PICK d : d = s[n]
    OBVIOUS
  <2> QED
    BY <1>5, <2>2, <2>3, FewerMake
<1> QED
  BY <1>3, <1>4, <1>5

(* A context is opened, with a single frame that is nobody's factory. *)
LEMMA ContextOpens ==
  ASSUME NEW b, NEW providers, NEW s, IsStack(s), StackSound(b, providers, s),
         NEW c, IsContext(c), ContextSound(b, providers, c), Len(c.frames) = 1
  PROVE  LET r == Append(s, c)
         IN /\ IsStack(r) /\ StackSound(b, providers, r) /\ Len(r) = Len(s) + 1
            /\ r[Len(s) + 1] = c /\ \A k \in 1 .. Len(s) : r[k] = s[k]
            /\ NoNewMakers(b, s, r)
<1> DEFINE r == Append(s, c)  n == Len(s)
<1>1. /\ n \in Nat /\ IsStack(r) /\ Len(r) = n + 1 /\ r[n + 1] = c
      /\ \A k \in 1 .. n : r[k] = s[k]
  BY Pushed DEF IsStack
<1> HIDE DEF r
<1>2. \A k \in 1 .. n + 1 : k \in 1 .. n \/ k = n + 1
  BY <1>1
<1>3. StackSound(b, providers, r)
  BY <1>1, <1>2 DEF StackSound
<1>4. \A g, i : ~Makes(b, c, g, i)
  <2>1. \A j \in 2 .. 1 : FALSE
    OBVIOUS
  <2> QED
    BY <2>1 DEF Makes
<1>5. ASSUME NEW k \in 1 .. n + 1 PROVE NoNewMaker(b, s, r, k)
  <2>1. CASE k \in 1 .. n
    <3>1. r[k] = s[k] /\ k \in 1 .. Len(s)
      BY <1>1, <2>1
    <3> QED
      BY <3>1 DEF NoNewMaker
  <2>2. CASE k = n + 1
    BY <1>1, <1>4, <2>2 DEF NoNewMaker
  <2> QED
    BY <1>2, <2>1, <2>2
<1>6. NoNewMakers(b, s, r)
  BY <1>1, <1>5 DEF NoNewMakers
<1> QED
  BY <1>1, <1>3, <1>6 DEF r

LEMMA NobodyBeginsTwice ==
  ASSUME NEW b, NEW s, NEW r, NEW q, NoNewMakers(b, s, r), NoNewMakers(b, r, q),
         Len(s) \in Nat, Len(r) \in Nat, Len(q) \in Nat
  PROVE  NoNewMakers(b, s, q)
<1>1. SUFFICES ASSUME NEW k \in 1 .. Len(q), NEW h, NEW i, Makes(b, q[k], h, i)
               PROVE  /\ k \in 1 .. Len(s) /\ Makes(b, s[k], h, i)
                      /\ s[k].locks \subseteq q[k].locks
  BY DEF NoNewMakers, NoNewMaker
<1>2. k \in 1 .. Len(r) /\ Makes(b, r[k], h, i) /\ r[k].locks \subseteq q[k].locks
  BY <1>1 DEF NoNewMakers, NoNewMaker
<1>3. k \in 1 .. Len(s) /\ Makes(b, s[k], h, i) /\ s[k].locks \subseteq r[k].locks
  BY <1>2 DEF NoNewMakers, NoNewMaker
<1> QED
  BY <1>2, <1>3

(* A context without a factory is closed. *)
LEMMA ContextCloses ==
  ASSUME NEW b, NEW providers, NEW sets, NEW s, IsStack(s), s # <<>>,
         StackSound(b, providers, s), StackAwaits(b, sets, s),
         Services!Last(s[Len(s)].frames).todo = <<>>,
         Services!Last(s[Len(s)].frames).entry = Services!NoEntry
  PROVE  LET r == Services!Front(s)
         IN /\ IsStack(r) /\ StackSound(b, providers, r) /\ StackAwaits(b, sets, r)
            /\ Len(r) = Len(s) - 1 /\ \A k \in 1 .. Len(s) - 1 : r[k] = s[k]
            /\ NoNewMakers(b, s, r)
<1> DEFINE r == Services!Front(s)  n == Len(s)  fs == s[n].frames
<1>1. /\ n \in Nat /\ n >= 1 /\ IsStack(r) /\ Len(r) = n - 1
      /\ \A k \in 1 .. n - 1 : r[k] = s[k]
  BY Popped DEF IsStack
<1>2. /\ ContextSound(b, providers, s[n]) /\ Len(fs) \in Nat
  BY TopIs
<1>3. Len(fs) = 1 /\ fs[1].todo = <<>>
  <2>1. Linked(b, fs) /\ fs # <<>> /\ fs \in Seq(FrameOf(b))
    BY <1>2 DEF ContextSound, FramesSound
  <2>2. Len(fs) \in 1 .. Len(fs) /\ Services!Last(fs) = fs[Len(fs)]
    BY <2>1, EmptySeq DEF Services!Last
  <2>3. Len(fs) = 1
    BY <2>1, <2>2 DEF Linked
  <2> QED
    BY <2>2, <2>3
<1> HIDE DEF r
<1>4. StackSound(b, providers, r)
  BY <1>1 DEF StackSound
<1>5. StackAwaits(b, sets, r)
  <2>1. SUFFICES ASSUME NEW k \in 1 .. n - 1, NEW j \in 2 .. Len(s[k].frames),
                        NEW x \in Prerequisites(b, s[k].via, s[k].frames[j].entry)
                 PROVE  Created(b, sets, s[k].via, x) \/ FrameAwaits(r, k, j, x)
    BY <1>1 DEF StackAwaits
  <2>2. k \in 1 .. n /\ r[k] = s[k]
    BY <1>1
  <2>3. Created(b, sets, s[k].via, x) \/ FrameAwaits(s, k, j, x)
    BY <2>2 DEF StackAwaits
  <2>4. CASE Pending(s[k].frames, j, x) \/ Delegates(s[k].frames[j].todo, x)
    BY <2>2, <2>4 DEF FrameAwaits
  <2>5. CASE /\ j = Len(s[k].frames) /\ k < Len(s)
             /\ s[k + 1].via = s[k].via /\ Pending(s[k + 1].frames, 1, x)
    <3> DEFINE i == k + 1
    <3>1. i \in 1 .. n /\ (i = n \/ i \in 1 .. n - 1)
      BY <1>1
    <3>2. s[i].via = s[k].via /\ Pending(s[i].frames, 1, x)
      BY <2>5
    <3> HIDE DEF i
    <3>3. i # n
      <4>1. SUFFICES ASSUME i = n PROVE FALSE
        OBVIOUS
      <4>2. Pending(fs, 1, x)
        BY <3>2, <4>1
      <4>3. \E p \in 1 .. Len(fs[1].todo) : TRUE
        BY <1>3, <4>2 DEF Pending, Activates
      <4> QED
        BY <1>3, <4>3
    <3>4. i \in 1 .. n - 1 /\ r[i] = s[i] /\ i <= Len(r)
      BY <1>1, <3>1, <3>3
    <3>5. k < Len(r)
      BY <1>1, <3>4 DEF i
    <3>6. /\ j = Len(r[k].frames) /\ k < Len(r)
          /\ r[i].via = r[k].via /\ Pending(r[i].frames, 1, x)
      BY <2>2, <2>5, <3>2, <3>4, <3>5
    <3> QED
      BY <3>6 DEF FrameAwaits, i
  <2> QED
    BY <2>3, <2>4, <2>5 DEF FrameAwaits
<1>6. NoNewMakers(b, s, r)
  <2>1. \A k \in 1 .. n - 1 : r[k] = s[k] /\ k \in 1 .. Len(s)
    BY <1>1
  <2> QED
    BY <1>1, <2>1 DEF NoNewMakers, NoNewMaker
<1> QED
  BY <1>1, <1>4, <1>5, <1>6 DEF r

(* A request by the application, and the end of one *)
LEMMA OneContext ==
  ASSUME NEW b, NEW providers, NEW sets, NEW c, IsContext(c),
         ContextSound(b, providers, c), Len(c.frames) = 1
  PROVE  LET r == <<c>>
         IN /\ IsStack(r) /\ StackSound(b, providers, r) /\ StackAwaits(b, sets, r)
            /\ Len(r) = 1 /\ r[1] = c /\ NoNewMakers(b, <<>>, r)
<1> DEFINE r == <<c>>
<1>1. Len(r) = 1 /\ r[1] = c /\ r = [i \in 1 .. Len(r) |-> r[i]]
  OBVIOUS
<1> HIDE DEF r
<1>2. \A k \in 1 .. 1 : k = 1
  OBVIOUS
<1>3. \A j \in 2 .. 1 : FALSE
  OBVIOUS
<1>4. IsStack(r)
  BY <1>1, <1>2 DEF IsStack
<1>5. StackSound(b, providers, r)
  BY <1>1, <1>2 DEF StackSound
<1>6. StackAwaits(b, sets, r)
  BY <1>1, <1>2, <1>3 DEF StackAwaits
<1>7. NoNewMakers(b, <<>>, r)
  BY <1>1, <1>2, <1>3 DEF NoNewMakers, NoNewMaker, Makes
<1> QED
  BY <1>1, <1>4, <1>5, <1>6, <1>7 DEF r

LEMMA NoContext ==
  ASSUME NEW b, NEW providers, NEW sets
  PROVE  /\ IsStack(<<>>) /\ StackSound(b, providers, <<>>) /\ StackAwaits(b, sets, <<>>)
         /\ \A s : NoNewMakers(b, s, <<>>)
<1> DEFINE r == <<>>
<1>1. Len(r) = 0 /\ r = [i \in 1 .. Len(r) |-> r[i]]
  OBVIOUS
<1>2. \A k \in 1 .. 0 : FALSE
  OBVIOUS
<1> HIDE DEF r
<1>3. IsStack(r) /\ StackSound(b, providers, r) /\ StackAwaits(b, sets, r)
  BY <1>1, <1>2 DEF IsStack, StackSound, StackAwaits
<1>4. \A s : NoNewMakers(b, s, r)
  BY <1>1, <1>2 DEF NoNewMakers
<1> QED
  BY <1>3, <1>4 DEF r

-----------------------------------------------------------------------------
(* Services: the slots of instances, and who may fill them. *)

LifetimeFor(h) == IF h = Services!Root THEN "singleton" ELSE "scoped"
Places(b, h) == 1 .. CountOf(b, LifetimeFor(h), Services!Service)
SlotType(b) == [made : 0 .. 2, of : Entry(b) \cup {Services!NoEntry}, guarded : BOOLEAN]
SlotsTyped(b, sets) ==
  /\ sets = [h \in DOMAIN sets |-> sets[h]]
  /\ \A h \in DOMAIN sets : sets[h] \in [Places(b, h) -> SlotType(b)]

(* The factories that run for a slot: two may fill it when it is not under  *)
(* its own mutex, and none does once it was filled twice.                   *)
Maker(b, cs, t, k, h, i) == k \in 1 .. Len(cs[t]) /\ Makes(b, cs[t][k], h, i)
MakersSound(b, sets, cs, h, i) ==
  /\ sets[h][i].made = 1 =>
       \A t, u \in Thread : \A k, l \in Nat :
         Maker(b, cs, t, k, h, i) /\ Maker(b, cs, u, l, h, i) => t = u /\ k = l
  /\ sets[h][i].made = 2 => \A t \in Thread : \A k \in Nat : ~Maker(b, cs, t, k, h, i)
  /\ h = Services!Root => sets[h][i].guarded
  /\ sets[h][i].guarded =>
       /\ sets[h][i].made < 2
       /\ \A t \in Thread : \A k \in Nat : Maker(b, cs, t, k, h, i) =>
            sets[h][i].made = 0 /\ h \in cs[t][k].locks
MadeFor(b, sets, h, i) ==
  sets[h][i].made > 0 =>
    /\ sets[h][i].of \in Entry(b) /\ sets[h][i].of.lifetime = LifetimeFor(h)
    /\ IndexOf(b, sets[h][i].of) = i
    /\ \A x \in Prerequisites(b, h, sets[h][i].of) : Created(b, sets, h, x)
SlotsSound(b, sets, cs) ==
  \A h \in DOMAIN sets : \A i \in Places(b, h) :
    MakersSound(b, sets, cs, h, i) /\ MadeFor(b, sets, h, i)

(* The slot of an instance *)
LEMMA PlaceIs ==
  ASSUME NEW b, AreBindings(b), NEW h, NEW e \in Entry(b), e.lifetime # "transient",
         Serves(h, e.lifetime)
  PROVE  LET g == Services!InstanceSetOf(h, e)
         IN /\ g \in {Services!Root, h} /\ LifetimeFor(g) = e.lifetime
            /\ IndexOf(b, e) \in Places(b, g)
<1>1. e.lifetime \in {"singleton", "scoped"}
  BY DEF Entry, Services!Lifetime
<1>2. LET g == Services!InstanceSetOf(h, e)
      IN g \in {Services!Root, h} /\ LifetimeFor(g) = e.lifetime
  BY <1>1 DEF Services!InstanceSetOf, LifetimeFor, Serves
<1>3. IndexOf(b, e) \in 1 .. CountOf(b, e.lifetime, Services!Service)
  BY IndexesAre
<1> QED
  BY <1>2, <1>3 DEF Places

(* Two instances of a context are made in different slots. *)
LEMMA PlacesDiffer ==
  ASSUME NEW b, AreBindings(b), NEW h, NEW e \in Entry(b), NEW f \in Entry(b),
         e.lifetime # "transient", f.lifetime # "transient",
         Serves(h, e.lifetime), Serves(h, f.lifetime),
         Services!InstanceSetOf(h, e) = Services!InstanceSetOf(h, f),
         IndexOf(b, e) = IndexOf(b, f)
  PROVE  e = f
<1>1. e.lifetime = f.lifetime
  BY PlaceIs
<1> QED
  BY <1>1, IndexesAreUnique

(* A slot gets another value. *)
Put(sets, h, i, v) == [sets EXCEPT ![h][i] = v]

LEMMA SlotPut ==
  ASSUME NEW b, NEW sets, SlotsTyped(b, sets), NEW h \in DOMAIN sets,
         NEW i \in Places(b, h), NEW v \in SlotType(b)
  PROVE  LET more == Put(sets, h, i, v)
         IN /\ SlotsTyped(b, more) /\ DOMAIN more = DOMAIN sets /\ more[h][i] = v
            /\ \A g \in DOMAIN sets : \A j \in Places(b, g) :
                 g # h \/ j # i => more[g][j] = sets[g][j]
<1> DEFINE more == Put(sets, h, i, v)  row == [sets[h] EXCEPT ![i] = v]
<1>1. sets[h] \in [Places(b, h) -> SlotType(b)]
  BY DEF SlotsTyped
<1>2. /\ row \in [Places(b, h) -> SlotType(b)] /\ row[i] = v
      /\ \A j \in Places(b, h) : j # i => row[j] = sets[h][j]
  BY <1>1
<1>3. /\ more = [g \in DOMAIN sets |-> more[g]] /\ DOMAIN more = DOMAIN sets
      /\ more[h] = row /\ \A g \in DOMAIN sets : g # h => more[g] = sets[g]
  BY DEF SlotsTyped, Put
<1> HIDE DEF more, row
<1>4. SlotsTyped(b, more)
  BY <1>2, <1>3 DEF SlotsTyped
<1> QED
  BY <1>2, <1>3, <1>4 DEF more

(* An instance that was made is one that the slot was for. *)
LEMMA MadeOnce ==
  ASSUME NEW b, AreBindings(b), NEW sets, NEW cs, SlotsSound(b, sets, cs),
         SlotsTyped(b, sets), NEW h, h \in DOMAIN sets, Services!Root \in DOMAIN sets,
         NEW e \in Entry(b), e.lifetime # "transient", Serves(h, e.lifetime)
  PROVE  LET g == Services!InstanceSetOf(h, e)  i == IndexOf(b, e)
         IN /\ g \in DOMAIN sets /\ i \in Places(b, g) /\ sets[g][i] \in SlotType(b)
            /\ Created(b, sets, h, e) <=> sets[g][i].made > 0
            /\ MakersSound(b, sets, cs, g, i) /\ MadeFor(b, sets, g, i)
<1> DEFINE g == Services!InstanceSetOf(h, e)  i == IndexOf(b, e)
<1>1. g \in {Services!Root, h} /\ i \in Places(b, g)
  BY PlaceIs
<1>2. g \in DOMAIN sets
  BY <1>1
<1>3. Created(b, sets, h, e) <=> sets[g][i].made > 0
  BY DEF Created
<1> HIDE DEF g, i
<1>4. sets[g][i] \in SlotType(b)
  BY <1>1, <1>2 DEF SlotsTyped
<1>5. MakersSound(b, sets, cs, g, i) /\ MadeFor(b, sets, g, i)
  BY <1>1, <1>2 DEF SlotsSound
<1> QED
  BY <1>1, <1>2, <1>3, <1>4, <1>5 DEF g, i

(* The makers of an instance, and what it was made for, stay the same.      *)
LEMMA MakersStay ==
  ASSUME NEW b, NEW sets, NEW more, NEW cs, NEW ds, NEW h, NEW i,
         MakersSound(b, sets, cs, h, i),
         more[h][i].made = sets[h][i].made, more[h][i].guarded = sets[h][i].guarded,
         \A u \in Thread : \A k \in Nat : Maker(b, ds, u, k, h, i) =>
           Maker(b, cs, u, k, h, i) /\ cs[u][k].locks \subseteq ds[u][k].locks
  PROVE  MakersSound(b, more, ds, h, i)
<1>1. ASSUME sets[h][i].made = 1, NEW v \in Thread, NEW u \in Thread, NEW k \in Nat,
             NEW l \in Nat, Maker(b, ds, v, k, h, i), Maker(b, ds, u, l, h, i)
      PROVE  v = u /\ k = l
  BY <1>1 DEF MakersSound
<1>2. sets[h][i].made = 2 => \A u \in Thread : \A k \in Nat : ~Maker(b, ds, u, k, h, i)
  BY DEF MakersSound
<1>3. sets[h][i].guarded =>
        \A u \in Thread : \A k \in Nat : Maker(b, ds, u, k, h, i) =>
          sets[h][i].made = 0 /\ h \in ds[u][k].locks
  BY DEF MakersSound
<1> QED
  BY <1>1, <1>2, <1>3 DEF MakersSound

LEMMA MadeStays ==
  ASSUME NEW b, AreBindings(b), NEW sets, NEW more, NEW h \in DOMAIN sets, NEW i,
         MadeFor(b, sets, h, i), Remains(b, DOMAIN sets, sets, more),
         more[h][i].made = sets[h][i].made, more[h][i].of = sets[h][i].of
  PROVE  MadeFor(b, more, h, i)
<1>1. ASSUME NEW x \in Prerequisites(b, h, sets[h][i].of), Created(b, sets, h, x)
      PROVE  Created(b, more, h, x)
  BY <1>1, PrerequisitesAre DEF Remains
<1> QED
  BY <1>1 DEF MadeFor

(* Nobody begins to make an instance. *)
LEMMA NobodyElseMakes ==
  ASSUME NEW b, NEW cs, cs = [u \in Thread |-> cs[u]], NEW t \in Thread, NEW r,
         NEW h, NEW i, \A k \in 1 .. Len(r) : Makes(b, r[k], h, i) =>
           /\ k \in 1 .. Len(cs[t]) /\ Makes(b, cs[t][k], h, i)
           /\ cs[t][k].locks \subseteq r[k].locks,
         NEW u \in Thread, NEW k \in Nat, Maker(b, [cs EXCEPT ![t] = r], u, k, h, i)
  PROVE  /\ Maker(b, cs, u, k, h, i)
         /\ cs[u][k].locks \subseteq [cs EXCEPT ![t] = r][u][k].locks
<1> DEFINE ds == [cs EXCEPT ![t] = r]
<1>1. ds[t] = r /\ \A v \in Thread : v # t => ds[v] = cs[v]
  OBVIOUS
<1>2. Maker(b, ds, u, k, h, i)
  OBVIOUS
<1> HIDE DEF ds
<1>3. Maker(b, cs, u, k, h, i) /\ cs[u][k].locks \subseteq ds[u][k].locks
  <2>1. CASE u = t
    <3>1. k \in 1 .. Len(r) /\ Makes(b, r[k], h, i)
      BY <1>1, <1>2, <2>1 DEF Maker
    <3> QED
      BY <1>1, <2>1, <3>1 DEF Maker
  <2>2. CASE u # t
    BY <1>1, <1>2, <2>2 DEF Maker
  <2> QED
    BY <2>1, <2>2
<1> QED
  BY <1>3 DEF ds

LEMMA SlotsStay ==
  ASSUME NEW b, AreBindings(b), NEW sets, NEW cs, SlotsSound(b, sets, cs),
         cs = [u \in Thread |-> cs[u]], NEW t \in Thread, NEW r,
         NoNewMakers(b, cs[t], r)
  PROVE  SlotsSound(b, sets, [cs EXCEPT ![t] = r])
<1> DEFINE ds == [cs EXCEPT ![t] = r]
<1>1. ASSUME NEW h \in DOMAIN sets, NEW i \in Places(b, h)
      PROVE  MakersSound(b, sets, ds, h, i) /\ MadeFor(b, sets, h, i)
  <2>1. MakersSound(b, sets, cs, h, i) /\ MadeFor(b, sets, h, i)
    BY DEF SlotsSound
  <2>2. \A k \in 1 .. Len(r) : Makes(b, r[k], h, i) =>
          /\ k \in 1 .. Len(cs[t]) /\ Makes(b, cs[t][k], h, i)
          /\ cs[t][k].locks \subseteq r[k].locks
    BY DEF NoNewMakers, NoNewMaker
  <2>3. \A u \in Thread : \A k \in Nat : Maker(b, ds, u, k, h, i) =>
          Maker(b, cs, u, k, h, i) /\ cs[u][k].locks \subseteq ds[u][k].locks
    BY <2>2, NobodyElseMakes
  <2> HIDE DEF ds
  <2>4. PICK more : more = sets
    OBVIOUS
  <2>5. /\ more[h][i].made = sets[h][i].made
        /\ more[h][i].guarded = sets[h][i].guarded
    BY <2>4
  <2>6. MakersSound(b, more, ds, h, i)
    BY <2>1, <2>3, <2>5, MakersStay
  <2> QED
    BY <2>1, <2>4, <2>6
<1> QED
  BY <1>1 DEF SlotsSound

(* A mutex is in the hands of one context. *)
OneHolder(cs) ==
  \A t, u \in Thread : \A k \in 1 .. Len(cs[t]) : \A l \in 1 .. Len(cs[u]) :
    \A m \in Holder : m \in cs[t][k].locks /\ m \in cs[u][l].locks => t = u /\ k = l

LEMMA OneHolds ==
  ASSUME ServicesInv
  PROVE  OneHolder(contexts)
<1>1. SUFFICES ASSUME NEW t \in Thread, NEW u \in Thread, NEW k \in 1 .. Len(contexts[t]),
                      NEW l \in 1 .. Len(contexts[u]), NEW m \in Holder,
                      m \in contexts[t][k].locks, m \in contexts[u][l].locks
               PROVE  t = u /\ k = l
  BY DEF OneHolder
<1>2. k \in Holding(contexts[t], m) /\ l \in Holding(contexts[u], m)
  BY <1>1 DEF Holding
<1>3. mutex[m] = t /\ mutex[m] = u
  BY <1>2, HeldOnce
<1>4. k = l
  BY <1>2, <1>3, HeldOnce
<1> QED
  BY <1>3, <1>4

(* Who makes an instance holds a mutex that covers it. *)
LEMMA MakerHolds ==
  ASSUME NEW b, AreBindings(b), NEW providers, NEW c, ContextSound(b, providers, c),
         NEW h, NEW i, Makes(b, c, h, i)
  PROVE  h \in Holder /\ (Services!Root \in c.locks \/ h \in c.locks)
<1>1. PICK j \in 2 .. Len(c.frames) :
        /\ c.frames[j].entry.lifetime # "transient"
        /\ Services!InstanceSetOf(c.via, c.frames[j].entry) = h
        /\ IndexOf(b, c.frames[j].entry) = i
  BY DEF Makes
<1>2. Len(c.frames) \in Nat /\ j \in 1 .. Len(c.frames) /\ j # 1
  BY DEF ContextSound, FramesSound
<1>3. FrameSound(b, c.via, c.locks, c.frames[j]) /\ c.frames[j].entry # Services!NoEntry
  BY <1>2 DEF ContextSound, FramesSound, Linked
<1> DEFINE e == c.frames[j].entry
<1>4. e \in Entry(b) /\ Serves(c.via, e.lifetime) /\ Suffices(e.lifetime, c.via, c.locks)
  BY <1>3 DEF FrameSound, FrameOf
<1>5. /\ h \in {Services!Root, c.via} /\ LifetimeFor(h) = e.lifetime
  <2> HIDE DEF e
  <2>1. LET g == Services!InstanceSetOf(c.via, e)
        IN /\ g \in {Services!Root, c.via} /\ LifetimeFor(g) = e.lifetime
           /\ IndexOf(b, e) \in Places(b, g)
    BY <1>1, <1>4, PlaceIs DEF e
  <2> QED
    BY <1>1, <2>1 DEF e
<1>6. c.via \in Holder /\ Services!Root \in Holder
  BY DEF ContextSound, Holder
<1> QED
  BY <1>4, <1>5, <1>6 DEF Suffices, LifetimeFor

(* What a context has one frame more of than another one *)
LEMMA OneMoreMakes ==
  ASSUME NEW b, NEW c, NEW d, d.via = c.via, Len(c.frames) \in Nat,
         Len(d.frames) = Len(c.frames) + 1,
         \A j \in 1 .. Len(c.frames) : d.frames[j].entry = c.frames[j].entry,
         NEW e, d.frames[Len(c.frames) + 1].entry = e,
         NEW h, NEW i, Makes(b, d, h, i)
  PROVE  \/ Makes(b, c, h, i)
         \/ e.lifetime # "transient" /\ Services!InstanceSetOf(c.via, e) = h /\ IndexOf(b, e) = i
<1>1. PICK j \in 2 .. Len(d.frames) :
        /\ d.frames[j].entry.lifetime # "transient"
        /\ Services!InstanceSetOf(d.via, d.frames[j].entry) = h
        /\ IndexOf(b, d.frames[j].entry) = i
  BY DEF Makes
<1>2. CASE j = Len(c.frames) + 1
  BY <1>1, <1>2
<1>3. CASE j # Len(c.frames) + 1
  <2>1. j \in 2 .. Len(c.frames) /\ d.frames[j].entry = c.frames[j].entry
    BY <1>3
  <2> QED
    BY <1>1, <2>1 DEF Makes
<1> QED
  BY <1>2, <1>3

(* The innermost factory of a context is the only one there that makes its  *)
(* instance. *)
LEMMA OneFrameMakes ==
  ASSUME NEW b, AreBindings(b), NEW providers, NEW c, ContextSound(b, providers, c),
         Len(c.frames) >= 2, NEW d, d.via = c.via, Len(d.frames) = Len(c.frames) - 1,
         \A j \in 1 .. Len(d.frames) : d.frames[j] = c.frames[j],
         NEW e, e = c.frames[Len(c.frames)].entry, e.lifetime # "transient"
  PROVE  /\ Makes(b, c, Services!InstanceSetOf(c.via, e), IndexOf(b, e))
         /\ ~Makes(b, d, Services!InstanceSetOf(c.via, e), IndexOf(b, e))
<1> DEFINE fs == c.frames  n == Len(fs)  h == c.via
<1>1. n \in Nat /\ n \in 2 .. n /\ n \in 1 .. n
  BY DEF ContextSound, FramesSound
<1>2. Makes(b, c, Services!InstanceSetOf(c.via, e), IndexOf(b, e))
  BY <1>1 DEF Makes
<1>3. \A j \in 2 .. n : fs[j].entry \in Entry(b) /\ Serves(h, fs[j].entry.lifetime)
  <2>1. SUFFICES ASSUME NEW j \in 2 .. n
                 PROVE  fs[j].entry \in Entry(b) /\ Serves(h, fs[j].entry.lifetime)
    OBVIOUS
  <2>2. j \in 1 .. n /\ j # 1
    BY <1>1
  <2>3. FrameSound(b, h, c.locks, fs[j]) /\ fs[j].entry # Services!NoEntry
    BY <2>2 DEF ContextSound, FramesSound, Linked
  <2> QED
    BY <2>3 DEF FrameSound, FrameOf
<1>4. ASSUME Makes(b, d, Services!InstanceSetOf(c.via, e), IndexOf(b, e))
      PROVE  FALSE
  <2>1. PICK j \in 2 .. Len(d.frames) :
          /\ d.frames[j].entry.lifetime # "transient"
          /\ Services!InstanceSetOf(d.via, d.frames[j].entry) = Services!InstanceSetOf(c.via, e)
          /\ IndexOf(b, d.frames[j].entry) = IndexOf(b, e)
    BY <1>4 DEF Makes
  <2>2. j \in 2 .. n /\ j # n /\ d.frames[j] = fs[j]
    BY <1>1
  <2>3. PICK f : f = fs[j].entry
    OBVIOUS
  <2>4. /\ f \in Entry(b) /\ e \in Entry(b) /\ f.lifetime # "transient"
        /\ Serves(h, f.lifetime) /\ Serves(h, e.lifetime)
        /\ Services!InstanceSetOf(h, e) = Services!InstanceSetOf(h, f)
        /\ IndexOf(b, e) = IndexOf(b, f)
    BY <1>1, <1>3, <2>1, <2>2, <2>3
  <2>5. e = f
    <3> HIDE DEF h
    <3> QED
      BY <2>4, PlacesDiffer
  <2>6. fs[j].entry.service = fs[n].entry.service
    BY <2>3, <2>5
  <2> QED
    BY <1>1, <2>2, <2>6 DEF ContextSound, FramesSound, Linked
<1> QED
  BY <1>2, <1>4
-----------------------------------------------------------------------------

(* A factory is called for a slot that is empty. *)
OfThreads(cs) == cs = [u \in Thread |-> cs[u]]
FactoryBegins(b, s, r, n, locks, g, i) ==
  /\ g = Services!Root => Services!Root \in locks
  /\ Len(r) = n /\ r[n].locks = locks
  /\ \A k \in 1 .. n : k # n => NoNewMaker(b, s, r, k)
  /\ \A h, j : Makes(b, r[n], h, j) =>
       \/ h = g /\ j = i
       \/ n \in 1 .. Len(s) /\ Makes(b, s[n], h, j) /\ s[n].locks \subseteq locks
MarkedBy(old, locks, g, v) ==
  v.made = 0 /\ v.of = old.of /\ (v.guarded <=> (old.guarded /\ g \in locks))

LEMMA SlotActivated ==
  ASSUME NEW b, AreBindings(b), NEW sets, NEW cs, SlotsSound(b, sets, cs),
         SlotsTyped(b, sets), OfThreads(cs), NEW t \in Thread,
         Services!Root \in DOMAIN sets,
         NEW g \in DOMAIN sets, NEW i \in Places(b, g), sets[g][i].made = 0,
         NEW locks, NEW n \in Nat, NEW r, FactoryBegins(b, cs[t], r, n, locks, g, i),
         NEW v \in SlotType(b), MarkedBy(sets[g][i], locks, g, v),
         NEW more, more = Put(sets, g, i, v)
  PROVE  /\ SlotsTyped(b, more) /\ DOMAIN more = DOMAIN sets
         /\ SlotsSound(b, more, [cs EXCEPT ![t] = r])
         /\ Remains(b, DOMAIN sets, sets, more)
<1> USE DEF OfThreads, FactoryBegins, MarkedBy
<1> DEFINE ds == [cs EXCEPT ![t] = r]
<1>1. /\ SlotsTyped(b, more) /\ DOMAIN more = DOMAIN sets /\ more[g][i] = v
      /\ \A h \in DOMAIN sets : \A j \in Places(b, h) :
           h # g \/ j # i => more[h][j] = sets[h][j]
  <2>1. LET m == Put(sets, g, i, v)
        IN /\ SlotsTyped(b, m) /\ DOMAIN m = DOMAIN sets /\ m[g][i] = v
           /\ \A h \in DOMAIN sets : \A j \in Places(b, h) :
                h # g \/ j # i => m[h][j] = sets[h][j]
    BY SlotPut
  <2> QED
    BY <2>1
<1>2. \A h \in DOMAIN sets : \A j \in Places(b, h) :
        more[h][j].made = sets[h][j].made /\ more[h][j].of = sets[h][j].of
  <2>1. SUFFICES ASSUME NEW h \in DOMAIN sets, NEW j \in Places(b, h)
                 PROVE  more[h][j].made = sets[h][j].made /\ more[h][j].of = sets[h][j].of
    OBVIOUS
  <2>2. CASE h = g /\ j = i
    BY <1>1, <2>2
  <2>3. CASE ~(h = g /\ j = i)
    BY <1>1, <2>3
  <2> QED
    BY <2>2, <2>3
<1>3. Remains(b, DOMAIN sets, sets, more)
  <2>1. SUFFICES ASSUME NEW h \in DOMAIN sets, NEW x \in Entry(b), x.lifetime # "transient",
                        Serves(h, x.lifetime), Created(b, sets, h, x)
                 PROVE  Created(b, more, h, x)
    BY DEF Remains
  <2>2. Services!InstanceSetOf(h, x) \in {Services!Root, h}
        /\ IndexOf(b, x) \in Places(b, Services!InstanceSetOf(h, x))
    BY <2>1, PlaceIs
  <2> QED
    BY <1>2, <2>1, <2>2 DEF Created
<1>4. ASSUME NEW h \in DOMAIN sets, NEW j \in Places(b, h), ~(h = g /\ j = i)
      PROVE  MakersSound(b, more, ds, h, j)
  <2>1. MakersSound(b, sets, cs, h, j)
    BY DEF SlotsSound
  <2>2. more[h][j].made = sets[h][j].made /\ more[h][j].guarded = sets[h][j].guarded
    BY <1>1, <1>4
  <2>3. ASSUME NEW k \in 1 .. Len(r), Makes(b, r[k], h, j)
        PROVE  /\ k \in 1 .. Len(cs[t]) /\ Makes(b, cs[t][k], h, j)
               /\ cs[t][k].locks \subseteq r[k].locks
    BY <1>4, <2>3 DEF NoNewMaker
  <2>4. \A u \in Thread : \A k \in Nat : Maker(b, ds, u, k, h, j) =>
          Maker(b, cs, u, k, h, j) /\ cs[u][k].locks \subseteq ds[u][k].locks
    BY <2>3, NobodyElseMakes
  <2> HIDE DEF ds
  <2> QED
    BY <2>1, <2>2, <2>4, MakersStay
<1>5. MakersSound(b, more, ds, g, i)
  <2>1. MakersSound(b, sets, cs, g, i) /\ more[g][i] = v
    BY <1>1 DEF SlotsSound
  <2>2. g = Services!Root => v.guarded
    BY <2>1 DEF MakersSound
  <2>3. ASSUME v.guarded, NEW u \in Thread, NEW k \in Nat, Maker(b, ds, u, k, g, i)
        PROVE  g \in ds[u][k].locks
    <3>1. ds[t] = r /\ \A w \in Thread : w # t => ds[w] = cs[w]
      OBVIOUS
    <3>2. \A w \in Thread : \A l \in Nat : Maker(b, cs, w, l, g, i) => g \in cs[w][l].locks
      BY <2>1, <2>3 DEF MakersSound
    <3> HIDE DEF ds
    <3>3. CASE u # t
      BY <2>3, <3>1, <3>2, <3>3 DEF Maker
    <3>4. CASE u = t /\ k = n
      BY <2>3, <3>1, <3>4
    <3>5. CASE u = t /\ k # n
      <4>1. k \in 1 .. n /\ Makes(b, r[k], g, i)
        BY <2>3, <3>1, <3>5 DEF Maker
      <4>2. k \in 1 .. Len(cs[t]) /\ Makes(b, cs[t][k], g, i) /\ cs[t][k].locks \subseteq r[k].locks
        BY <3>5, <4>1 DEF NoNewMaker
      <4> QED
        BY <3>1, <3>2, <3>5, <4>2 DEF Maker
    <3> QED
      BY <3>3, <3>4, <3>5
  <2>4. more[g][i].made = 0 /\ (g = Services!Root => more[g][i].guarded)
    BY <2>1, <2>2
  <2> HIDE DEF ds
  <2>5. more[g][i].guarded =>
          /\ more[g][i].made < 2
          /\ \A u \in Thread : \A k \in Nat : Maker(b, ds, u, k, g, i) =>
               more[g][i].made = 0 /\ g \in ds[u][k].locks
    BY <2>1, <2>3, <2>4
  <2>6. more[g][i].made # 1 /\ more[g][i].made # 2
    BY <2>4
  <2> QED
    BY <2>4, <2>5, <2>6 DEF MakersSound
<1>6. ASSUME NEW h \in DOMAIN sets, NEW j \in Places(b, h)
      PROVE  MakersSound(b, more, ds, h, j) /\ MadeFor(b, more, h, j)
  <2>1. MadeFor(b, sets, h, j)
    BY DEF SlotsSound
  <2>2. more[h][j].made = sets[h][j].made /\ more[h][j].of = sets[h][j].of
    BY <1>2
  <2>3. MadeFor(b, more, h, j)
    BY <1>3, <2>1, <2>2, MadeStays
  <2>4. MakersSound(b, more, ds, h, j)
    BY <1>4, <1>5
  <2> QED
    BY <2>3, <2>4
<1>7. SlotsSound(b, more, ds)
  <2> HIDE DEF ds
  <2> QED
    BY <1>1, <1>6 DEF SlotsSound
<1> QED
  BY <1>1, <1>3, <1>7

(* Three factories do not run for one slot at a time, as each holds one of  *)
(* the two mutexes that cover it. *)
AllSound(b, providers, cs) == \A u \in Thread : StackSound(b, providers, cs[u])

LEMMA TwoAtMost ==
  ASSUME NEW b, AreBindings(b), NEW providers, NEW cs, OneHolder(cs),
         AllSound(b, providers, cs), NEW h, NEW i,
         NEW t \in Thread, NEW u \in Thread, NEW v \in Thread,
         NEW n \in Nat, NEW k \in Nat, NEW l \in Nat,
         Maker(b, cs, t, n, h, i), Maker(b, cs, u, k, h, i), Maker(b, cs, v, l, h, i),
         ~(t = u /\ n = k), ~(t = v /\ n = l)
  PROVE  u = v /\ k = l
<1>1. ASSUME NEW w \in Thread, NEW j \in Nat, Maker(b, cs, w, j, h, i)
      PROVE  /\ j \in 1 .. Len(cs[w]) /\ h \in Holder
             /\ Services!Root \in cs[w][j].locks \/ h \in cs[w][j].locks
  <2>1. j \in 1 .. Len(cs[w]) /\ Makes(b, cs[w][j], h, i)
    BY <1>1 DEF Maker
  <2>2. ContextSound(b, providers, cs[w][j])
    BY <2>1 DEF StackSound, AllSound
  <2>3. PICK c : c = cs[w][j]
    OBVIOUS
  <2>4. h \in Holder /\ (Services!Root \in c.locks \/ h \in c.locks)
    BY <2>1, <2>2, <2>3, MakerHolds
  <2> QED
    BY <2>1, <2>3, <2>4
<1>2. Services!Root \in Holder
  BY DEF Holder
<1>3. /\ n \in 1 .. Len(cs[t]) /\ k \in 1 .. Len(cs[u]) /\ l \in 1 .. Len(cs[v])
      /\ h \in Holder
      /\ Services!Root \in cs[t][n].locks \/ h \in cs[t][n].locks
      /\ Services!Root \in cs[u][k].locks \/ h \in cs[u][k].locks
      /\ Services!Root \in cs[v][l].locks \/ h \in cs[v][l].locks
  BY <1>1
<1>4. \A m \in {Services!Root, h} :
        /\ m \in cs[t][n].locks /\ m \in cs[u][k].locks => t = u /\ n = k
        /\ m \in cs[t][n].locks /\ m \in cs[v][l].locks => t = v /\ n = l
        /\ m \in cs[u][k].locks /\ m \in cs[v][l].locks => u = v /\ k = l
  BY <1>2, <1>3 DEF OneHolder
<1> QED
  BY <1>3, <1>4

(* A factory returns, and the instance is put into its slot. *)
FilledBy(b, old, e, v) ==
  /\ v.made = old.made + 1 /\ v.of = e /\ v.guarded = old.guarded
  /\ v.made \in 0 .. 2 => v \in SlotType(b)

LEMMA SlotConstructed ==
  ASSUME NEW b, AreBindings(b), NEW providers, NEW sets, NEW cs, SlotsSound(b, sets, cs),
         SlotsTyped(b, sets), OfThreads(cs), OneHolder(cs),
         AllSound(b, providers, cs), NEW t \in Thread,
         Services!Root \in DOMAIN sets, NEW g \in DOMAIN sets, NEW i \in Places(b, g),
         NEW n \in Nat, NEW r, Len(r) = n, NoNewMakers(b, cs[t], r),
         Maker(b, cs, t, n, g, i), ~Makes(b, r[n], g, i),
         NEW e \in Entry(b), e.lifetime = LifetimeFor(g), IndexOf(b, e) = i,
         \A x \in Prerequisites(b, g, e) : Created(b, sets, g, x),
         NEW v, FilledBy(b, sets[g][i], e, v), NEW more, more = Put(sets, g, i, v)
  PROVE  /\ SlotsTyped(b, more) /\ DOMAIN more = DOMAIN sets
         /\ SlotsSound(b, more, [cs EXCEPT ![t] = r])
         /\ Remains(b, DOMAIN sets, sets, more)
         /\ more[g][i].made > 0
<1> USE DEF OfThreads, FilledBy
<1> DEFINE ds == [cs EXCEPT ![t] = r]
<1>1. MakersSound(b, sets, cs, g, i) /\ sets[g][i] \in SlotType(b)
  BY DEF SlotsSound, SlotsTyped
<1>2. sets[g][i].made \in 0 .. 1
  <2>1. sets[g][i].made \in 0 .. 2
    BY <1>1 DEF SlotType
  <2>2. sets[g][i].made # 2
    BY <1>1 DEF MakersSound
  <2> QED
    BY <2>1, <2>2
<1>3. v.made \in 1 .. 2 /\ v \in SlotType(b)
  BY <1>2
<1>4. /\ SlotsTyped(b, more) /\ DOMAIN more = DOMAIN sets /\ more[g][i] = v
      /\ \A h \in DOMAIN sets : \A j \in Places(b, h) :
           h # g \/ j # i => more[h][j] = sets[h][j]
  <2>1. LET m == Put(sets, g, i, v)
        IN /\ SlotsTyped(b, m) /\ DOMAIN m = DOMAIN sets /\ m[g][i] = v
           /\ \A h \in DOMAIN sets : \A j \in Places(b, h) :
                h # g \/ j # i => m[h][j] = sets[h][j]
    BY <1>3, SlotPut
  <2> QED
    BY <2>1
<1>5. Remains(b, DOMAIN sets, sets, more)
  <2>1. SUFFICES ASSUME NEW h \in DOMAIN sets, NEW x \in Entry(b), x.lifetime # "transient",
                        Serves(h, x.lifetime), Created(b, sets, h, x)
                 PROVE  Created(b, more, h, x)
    BY DEF Remains
  <2> DEFINE f == Services!InstanceSetOf(h, x)  j == IndexOf(b, x)
  <2>2. f \in DOMAIN sets /\ j \in Places(b, f)
    BY <2>1, PlaceIs
  <2>3. sets[f][j].made > 0
    BY <2>1 DEF Created
  <2> HIDE DEF f, j
  <2>4. more[f][j].made > 0
    BY <1>3, <1>4, <2>2, <2>3
  <2> QED
    BY <2>4 DEF Created, f, j
<1>6. \A u \in Thread : \A k \in Nat : \A h, j : Maker(b, ds, u, k, h, j) =>
        Maker(b, cs, u, k, h, j) /\ cs[u][k].locks \subseteq ds[u][k].locks
  <2>1. SUFFICES ASSUME NEW u \in Thread, NEW k \in Nat, NEW h, NEW j,
                        Maker(b, ds, u, k, h, j)
                 PROVE  /\ Maker(b, cs, u, k, h, j)
                        /\ cs[u][k].locks \subseteq ds[u][k].locks
    OBVIOUS
  <2>2. \A l \in 1 .. Len(r) : Makes(b, r[l], h, j) =>
          /\ l \in 1 .. Len(cs[t]) /\ Makes(b, cs[t][l], h, j)
          /\ cs[t][l].locks \subseteq r[l].locks
    BY DEF NoNewMakers, NoNewMaker
  <2> QED
    BY <2>1, <2>2, NobodyElseMakes
<1>7. ASSUME NEW u \in Thread, NEW k \in Nat, Maker(b, ds, u, k, g, i)
      PROVE  /\ ~(t = u /\ n = k) /\ Maker(b, cs, u, k, g, i)
  <2>1. ds[t] = r
    OBVIOUS
  <2> QED
    BY <1>6, <1>7, <2>1 DEF Maker
<1> HIDE DEF ds
<1>8. ASSUME NEW h \in DOMAIN sets, NEW j \in Places(b, h), ~(h = g /\ j = i)
      PROVE  MakersSound(b, more, ds, h, j) /\ MadeFor(b, more, h, j)
  <2>1. MakersSound(b, sets, cs, h, j) /\ MadeFor(b, sets, h, j)
    BY DEF SlotsSound
  <2>2. /\ more[h][j].made = sets[h][j].made /\ more[h][j].guarded = sets[h][j].guarded
        /\ more[h][j].of = sets[h][j].of
    BY <1>4, <1>8
  <2>3. MadeFor(b, more, h, j)
    BY <1>5, <2>1, <2>2, MadeStays
  <2>4. MakersSound(b, more, ds, h, j)
    BY <1>6, <2>1, <2>2, MakersStay
  <2> QED
    BY <2>3, <2>4
<1>9. MakersSound(b, more, ds, g, i)
  <2>1. more[g][i].made = v.made /\ more[g][i].guarded = sets[g][i].guarded
    BY <1>4
  <2>2. g = Services!Root => more[g][i].guarded
    BY <1>1, <2>1 DEF MakersSound
  <2>3. ASSUME NEW u \in Thread, NEW w \in Thread, NEW k \in Nat, NEW l \in Nat,
               Maker(b, ds, u, k, g, i), Maker(b, ds, w, l, g, i)
        PROVE  u = w /\ k = l
    <3>1. /\ ~(t = u /\ n = k) /\ Maker(b, cs, u, k, g, i)
          /\ ~(t = w /\ n = l) /\ Maker(b, cs, w, l, g, i)
      BY <1>7, <2>3
    <3> QED
      BY <3>1, TwoAtMost
  <2>4. ASSUME more[g][i].made = 2, NEW u \in Thread, NEW k \in Nat,
               Maker(b, ds, u, k, g, i)
        PROVE  FALSE
    <3>1. sets[g][i].made = 1
      BY <1>2, <2>1, <2>4
    <3>2. ~(t = u /\ n = k) /\ Maker(b, cs, u, k, g, i)
      BY <1>7, <2>4
    <3> QED
      BY <1>1, <3>1, <3>2 DEF MakersSound
  <2>5. ASSUME more[g][i].guarded
        PROVE  /\ sets[g][i].made = 0
               /\ \A u \in Thread : \A k \in Nat : ~Maker(b, ds, u, k, g, i)
    <3>1. sets[g][i].guarded
      BY <2>1, <2>5
    <3>2. /\ sets[g][i].made = 0
          /\ \A u \in Thread : \A k \in Nat : Maker(b, cs, u, k, g, i) => g \in cs[u][k].locks
      BY <1>1, <3>1 DEF MakersSound
    <3>3. ASSUME NEW u \in Thread, NEW k \in Nat, Maker(b, ds, u, k, g, i)
          PROVE  FALSE
      <4>1. ~(t = u /\ n = k) /\ Maker(b, cs, u, k, g, i)
        BY <1>7, <3>3
      <4>2. g \in cs[u][k].locks /\ g \in cs[t][n].locks
        BY <3>2, <4>1
      <4>3. /\ k \in 1 .. Len(cs[u]) /\ n \in 1 .. Len(cs[t])
            /\ Makes(b, cs[t][n], g, i)
        BY <4>1 DEF Maker
      <4>4. PICK c : c = cs[t][n]
        OBVIOUS
      <4>5. ContextSound(b, providers, c) /\ Makes(b, c, g, i)
        BY <4>3, <4>4 DEF StackSound, AllSound
      <4>6. g \in Holder
        BY <4>5, MakerHolds
      <4> QED
        BY <4>1, <4>2, <4>3, <4>6 DEF OneHolder
    <3> QED
      BY <3>2, <3>3
  <2>6. more[g][i].guarded =>
          /\ more[g][i].made < 2
          /\ \A u \in Thread : \A k \in Nat : Maker(b, ds, u, k, g, i) =>
               more[g][i].made = 0 /\ g \in ds[u][k].locks
    BY <2>1, <2>5
  <2> QED
    BY <2>2, <2>3, <2>4, <2>6 DEF MakersSound
<1>10. MadeFor(b, more, g, i)
  <2>1. more[g][i].of = e /\ g \in DOMAIN sets
    BY <1>4
  <2>2. ASSUME NEW x \in Prerequisites(b, g, e)
        PROVE  Created(b, more, g, x)
    BY <1>5, <2>2, PrerequisitesAre DEF Remains
  <2> QED
    BY <2>1, <2>2 DEF MadeFor
<1>11. SlotsSound(b, more, ds)
  <2>1. \A h \in DOMAIN sets : \A j \in Places(b, h) :
          MakersSound(b, more, ds, h, j) /\ MadeFor(b, more, h, j)
    BY <1>8, <1>9, <1>10
  <2> QED
    BY <1>4, <2>1 DEF SlotsSound
<1>12. more[g][i].made > 0
  BY <1>3, <1>4
<1> QED
  BY <1>4, <1>5, <1>11, <1>12 DEF ds

-----------------------------------------------------------------------------
(* Services: the inductive invariant of resolution. *)

ResolutionInv ==
  /\ AreBindings(bindings) /\ script \in Seq(Services!Registration)
  /\ DOMAIN slots \subseteq Holder
  /\ Services!Root \notin DOMAIN slots => DOMAIN slots = {}
  /\ SlotsTyped(bindings, slots)
  /\ AllSound(bindings, DOMAIN slots, contexts)
  /\ \A t \in Thread : StackAwaits(bindings, slots, contexts[t])
  /\ SlotsSound(bindings, slots, contexts)

(* What a thread is about to do *)
LEMMA ThreadIs ==
  ASSUME ServicesInv, ResolutionInv, NEW t \in Thread, Services!Busy(t)
  PROVE  LET s == contexts[t]
         IN /\ IsStack(s) /\ s # <<>> /\ StackSound(bindings, DOMAIN slots, s)
            /\ StackAwaits(bindings, slots, s)
            /\ Services!Current(t) = s[Len(s)]
            /\ Services!Top(t) = Services!Last(s[Len(s)].frames)
            /\ Len(s) \in Nat /\ Len(s) >= 1 /\ IsContext(s[Len(s)])
            /\ ContextSound(bindings, DOMAIN slots, s[Len(s)])
            /\ Services!Root \in DOMAIN slots
            /\ Services!FramesDone(t) = Advanced(s[Len(s)].frames)
<1> DEFINE s == contexts[t]
<1>1. IsStack(s) /\ s # <<>>
  BY DEF ServicesInv, Services!Busy
<1>2. StackSound(bindings, DOMAIN slots, s) /\ StackAwaits(bindings, slots, s)
  BY DEF ResolutionInv, AllSound
<1>3. /\ Len(s) \in Nat /\ Len(s) >= 1 /\ Services!Last(s) = s[Len(s)]
      /\ IsContext(s[Len(s)]) /\ ContextSound(bindings, DOMAIN slots, s[Len(s)])
  <2> HIDE DEF s
  <2> QED
    BY <1>1, <1>2, TopIs
<1>4. Services!Current(t) = s[Len(s)]
  BY <1>3 DEF Services!Current
<1>5. Services!Top(t) = Services!Last(s[Len(s)].frames)
  BY <1>4 DEF Services!Top
<1>6. s[Len(s)].via \in DOMAIN slots
  BY <1>3 DEF ContextSound
<1>7. Services!Root \in DOMAIN slots
  BY <1>6 DEF ResolutionInv
<1>8. Services!FramesDone(t) = Advanced(s[Len(s)].frames)
  BY <1>4, <1>5 DEF Services!FramesDone, Services!TopDone, Advanced
<1> QED
  BY <1>1, <1>2, <1>3, <1>4, <1>5, <1>7, <1>8

LEMMA WithFramesIs ==
  ASSUME ServicesInv, NEW t \in Thread, NEW c, IsContext(c), NEW f
  PROVE  Services!WithFrames(t, c, f) =
           [contexts EXCEPT ![t] =
              WithTop(contexts[t], [via |-> c.via, locks |-> c.locks, frames |-> f])]
<1>1. [c EXCEPT !.frames = f] = [via |-> c.via, locks |-> c.locks, frames |-> f]
  BY DEF IsContext
<1>2. contexts = [u \in Thread |-> contexts[u]]
  BY DEF ServicesInv
<1> QED
  BY <1>1, <1>2 DEF Services!WithFrames, Services!WithContext, WithTop

(* The next job of a thread *)
LEMMA JobIs ==
  ASSUME NEW b, NEW providers, NEW c, ContextSound(b, providers, c),
         Services!Last(c.frames).todo # <<>>,
         NEW job, job = Head(Services!Last(c.frames).todo)
  PROVE  /\ job \in JobOf(b) /\ JobFits(b, c.via, job)
         /\ job.do = "activate" => Suffices(job.entry.lifetime, c.via, c.locks)
<1> DEFINE fs == c.frames  m == Len(fs)  todo == fs[m].todo
<1>1. fs \in Seq(FrameOf(b)) /\ fs # <<>>
  BY DEF ContextSound, FramesSound
<1>2. m \in 1 .. m /\ Services!Last(fs) = fs[m]
  BY <1>1, EmptySeq DEF Services!Last
<1>3. FrameSound(b, c.via, c.locks, fs[m])
  BY <1>2 DEF ContextSound, FramesSound
<1>4. JobsFit(b, c.via, todo) /\ Prepared(todo, c.via, c.locks) /\ todo # <<>>
  BY <1>2, <1>3 DEF FrameSound
<1>5. job = Head(todo)
  BY <1>2
<1> HIDE DEF todo
<1>6. todo \in Seq(JobOf(b))
  BY <1>4 DEF JobsFit
<1>7. 1 \in 1 .. Len(todo) /\ job = todo[1] /\ job \in JobOf(b)
  BY <1>4, <1>5, <1>6, EmptySeq
<1>8. \A x : ~LockedBefore(todo, 1, x)
  BY DEF LockedBefore
<1>9. job.do = "activate" => Suffices(job.entry.lifetime, c.via, c.locks)
  BY <1>4, <1>7, <1>8 DEF Prepared, Suffices
<1> QED
  BY <1>4, <1>7, <1>9 DEF JobsFit

(* What other threads wait for is not taken away. *)
LEMMA AwaitsRemain ==
  ASSUME NEW b, AreBindings(b), NEW providers, NEW sets, NEW more,
         Remains(b, providers, sets, more), NEW s, StackSound(b, providers, s),
         StackAwaits(b, sets, s)
  PROVE  StackAwaits(b, more, s)
<1>1. SUFFICES ASSUME NEW k \in 1 .. Len(s), NEW j \in 2 .. Len(s[k].frames),
                      NEW x \in Prerequisites(b, s[k].via, s[k].frames[j].entry)
               PROVE  Created(b, more, s[k].via, x) \/ FrameAwaits(s, k, j, x)
  BY DEF StackAwaits
<1>2. Created(b, sets, s[k].via, x) \/ FrameAwaits(s, k, j, x)
  BY DEF StackAwaits
<1>3. x \in Entry(b) /\ x.lifetime # "transient" /\ Serves(s[k].via, x.lifetime)
  BY PrerequisitesAre
<1>4. s[k].via \in providers
  BY DEF StackSound, ContextSound
<1> QED
  BY <1>2, <1>3, <1>4 DEF Remains

(* A step of one thread *)
LEMMA ThreadStep ==
  ASSUME ServicesInv, ResolutionInv, NEW t \in Thread, NEW r,
         contexts' = [contexts EXCEPT ![t] = r], bindings' = bindings, script' = script,
         NEW more, slots' = more, DOMAIN more = DOMAIN slots,
         StackSound(bindings, DOMAIN slots, r), StackAwaits(bindings, more, r),
         SlotsTyped(bindings, more), SlotsSound(bindings, more, [contexts EXCEPT ![t] = r]),
         Remains(bindings, DOMAIN slots, slots, more)
  PROVE  ResolutionInv'
<1>1. contexts'[t] = r /\ \A u \in Thread : u # t => contexts'[u] = contexts[u]
  BY DEF ServicesInv
<1>2. AllSound(bindings, DOMAIN slots, contexts')
  BY <1>1 DEF ResolutionInv, AllSound
<1>3. ASSUME NEW u \in Thread
      PROVE  StackAwaits(bindings, more, contexts'[u])
  <2>1. CASE u = t
    BY <1>1, <2>1
  <2>2. CASE u # t
    <3>1. /\ AreBindings(bindings) /\ StackSound(bindings, DOMAIN slots, contexts[u])
          /\ StackAwaits(bindings, slots, contexts[u])
      BY DEF ResolutionInv, AllSound
    <3>2. StackAwaits(bindings, more, contexts[u])
      BY <3>1, AwaitsRemain
    <3> QED
      BY <1>1, <2>2, <3>2
  <2> QED
    BY <2>1, <2>2
<1>4. SlotsSound(bindings, more, contexts')
  OBVIOUS
<1> QED
  BY <1>2, <1>3, <1>4 DEF ResolutionInv

(* ... that makes nothing *)
LEMMA QuietStep ==
  ASSUME ServicesInv, ResolutionInv, NEW t \in Thread, NEW r,
         contexts' = [contexts EXCEPT ![t] = r], bindings' = bindings, script' = script,
         slots' = slots,
         StackSound(bindings, DOMAIN slots, r), StackAwaits(bindings, slots, r),
         NoNewMakers(bindings, contexts[t], r)
  PROVE  ResolutionInv'
<1>1. /\ AreBindings(bindings) /\ SlotsSound(bindings, slots, contexts)
      /\ contexts = [u \in Thread |-> contexts[u]] /\ SlotsTyped(bindings, slots)
  BY DEF ResolutionInv, ServicesInv
<1>2. SlotsSound(bindings, slots, [contexts EXCEPT ![t] = r])
  BY <1>1, SlotsStay
<1>3. Remains(bindings, DOMAIN slots, slots, slots)
  BY DEF Remains
<1>4. PICK more : more = slots
  OBVIOUS
<1>5. /\ slots' = more /\ DOMAIN more = DOMAIN slots
      /\ StackAwaits(bindings, more, r) /\ SlotsTyped(bindings, more)
      /\ SlotsSound(bindings, more, [contexts EXCEPT ![t] = r])
      /\ Remains(bindings, DOMAIN slots, slots, more)
  BY <1>1, <1>2, <1>3, <1>4
<1> QED
  BY <1>5, ThreadStep

(* A context that is opened for a binding locks the mutex first. *)
Own(h, e) ==
  CASE e.lifetime = "singleton" -> <<Services!Lock(Services!Root)>>
    [] e.lifetime = "scoped" -> <<Services!Lock(h)>>
    [] e.lifetime = "transient" -> <<>>

LEMMA ShortSequences ==
  ASSUME NEW S, NEW x \in S, NEW y \in S
  PROVE  /\ <<>> \o <<y>> \in Seq(S) /\ Len(<<>> \o <<y>>) = 1 /\ (<<>> \o <<y>>)[1] = y
         /\ <<x>> \o <<y>> \in Seq(S) /\ Len(<<x>> \o <<y>>) = 2
         /\ (<<x>> \o <<y>>)[1] = x /\ (<<x>> \o <<y>>)[2] = y
<1>1. <<>> \in Seq(S) /\ <<x>> \in Seq(S) /\ <<y>> \in Seq(S)
  OBVIOUS
<1>2. Len(<<>>) = 0 /\ Len(<<x>>) = 1 /\ Len(<<y>>) = 1 /\ <<x>>[1] = x /\ <<y>>[1] = y
  OBVIOUS
<1> DEFINE q == <<x>> \o <<y>>  r == <<>> \o <<y>>
<1>3. q \in Seq(S) /\ Len(q) = 2 /\ q[1] = x /\ q[2] = y
  BY <1>1, <1>2
<1>4. r \in Seq(S) /\ Len(r) = 1 /\ r[1] = y
  BY <1>1, <1>2
<1> QED
  BY <1>3, <1>4

LEMMA OwnLocks ==
  ASSUME NEW b, NEW h \in Holder, NEW e \in Entry(b), Serves(h, e.lifetime)
  PROVE  LET todo == Own(h, e) \o <<Services!Activate(e)>>
         IN JobsFit(b, h, todo) /\ Prepared(todo, h, {}) /\ Activates(todo, e)
<1> DEFINE todo == Own(h, e) \o <<Services!Activate(e)>>  act == Services!Activate(e)
<1>1. act \in JobOf(b) /\ act.do = "activate" /\ act.entry = e /\ JobFits(b, h, act)
  BY ActivateFits
<1>2. e.lifetime \in {"singleton", "scoped", "transient"}
  BY DEF Entry, Services!Lifetime
<1>3. CASE e.lifetime = "transient"
  <2>1. Own(h, e) = <<>>
    BY <1>3 DEF Own
  <2> HIDE DEF act
  <2>2. todo = <<>> \o <<act>>
    BY <2>1 DEF act
  <2>3. /\ <<>> \o <<act>> \in Seq(JobOf(b)) /\ Len(<<>> \o <<act>>) = 1
        /\ (<<>> \o <<act>>)[1] = act
    BY <1>1, ShortSequences
  <2>4. todo \in Seq(JobOf(b)) /\ Len(todo) = 1 /\ todo[1] = act
    BY <2>2, <2>3
  <2> HIDE DEF todo
  <2>5. \A p \in 1 .. 1 : p = 1
    OBVIOUS
  <2>6. JobsFit(b, h, todo) /\ Prepared(todo, h, {})
    BY <1>1, <1>3, <2>4, <2>5 DEF JobsFit, Prepared
  <2>7. Activates(todo, e)
    BY <2>4 DEF Activates, act
  <2> QED
    BY <2>6, <2>7 DEF todo
<1>4. CASE e.lifetime # "transient"
  <2>1. PICK m : m = IF e.lifetime = "singleton" THEN Services!Root ELSE h
    OBVIOUS
  <2>2. /\ m \in {Services!Root, h}
        /\ e.lifetime = "singleton" => m = Services!Root
        /\ e.lifetime # "singleton" => m = h /\ e.lifetime = "scoped"
    BY <1>2, <1>4, <2>1
  <2> DEFINE lock == Services!Lock(m)
  <2>3. /\ lock \in JobOf(b) /\ lock.do = "lock" /\ lock.mutex = m /\ JobFits(b, h, lock)
    BY <2>2, LockFits
  <2>4. Own(h, e) = <<lock>>
    BY <2>2 DEF Own
  <2> HIDE DEF act, lock
  <2>5. todo = <<lock>> \o <<act>>
    BY <2>4 DEF act
  <2>6. /\ <<lock>> \o <<act>> \in Seq(JobOf(b)) /\ Len(<<lock>> \o <<act>>) = 2
        /\ (<<lock>> \o <<act>>)[1] = lock /\ (<<lock>> \o <<act>>)[2] = act
    BY <1>1, <2>3, ShortSequences
  <2>7. /\ todo \in Seq(JobOf(b)) /\ Len(todo) = 2 /\ todo[1] = lock /\ todo[2] = act
    BY <2>5, <2>6
  <2> HIDE DEF todo
  <2>8. \A p \in 1 .. 2 : p = 1 \/ p = 2
    OBVIOUS
  <2>9. JobsFit(b, h, todo)
    BY <1>1, <2>3, <2>7, <2>8 DEF JobsFit
  <2>10. LockedBefore(todo, 2, m)
    <3>1. 1 \in 1 .. 2 - 1
      OBVIOUS
    <3> QED
      BY <2>3, <2>7, <3>1 DEF LockedBefore
  <2>11. Prepared(todo, h, {})
    <3>1. SUFFICES ASSUME NEW p \in 1 .. Len(todo), todo[p].do = "activate"
                   PROVE  /\ todo[p].entry.lifetime = "singleton" =>
                               LockedBefore(todo, p, Services!Root)
                          /\ todo[p].entry.lifetime = "scoped" =>
                               LockedBefore(todo, p, h)
      BY DEF Prepared
    <3>2. p = 2
      BY <2>3, <2>7, <2>8, <3>1
    <3> QED
      BY <1>1, <2>2, <2>7, <2>10, <3>2
  <2>12. Activates(todo, e)
    BY <2>7 DEF Activates, act
  <2> QED
    BY <2>9, <2>11, <2>12 DEF todo
<1> QED
  BY <1>3, <1>4

(* A job is done, by a context that may have locked a mutex for it. *)
LEMMA JobDoneIs ==
  ASSUME ServicesInv, ResolutionInv, NEW t \in Thread, Services!Busy(t),
         Services!Top(t).todo # <<>>, NEW c, IsContext(c), c.via = Services!Current(t).via,
         Services!Current(t).locks \subseteq c.locks,
         c.locks \subseteq {Services!Root, c.via},
         Services!Job(t).do = "lock" => Services!Job(t).mutex \in c.locks
  PROVE  LET s == contexts[t]  n == Len(contexts[t])
             d == [via |-> c.via, locks |-> c.locks, frames |-> Services!FramesDone(t)]
             r == WithTop(s, d)
         IN /\ Services!WithFrames(t, c, Services!FramesDone(t)) = [contexts EXCEPT ![t] = r]
            /\ IsStack(r) /\ StackSound(bindings, DOMAIN slots, r) /\ Len(r) = n
            /\ \A k \in 1 .. n - 1 : r[k] = s[k]
            /\ r[n].via = s[n].via /\ r[n].frames = Advanced(s[n].frames)
            /\ NoNewMakers(bindings, s, r)
<1> DEFINE s == contexts[t]  n == Len(s)
           d == [via |-> c.via, locks |-> c.locks, frames |-> Services!FramesDone(t)]
           r == WithTop(s, d)
<1>1. /\ IsStack(s) /\ s # <<>> /\ StackSound(bindings, DOMAIN slots, s)
      /\ Services!Current(t) = s[n] /\ Services!Top(t) = Services!Last(s[n].frames)
      /\ Services!FramesDone(t) = Advanced(s[n].frames)
  BY ThreadIs
<1>2. Services!WithFrames(t, c, Services!FramesDone(t)) = [contexts EXCEPT ![t] = r]
  BY WithFramesIs
<1>3. /\ IsContext(d) /\ d.via = s[n].via /\ d.locks = c.locks
      /\ d.frames = Advanced(s[n].frames)
  BY <1>1 DEF IsContext
<1>4. /\ s[n].locks \subseteq d.locks /\ d.locks \subseteq {Services!Root, d.via}
      /\ Services!Last(s[n].frames).todo # <<>>
      /\ Head(Services!Last(s[n].frames).todo).do = "lock" =>
           Head(Services!Last(s[n].frames).todo).mutex \in d.locks
  BY <1>1, <1>3 DEF Services!Job
<1> HIDE DEF d, s
<1>5. /\ ContextSound(bindings, DOMAIN slots, d)
      /\ \A g, i : Makes(bindings, d, g, i) => Makes(bindings, s[Len(s)], g, i)
  BY <1>1, <1>3, <1>4, ContextAdvances
<1>6. LET q == WithTop(s, d)
      IN /\ IsStack(q) /\ StackSound(bindings, DOMAIN slots, q) /\ Len(q) = Len(s)
         /\ q[Len(s)] = d
         /\ \A k \in 1 .. Len(s) - 1 : q[k] = s[k] /\ NoNewMaker(bindings, s, q, k)
  BY <1>1, <1>3, <1>5, TopBecomes
<1>7. NoNewMakers(bindings, s, WithTop(s, d))
  BY <1>1, <1>3, <1>4, <1>5, NobodyBegins
<1> QED
  BY <1>2, <1>3, <1>6, <1>7 DEF d, s

(* A context in which the next job is done, with the mutexes it has then,   *)
(* and a job that leaves nothing to do *)
Carries(t, c) ==
  /\ IsContext(c) /\ c.via = Services!Current(t).via
  /\ Services!Current(t).locks \subseteq c.locks
  /\ c.locks \subseteq {Services!Root, c.via}
  /\ Services!Job(t).do = "lock" => Services!Job(t).mutex \in c.locks
Satisfied(b, sets, h, job) ==
  /\ job # Services!Throw
  /\ \A x \in Entry(b) : x.lifetime # "transient" /\ Serves(h, x.lifetime) =>
       (job = Services!Activate(x) \/ job = Services!Open(x, TRUE) => Created(b, sets, h, x))

LEMMA LocksAreSatisfied ==
  ASSUME NEW b, NEW sets, NEW h, NEW job, job.do = "lock"
  PROVE  Satisfied(b, sets, h, job)
<1>1. job # Services!Throw
  <2>1. Services!Throw.do = "throw"
    BY DEF Services!Throw
  <2> QED
    BY <2>1
<1>2. ASSUME NEW x PROVE job # Services!Activate(x) /\ job # Services!Open(x, TRUE)
  <2>1. Services!Activate(x).do = "activate" /\ Services!Open(x, TRUE).do = "open"
    BY DEF Services!Activate, Services!Open
  <2> QED
    BY <2>1
<1> QED
  BY <1>1, <1>2 DEF Satisfied

LEMMA JobDoneResolves ==
  ASSUME ServicesInv, ResolutionInv, NEW t \in Thread, Services!Busy(t),
         Services!Top(t).todo # <<>>, NEW c, Carries(t, c),
         Satisfied(bindings, slots, c.via, Services!Job(t)),
         contexts' = Services!WithFrames(t, c, Services!FramesDone(t)),
         UNCHANGED <<bindings, script, slots>>
  PROVE  ResolutionInv'
<1> DEFINE s == contexts[t]  n == Len(contexts[t])
           d == [via |-> c.via, locks |-> c.locks, frames |-> Services!FramesDone(t)]
           r == WithTop(s, d)
<1>1. /\ IsStack(s) /\ s # <<>> /\ StackSound(bindings, DOMAIN slots, s)
      /\ StackAwaits(bindings, slots, s)
      /\ Services!Current(t) = s[n] /\ Services!Top(t) = Services!Last(s[n].frames)
      /\ n \in Nat /\ n >= 1
  BY ThreadIs
<1>2. /\ Services!WithFrames(t, c, Services!FramesDone(t)) = [contexts EXCEPT ![t] = r]
      /\ IsStack(r) /\ StackSound(bindings, DOMAIN slots, r) /\ Len(r) = n
      /\ \A k \in 1 .. n - 1 : r[k] = s[k]
      /\ r[n].via = s[n].via /\ r[n].frames = Advanced(s[n].frames)
      /\ NoNewMakers(bindings, s, r)
  BY JobDoneIs DEF Carries
<1>3. AreBindings(bindings)
  BY DEF ResolutionInv
<1>4. StackAwaits(bindings, slots, r)
  <2> DEFINE job == Services!Job(t)
  <2>1. JobGone(s, r, job)
    BY <1>1, <1>2 DEF Services!Job, JobGone
  <2>2. JobGiven(bindings, slots, s, r, job)
    BY <1>1 DEF Given, Carries, Satisfied, JobGiven
  <2> HIDE DEF s, r, job
  <2> QED
    BY <1>1, <1>3, <2>1, <2>2, JobIsDone DEF n, s
<1>5. contexts' = [contexts EXCEPT ![t] = r]
  BY <1>2
<1> HIDE DEF r
<1> QED
  BY <1>2, <1>4, <1>5, QuietStep

(* A mutex is locked. *)
LEMMA AcquireResolves ==
  ASSUME ServicesInv, ResolutionInv, NEW t \in Thread, Services!Acquire(t)
  PROVE  ResolutionInv'
<1> DEFINE c == Services!Current(t)  job == Services!Job(t)  m == job.mutex
           all == c.locks \cup {m}
           d == [via |-> c.via, locks |-> all, frames |-> c.frames]
<1>1. /\ Services!Busy(t) /\ Services!Top(t).todo # <<>> /\ job.do = "lock"
      /\ UNCHANGED <<bindings, script, slots>>
  BY DEF Services!Acquire, Services!Due, Services!Job
<1>2. /\ IsContext(c) /\ ContextSound(bindings, DOMAIN slots, c)
      /\ Services!Top(t) = Services!Last(c.frames)
  BY <1>1, ThreadIs
<1>3. m \in {Services!Root, c.via} /\ c.locks \subseteq {Services!Root, c.via}
  <2>1. Services!Last(c.frames).todo # <<>> /\ job = Head(Services!Last(c.frames).todo)
    BY <1>1, <1>2 DEF Services!Job
  <2> HIDE DEF c, job
  <2>2. JobFits(bindings, c.via, job)
    BY <1>2, <2>1, JobIs
  <2> QED
    BY <1>1, <1>2, <2>2 DEF JobFits, ContextSound
<1>4. Satisfied(bindings, slots, c.via, job)
  <2> HIDE DEF job, c
  <2> QED
    BY <1>1, LocksAreSatisfied
<1>5. /\ contexts' = Services!WithFrames(t, c, Services!FramesDone(t)) /\ m \in c.locks
      \/ contexts' = Services!WithFrames(t, [c EXCEPT !.locks = all], Services!FramesDone(t))
  BY DEF Services!Acquire, Services!JobDone
<1>6. [c EXCEPT !.locks = all] = d
  BY <1>2 DEF IsContext
<1>7. IsContext(d) /\ d.via = c.via /\ d.locks = all
  BY DEF IsContext
<1> HIDE DEF d, all, m
<1>8. c.locks \subseteq all /\ m \in all /\ all \subseteq {Services!Root, c.via}
  BY <1>3 DEF all
<1>9. CASE contexts' = Services!WithFrames(t, c, Services!FramesDone(t)) /\ m \in c.locks
  <2>1. Carries(t, c)
    BY <1>2, <1>3, <1>9 DEF Carries, m
  <2> QED
    BY <1>1, <1>4, <1>9, <2>1, JobDoneResolves
<1>10. CASE contexts' = Services!WithFrames(t, d, Services!FramesDone(t))
  <2>1. Carries(t, d)
    BY <1>7, <1>8 DEF Carries, m
  <2>2. Satisfied(bindings, slots, d.via, Services!Job(t))
    BY <1>4, <1>7
  <2> QED
    BY <1>1, <1>10, <2>1, <2>2, JobDoneResolves
<1> QED
  BY <1>5, <1>6, <1>9, <1>10

LEMMA CreatedIs ==
  ASSUME NEW h, NEW e
  PROVE  Services!IsAlreadyCreated(h, e) <=>
           e.lifetime # "transient" /\ Created(bindings, slots, h, e)
  BY IndexesAgree DEF Services!IsAlreadyCreated, Services!SlotOf, Created

(* A context that is opened *)
LEMMA ContextIs ==
  ASSUME NEW b, NEW providers, NEW h, h \in providers, h \in Holder,
         NEW todo, JobsFit(b, h, todo), Prepared(todo, h, {})
  PROVE  LET c == Services!Context(h, Services!Frame(Services!NoEntry, todo))
         IN /\ IsContext(c) /\ ContextSound(b, providers, c) /\ c.via = h
            /\ Len(c.frames) = 1 /\ c.frames[1].todo = todo /\ c.locks = {}
<1> DEFINE f == Services!Frame(Services!NoEntry, todo)  fs == <<f>>
           c == Services!Context(h, f)
<1>1. FramesSound(b, h, {}, fs)
  BY FirstFrame
<1>2. f.todo = todo
  BY DEF Services!Frame
<1> HIDE DEF f
<1>3. Len(fs) = 1 /\ fs[1] = f
  OBVIOUS
<1>4. c = [via |-> h, locks |-> {}, frames |-> fs]
  BY DEF Services!Context
<1> HIDE DEF c, fs
<1>5. IsContext(c) /\ c.via = h /\ c.locks = {} /\ c.frames = fs
  BY <1>4 DEF IsContext
<1>6. ContextSound(b, providers, c)
  BY <1>1, <1>5 DEF ContextSound
<1> QED
  BY <1>2, <1>3, <1>5, <1>6 DEF c, f

(* A presence flag is looked at; a context is opened if it is not set. *)
LEMMA PeekResolves ==
  ASSUME ServicesInv, ResolutionInv, NEW t \in Thread, Services!Peek(t)
  PROVE  ResolutionInv'
<1> DEFINE s == contexts[t]  n == Len(s)  c == Services!Current(t)  job == Services!Job(t)
           e == job.entry  h == c.via
           own == Own(h, e)  todo == own \o <<Services!Activate(e)>>
           top == Services!Context(h, Services!Frame(Services!NoEntry, todo))
           d == [via |-> c.via, locks |-> c.locks, frames |-> Services!FramesDone(t)]
           q == WithTop(s, d)
           r == Append(q, top)
<1>1. /\ Services!Busy(t) /\ Services!Top(t).todo # <<>> /\ job.do = "open"
      /\ UNCHANGED <<bindings, script, slots>>
  BY DEF Services!Peek, Services!Due, Services!Job
<1>2. /\ IsStack(s) /\ s # <<>> /\ StackSound(bindings, DOMAIN slots, s)
      /\ StackAwaits(bindings, slots, s)
      /\ n \in Nat /\ n >= 1 /\ c = s[n]
      /\ IsContext(c) /\ ContextSound(bindings, DOMAIN slots, c)
      /\ Services!Top(t) = Services!Last(c.frames)
  BY <1>1, ThreadIs
<1>3. e \in Entry(bindings) /\ Serves(h, e.lifetime)
  <2>1. Services!Last(c.frames).todo # <<>> /\ job = Head(Services!Last(c.frames).todo)
    BY <1>1, <1>2 DEF Services!Job
  <2>2. JobFits(bindings, h, job)
    <3> HIDE DEF c, job
    <3> QED
      BY <1>2, <2>1, JobIs
  <2> QED
    BY <1>1, <2>2 DEF JobFits
<1>4. Carries(t, c)
  BY <1>1, <1>2 DEF Carries, ContextSound
<1>5. \/ /\ job.peek /\ Services!IsAlreadyCreated(h, e)
         /\ contexts' = Services!WithFrames(t, c, Services!FramesDone(t))
      \/ contexts' = [contexts EXCEPT ![t] =
           Append(Services!WithFrames(t, c, Services!FramesDone(t))[t], top)]
  BY DEF Services!Peek, Services!JobDone, Own
<1>6. CASE /\ job.peek /\ Services!IsAlreadyCreated(h, e)
           /\ contexts' = Services!WithFrames(t, c, Services!FramesDone(t))
  <2>1. Created(bindings, slots, h, e)
    BY <1>6, CreatedIs
  <2>2. /\ job # Services!Throw
        /\ \A x : /\ job # Services!Activate(x)
                  /\ job = Services!Open(x, TRUE) => e = x
    <3> HIDE DEF job
    <3> QED
      BY <1>1, JobsDiffer
  <2>3. Satisfied(bindings, slots, c.via, job)
    BY <2>1, <2>2 DEF Satisfied
  <2> QED
    BY <1>1, <1>4, <1>6, <2>3, JobDoneResolves
<1>7. CASE contexts' = [contexts EXCEPT ![t] =
             Append(Services!WithFrames(t, c, Services!FramesDone(t))[t], top)]
  <2>1. /\ Services!WithFrames(t, c, Services!FramesDone(t)) = [contexts EXCEPT ![t] = q]
        /\ IsStack(q) /\ StackSound(bindings, DOMAIN slots, q) /\ Len(q) = n
        /\ \A k \in 1 .. n - 1 : q[k] = s[k]
        /\ q[n].via = s[n].via /\ q[n].frames = Advanced(s[n].frames)
        /\ NoNewMakers(bindings, s, q)
    BY <1>1, <1>4, JobDoneIs DEF Carries
  <2>2. contexts' = [contexts EXCEPT ![t] = r]
    <3>1. [contexts EXCEPT ![t] = q][t] = q
      BY DEF ServicesInv
    <3> QED
      BY <1>7, <2>1, <3>1
  <2>3. h \in DOMAIN slots /\ h \in Holder
    BY <1>2 DEF ContextSound
  <2>4. JobsFit(bindings, h, todo) /\ Prepared(todo, h, {}) /\ Activates(todo, e)
    <3> HIDE DEF e, h
    <3> QED
      BY <1>3, <2>3, OwnLocks
  <2>5. /\ IsContext(top) /\ ContextSound(bindings, DOMAIN slots, top) /\ top.via = h
        /\ Len(top.frames) = 1 /\ top.frames[1].todo = todo
    <3> HIDE DEF h, todo
    <3> QED
      BY <2>3, <2>4, ContextIs
  <2>6. Pending(top.frames, 1, e)
    BY <2>4, <2>5 DEF Pending
  <2>7. AreBindings(bindings)
    BY DEF ResolutionInv
  <2> HIDE DEF top, q
  <2>8. /\ IsStack(r) /\ StackSound(bindings, DOMAIN slots, r) /\ Len(r) = n + 1
        /\ r[n + 1] = top /\ \A k \in 1 .. n : r[k] = q[k]
        /\ NoNewMakers(bindings, q, r)
    <3>1. LET p == Append(q, top)
          IN /\ IsStack(p) /\ StackSound(bindings, DOMAIN slots, p) /\ Len(p) = Len(q) + 1
             /\ p[Len(q) + 1] = top /\ \A k \in 1 .. Len(q) : p[k] = q[k]
             /\ NoNewMakers(bindings, q, p)
      BY <2>1, <2>5, ContextOpens
    <3> QED
      BY <2>1, <3>1
  <2> HIDE DEF r
  <2>9. NoNewMakers(bindings, s, r)
    <3>1. Len(s) \in Nat /\ Len(q) \in Nat /\ Len(r) \in Nat
      BY <1>2, <2>1, <2>8
    <3> HIDE DEF s
    <3> QED
      BY <2>1, <2>8, <3>1, NobodyBeginsTwice
  <2>10. JobGone(s, r, job)
    <3>1. /\ \A k \in 1 .. n - 1 : r[k] = s[k]
          /\ r[n].via = s[n].via /\ r[n].frames = Advanced(s[n].frames)
      BY <1>2, <2>1, <2>8
    <3>2. Len(r) = n + 1 /\ Len(r[n + 1].frames) = 1
      BY <2>5, <2>8
    <3>3. /\ Services!Last(s[n].frames).todo # <<>>
          /\ job = Head(Services!Last(s[n].frames).todo)
      BY <1>1, <1>2 DEF Services!Job
    <3> QED
      BY <3>1, <3>2, <3>3 DEF JobGone
  <2>11. JobGiven(bindings, slots, s, r, job)
    <3>1. /\ job # Services!Throw
          /\ \A x : /\ job # Services!Activate(x)
                    /\ job = Services!Open(x, TRUE) => e = x
      <4> HIDE DEF job
      <4> QED
        BY <1>1, JobsDiffer
    <3>2. Given(bindings, slots, s, r, e)
      BY <1>2, <2>5, <2>6, <2>8 DEF Given
    <3> QED
      BY <3>1, <3>2 DEF JobGiven
  <2>12. StackAwaits(bindings, slots, r)
    <3> HIDE DEF s, job
    <3> QED
      BY <1>2, <2>7, <2>10, <2>11, JobIsDone DEF n
  <2> QED
    BY <1>1, <2>2, <2>8, <2>9, <2>12, QuietStep
<1> QED
  BY <1>5, <1>6, <1>7

(* The stack of a thread in which a factory has been called *)
Called(b, providers, sets, s, r, e) ==
  /\ StackSound(b, providers, r) /\ Len(r) = Len(s)
  /\ r[Len(s)].locks = s[Len(s)].locks
  /\ \A k \in 1 .. Len(s) - 1 : NoNewMaker(b, s, r, k)
  /\ \A h, i : Makes(b, r[Len(s)], h, i) =>
       \/ Makes(b, s[Len(s)], h, i)
       \/ /\ e.lifetime # "transient"
          /\ Services!InstanceSetOf(s[Len(s)].via, e) = h /\ IndexOf(b, e) = i
  /\ \A more : Remains(b, providers, sets, more) => StackAwaits(b, more, r)

LEMMA ActivateIs ==
  ASSUME ServicesInv, ResolutionInv, NEW t \in Thread, Services!Busy(t),
         Services!Top(t).todo # <<>>, Services!Job(t).do = "activate"
  PROVE  LET s == contexts[t]  c == s[Len(s)]  e == Services!Job(t).entry
         IN /\ e \in Entry(bindings) /\ Serves(c.via, e.lifetime)
            /\ Suffices(e.lifetime, c.via, c.locks)
            /\ Services!Last(c.frames).todo # <<>>
            /\ Services!Job(t) = Head(Services!Last(c.frames).todo)
<1> DEFINE s == contexts[t]  c == s[Len(s)]  job == Services!Job(t)
<1>1. /\ ContextSound(bindings, DOMAIN slots, c)
      /\ Services!Top(t) = Services!Last(c.frames)
  BY ThreadIs
<1>2. Services!Last(c.frames).todo # <<>> /\ job = Head(Services!Last(c.frames).todo)
  BY <1>1 DEF Services!Job
<1>3. JobFits(bindings, c.via, job) /\ Suffices(job.entry.lifetime, c.via, c.locks)
  <2>1. job.do = "activate"
    OBVIOUS
  <2> HIDE DEF c, job
  <2> QED
    BY <1>1, <1>2, <2>1, JobIs
<1> QED
  BY <1>2, <1>3 DEF JobFits

(* The cycle check: the service is not constructed in this context yet. *)
LEMMA NotConstructed ==
  ASSUME ServicesInv, ResolutionInv, NEW t \in Thread, Services!Busy(t),
         NEW e \in Entry(bindings), e.service \notin Services!UnderConstruction(t)
  PROVE  LET s == contexts[t]
         IN \A j \in 2 .. Len(s[Len(s)].frames) :
              s[Len(s)].frames[j].entry.service # e.service
<1> DEFINE s == contexts[t]  c == s[Len(s)]
<1>1. ContextSound(bindings, DOMAIN slots, c) /\ Services!Current(t) = c
  BY ThreadIs
<1>2. c.frames \in Seq(FrameOf(bindings)) /\ DOMAIN c.frames = 1 .. Len(c.frames)
  BY <1>1 DEF ContextSound, FramesSound
<1>3. e.service # 0
  BY ConcurrentAssumption DEF ConcurrentAssumption, Services!ServicesAssumption, Entry
<1> HIDE DEF c
<1>4. ASSUME NEW j \in 2 .. Len(c.frames), c.frames[j].entry.service = e.service
      PROVE  FALSE
  <2>1. j \in DOMAIN c.frames
    BY <1>2
  <2> QED
    BY <1>1, <1>3, <1>4, <2>1 DEF Services!UnderConstruction
<1> QED
  BY <1>4 DEF c

(* What the innermost context is when a factory has been called in it *)
ContextCalling(b, s, job, e, g, c) ==
  /\ Services!Last(s[Len(s)].frames).todo # <<>>
  /\ job = Head(Services!Last(s[Len(s)].frames).todo)
  /\ job.do = "activate" /\ job.entry = e
  /\ \A j \in 2 .. Len(s[Len(s)].frames) : s[Len(s)].frames[j].entry.service # e.service
  /\ g.entry = e /\ FrameSound(b, s[Len(s)].via, s[Len(s)].locks, g)
  /\ \A x \in Prerequisites(b, s[Len(s)].via, e) : Ensured(g.todo, x)
  /\ IsContext(c) /\ c.via = s[Len(s)].via /\ c.locks = s[Len(s)].locks
  /\ c.frames = Append(Advanced(s[Len(s)].frames), g)

LEMMA CallIs ==
  ASSUME NEW b, AreBindings(b), NEW providers, NEW sets, NEW s, IsStack(s), s # <<>>,
         StackSound(b, providers, s), StackAwaits(b, sets, s),
         NEW job, NEW e \in Entry(b), NEW g, NEW c, ContextCalling(b, s, job, e, g, c)
  PROVE  Called(b, providers, sets, s, WithTop(s, c), e)
<1> DEFINE n == Len(s)  fs == s[n].frames  m == Len(fs)  h == s[n].via
<1>1. /\ n \in Nat /\ n >= 1 /\ m \in Nat /\ ContextSound(b, providers, s[n])
  BY TopIs
<1>2. /\ Services!Last(fs).todo # <<>> /\ job = Head(Services!Last(fs).todo)
      /\ job.do = "activate" /\ job.entry = e
      /\ \A j \in 2 .. m : fs[j].entry.service # e.service
      /\ g.entry = e /\ FrameSound(b, h, s[n].locks, g)
      /\ IsContext(c) /\ c.via = h /\ c.locks = s[n].locks
      /\ c.frames = Append(Advanced(fs), g)
  BY DEF ContextCalling
<1>3. /\ ContextSound(b, providers, c)
      /\ Len(c.frames) = m + 1 /\ c.frames[m + 1] = g
      /\ \A j \in 1 .. m : c.frames[j].entry = fs[j].entry
  BY <1>2, ContextCalls
<1> DEFINE r == WithTop(s, c)
<1>4. /\ IsStack(r) /\ StackSound(b, providers, r) /\ Len(r) = n
      /\ r[n] = c
      /\ \A k \in 1 .. n - 1 : r[k] = s[k] /\ NoNewMaker(b, s, r, k)
  BY <1>2, <1>3, TopBecomes
<1> HIDE DEF r
<1>5. ASSUME NEW i, NEW k, Makes(b, r[n], k, i)
      PROVE  \/ Makes(b, s[n], k, i)
             \/ e.lifetime # "transient" /\ Services!InstanceSetOf(h, e) = k /\ IndexOf(b, e) = i
  <2> DEFINE a == s[n]
  <2>1. /\ c.via = a.via /\ Len(a.frames) \in Nat /\ Len(c.frames) = Len(a.frames) + 1
        /\ \A j \in 1 .. Len(a.frames) : c.frames[j].entry = a.frames[j].entry
        /\ c.frames[Len(a.frames) + 1].entry = e /\ Makes(b, c, k, i)
    BY <1>1, <1>2, <1>3, <1>4, <1>5
  <2>2. a.via = h /\ a = s[n]
    OBVIOUS
  <2> HIDE DEF a, h, r
  <2>3. \/ Makes(b, a, k, i)
        \/ e.lifetime # "transient" /\ Services!InstanceSetOf(a.via, e) = k /\ IndexOf(b, e) = i
    BY <2>1, OneMoreMakes
  <2> QED
    BY <2>2, <2>3
<1>6. FrameAdded(b, s, r, e, g)
  <2>1. ASSUME NEW j \in 1 .. m, NEW x
        PROVE  /\ Pending(fs, j, x) => Pending(r[n].frames, j, x)
               /\ Delegates(fs[j].todo, x) => Delegates(r[n].frames[j].todo, x)
    <3>1. FramesSound(b, h, s[n].locks, fs)
      BY <1>1 DEF ContextSound
    <3> HIDE DEF fs, h
    <3>2. LET more == Append(Advanced(fs), g)
          IN /\ Pending(fs, j, x) => Pending(more, j, x)
             /\ Delegates(fs[j].todo, x) => Delegates(more[j].todo, x)
      BY <1>2, <3>1, ActivationLeaves
    <3> QED
      BY <1>2, <1>4, <3>2
  <2>2. \A x \in Prerequisites(b, h, e) : Ensured(g.todo, x)
    BY DEF ContextCalling
  <2> QED
    BY <1>1, <1>2, <1>3, <1>4, <2>1, <2>2 DEF FrameAdded
<1>7. ASSUME NEW more, Remains(b, providers, sets, more)
      PROVE  StackAwaits(b, more, r)
  BY <1>1, <1>6, <1>7, FactoryIsCalled
<1> QED
  BY <1>2, <1>4, <1>5, <1>7 DEF Called, r

(* A factory is called ... *)
LEMMA CallIsMade ==
  ASSUME ServicesInv, ResolutionInv, NEW t \in Thread, Services!Busy(t),
         Services!Top(t).todo # <<>>, Services!Job(t).do = "activate",
         NEW e, e = Services!Job(t).entry, e.service \notin Services!UnderConstruction(t),
         contexts' = Services!WithFrames(t, Services!Current(t),
           Append(Services!FramesDone(t),
                  Services!Frame(e, Services!Construction(t, e))))
  PROVE  \E r : /\ contexts' = [contexts EXCEPT ![t] = r]
                /\ Called(bindings, DOMAIN slots, slots, contexts[t], r, e)
<1> DEFINE s == contexts[t]  n == Len(s)  c == s[n]  h == c.via  job == Services!Job(t)
           g == Services!Frame(e, Services!Construction(t, e))
           f == Append(Services!FramesDone(t), g)
           d == [via |-> h, locks |-> c.locks, frames |-> f]
<1>1. /\ IsStack(s) /\ s # <<>> /\ StackSound(bindings, DOMAIN slots, s)
      /\ StackAwaits(bindings, slots, s)
      /\ Services!Current(t) = c /\ n \in Nat /\ n >= 1 /\ IsContext(c)
      /\ ContextSound(bindings, DOMAIN slots, c)
      /\ Services!FramesDone(t) = Advanced(c.frames)
  BY ThreadIs
<1>2. /\ e \in Entry(bindings) /\ Serves(h, e.lifetime)
      /\ Suffices(e.lifetime, h, c.locks)
      /\ Services!Last(c.frames).todo # <<>> /\ job = Head(Services!Last(c.frames).todo)
  BY ActivateIs
<1>3. \A j \in 2 .. Len(c.frames) : c.frames[j].entry.service # e.service
  BY <1>2, NotConstructed
<1>4. AreBindings(bindings)
  BY DEF ResolutionInv
<1>5. /\ FrameSound(bindings, h, c.locks, g) /\ g.entry = e
      /\ \A x \in Prerequisites(bindings, h, e) : Ensured(g.todo, x)
  <2> DEFINE a == Services!Current(t)  locks == c.locks
  <2>1. a.via \in Holder /\ Serves(a.via, e.lifetime) /\ Suffices(e.lifetime, a.via, locks)
    BY <1>1, <1>2 DEF ContextSound
  <2> HIDE DEF locks
  <2>2. LET k == Services!Current(t).via
            p == Services!Frame(e, Services!Construction(t, e))
        IN /\ FrameSound(bindings, k, locks, p) /\ p.entry = e
           /\ \A x \in Prerequisites(bindings, k, e) : Ensured(p.todo, x)
    BY <1>2, <1>4, <2>1, ConstructionIs
  <2> QED
    BY <1>1, <2>2 DEF locks
<1>6. contexts' = [contexts EXCEPT ![t] = WithTop(s, d)]
  <2>1. contexts' = Services!WithFrames(t, c, f) /\ IsContext(c)
    BY <1>1
  <2> HIDE DEF f, c
  <2> QED
    BY <2>1, WithFramesIs
<1>7. IsContext(d) /\ d.via = h /\ d.locks = c.locks /\ d.frames = Append(Advanced(c.frames), g)
  BY <1>1 DEF IsContext
<1>8. ContextCalling(bindings, s, job, e, g, d)
  <2> HIDE DEF d, g
  <2> QED
    BY <1>2, <1>3, <1>5, <1>7 DEF ContextCalling
<1>9. Called(bindings, DOMAIN slots, slots, s, WithTop(s, d), e)
  <2> HIDE DEF d, g, s, job
  <2> QED
    BY <1>1, <1>2, <1>4, <1>8, CallIs
<1> QED
  BY <1>6, <1>9

(* ... for a transient service, *)
LEMMA TransientIsCalled ==
  ASSUME ServicesInv, ResolutionInv, NEW t \in Thread, Services!Busy(t),
         NEW e, e.lifetime = "transient", NEW r, contexts' = [contexts EXCEPT ![t] = r],
         Called(bindings, DOMAIN slots, slots, contexts[t], r, e),
         UNCHANGED <<bindings, script, slots>>
  PROVE  ResolutionInv'
<1> DEFINE s == contexts[t]
<1>1. StackSound(bindings, DOMAIN slots, r) /\ NoNewMakers(bindings, s, r)
  <2>1. Len(s) \in Nat /\ Len(s) >= 1
    BY ThreadIs
  <2> DEFINE n == Len(s)
  <2>2. StackSound(bindings, DOMAIN slots, r) /\ Len(r) = n /\ r[n].locks = s[n].locks
    BY DEF Called
  <2>3. ASSUME NEW k \in 1 .. n PROVE NoNewMaker(bindings, s, r, k)
    <3>1. CASE k = n
      <4>1. \A h, i : Makes(bindings, r[n], h, i) => Makes(bindings, s[n], h, i)
        BY DEF Called
      <4> QED
        BY <2>1, <2>2, <3>1, <4>1 DEF NoNewMaker
    <3>2. CASE k # n
      BY <2>1, <3>2 DEF Called
    <3> QED
      BY <3>1, <3>2
  <2> QED
    BY <2>2, <2>3 DEF NoNewMakers
<1>2. StackAwaits(bindings, slots, r)
  <2>1. Remains(bindings, DOMAIN slots, slots, slots)
    BY DEF Remains
  <2> QED
    BY <2>1 DEF Called
<1> QED
  BY <1>1, <1>2, QuietStep

(* ... or for one that has a slot. *)
LEMMA OwnedIsCalled ==
  ASSUME ServicesInv, ResolutionInv, NEW t \in Thread, Services!Busy(t),
         NEW e \in Entry(bindings), e.lifetime # "transient",
         Serves(Services!Current(t).via, e.lifetime),
         Suffices(e.lifetime, Services!Current(t).via, Services!Current(t).locks),
         ~Services!IsAlreadyCreated(Services!Current(t).via, e),
         NEW r, contexts' = [contexts EXCEPT ![t] = r],
         Called(bindings, DOMAIN slots, slots, contexts[t], r, e),
         NEW g, g = Services!InstanceSetOf(Services!Current(t).via, e),
         slots' = [slots EXCEPT ![g][Services!UniqueServiceIndex(e)].guarded =
                     @ /\ g \in Services!Current(t).locks],
         UNCHANGED <<bindings, script>>
  PROVE  ResolutionInv'
<1> DEFINE s == contexts[t]  n == Len(s)  c == s[n]  h == c.via  i == IndexOf(bindings, e)
           cs == contexts
           v == [made |-> slots[g][i].made, of |-> slots[g][i].of,
                 guarded |-> slots[g][i].guarded /\ g \in c.locks]
           more == Put(slots, g, i, v)
<1>1. /\ Services!Current(t) = c /\ n \in Nat /\ n >= 1
      /\ ContextSound(bindings, DOMAIN slots, c) /\ Services!Root \in DOMAIN slots
  BY ThreadIs
<1>2. AreBindings(bindings) /\ SlotsTyped(bindings, slots) /\ SlotsSound(bindings, slots, cs)
  BY DEF ResolutionInv
<1>3. h \in DOMAIN slots
  BY <1>1 DEF ContextSound
<1>4. /\ g \in DOMAIN slots /\ i \in Places(bindings, g) /\ slots[g][i] \in SlotType(bindings)
      /\ slots[g][i].made = 0
  <2>1. LET p == Services!InstanceSetOf(h, e)  q == IndexOf(bindings, e)
        IN /\ p \in DOMAIN slots /\ q \in Places(bindings, p)
           /\ slots[p][q] \in SlotType(bindings)
           /\ Created(bindings, slots, h, e) <=> slots[p][q].made > 0
    BY <1>1, <1>2, <1>3, MadeOnce
  <2>2. ~Created(bindings, slots, h, e)
    BY <1>1, CreatedIs
  <2>3. slots[g][i].made \in 0 .. 2 /\ ~(slots[g][i].made > 0)
    BY <1>1, <2>1, <2>2 DEF SlotType
  <2> QED
    BY <1>1, <2>1, <2>3
<1>5. slots' = more
  <2>1. slots[g][i] = [made |-> slots[g][i].made, of |-> slots[g][i].of,
                       guarded |-> slots[g][i].guarded]
    BY <1>4 DEF SlotType
  <2>2. [slots[g][i] EXCEPT !.guarded = @ /\ g \in c.locks] = v
    BY <2>1
  <2>3. Services!UniqueServiceIndex(e) = i
    BY IndexesAgree
  <2> HIDE DEF v, i
  <2>4. slots' = [slots EXCEPT ![g][i].guarded = @ /\ g \in c.locks]
    BY <1>1, <2>3
  <2> HIDE DEF c
  <2> QED
    BY <2>2, <2>4 DEF Put
<1>6. /\ v \in SlotType(bindings) /\ v.made = 0 /\ v.of = slots[g][i].of
      /\ v.guarded <=> (slots[g][i].guarded /\ g \in c.locks)
  BY <1>4 DEF SlotType
<1>7. g = Services!Root => Services!Root \in c.locks
  BY <1>1 DEF Suffices, Services!InstanceSetOf, Serves, Entry, Services!Lifetime
<1>8. /\ StackSound(bindings, DOMAIN slots, r) /\ Len(r) = n /\ r[n].locks = c.locks
      /\ \A k \in 1 .. n : k # n => NoNewMaker(bindings, cs[t], r, k)
      /\ \A a, j : Makes(bindings, r[n], a, j) =>
           \/ a = g /\ j = i
           \/ /\ n \in 1 .. Len(cs[t]) /\ Makes(bindings, cs[t][n], a, j)
              /\ cs[t][n].locks \subseteq c.locks
  BY <1>1 DEF Called
<1>9. OfThreads(cs)
  BY DEF ServicesInv, OfThreads
<1>10. /\ SlotsTyped(bindings, more) /\ DOMAIN more = DOMAIN slots
       /\ SlotsSound(bindings, more, [cs EXCEPT ![t] = r])
       /\ Remains(bindings, DOMAIN slots, slots, more)
  <2> DEFINE locks == c.locks
  <2>1. FactoryBegins(bindings, cs[t], r, n, locks, g, i)
    BY <1>7, <1>8 DEF FactoryBegins
  <2>2. MarkedBy(slots[g][i], locks, g, v)
    BY <1>6 DEF MarkedBy
  <2> HIDE DEF locks, v, i, n, cs
  <2> QED
    BY <1>1, <1>2, <1>4, <1>6, <1>9, <2>1, <2>2, SlotActivated DEF more
<1>11. StackAwaits(bindings, more, r)
  BY <1>10 DEF Called
<1> HIDE DEF more
<1> QED
  BY <1>5, <1>8, <1>10, <1>11, ThreadStep

(* A service is activated. *)
LEMMA ActivateResolves ==
  ASSUME ServicesInv, ResolutionInv, NEW t \in Thread, Services!ActivateService(t)
  PROVE  ResolutionInv'
<1> DEFINE c == Services!Current(t)  job == Services!Job(t)  e == job.entry
           g == Services!InstanceSetOf(c.via, e)
<1>1. /\ Services!Busy(t) /\ Services!Top(t).todo # <<>> /\ job.do = "activate"
      /\ UNCHANGED <<bindings, script>>
  BY DEF Services!ActivateService, Services!Due, Services!Job
<1>2. c = contexts[t][Len(contexts[t])] /\ ContextSound(bindings, DOMAIN slots, c) /\ IsContext(c)
  BY <1>1, ThreadIs
<1>3. /\ e \in Entry(bindings) /\ Serves(c.via, e.lifetime)
      /\ Suffices(e.lifetime, c.via, c.locks)
  BY <1>1, <1>2, ActivateIs
<1>4. \/ /\ Services!IsAlreadyCreated(c.via, e)
         /\ contexts' = Services!WithFrames(t, c, Services!FramesDone(t)) /\ slots' = slots
      \/ /\ ~Services!IsAlreadyCreated(c.via, e)
         /\ e.service \notin Services!UnderConstruction(t)
         /\ contexts' = Services!WithFrames(t, c, Append(Services!FramesDone(t),
                          Services!Frame(e, Services!Construction(t, e))))
         /\ slots' = IF e.lifetime = "transient" THEN slots
                     ELSE [slots EXCEPT ![g][Services!UniqueServiceIndex(e)].guarded =
                             @ /\ g \in c.locks]
  BY DEF Services!ActivateService, Services!JobDone
<1>5. CASE /\ Services!IsAlreadyCreated(c.via, e)
           /\ contexts' = Services!WithFrames(t, c, Services!FramesDone(t)) /\ slots' = slots
  <2>1. Created(bindings, slots, c.via, e)
    BY <1>5, CreatedIs
  <2>2. Carries(t, c)
    BY <1>1, <1>2 DEF Carries, ContextSound
  <2>3. /\ job # Services!Throw
        /\ \A x : /\ job # Services!Open(x, TRUE)
                  /\ job = Services!Activate(x) => e = x
    <3> HIDE DEF job
    <3> QED
      BY <1>1, JobsDiffer
  <2>4. Satisfied(bindings, slots, c.via, job)
    BY <2>1, <2>3 DEF Satisfied
  <2> QED
    BY <1>1, <1>5, <2>2, <2>4, JobDoneResolves
<1>6. CASE /\ ~Services!IsAlreadyCreated(c.via, e)
           /\ e.service \notin Services!UnderConstruction(t)
           /\ contexts' = Services!WithFrames(t, c, Append(Services!FramesDone(t),
                            Services!Frame(e, Services!Construction(t, e))))
           /\ slots' = IF e.lifetime = "transient" THEN slots
                       ELSE [slots EXCEPT ![g][Services!UniqueServiceIndex(e)].guarded =
                               @ /\ g \in c.locks]
  <2>1. \E r : /\ contexts' = [contexts EXCEPT ![t] = r]
               /\ Called(bindings, DOMAIN slots, slots, contexts[t], r, e)
    BY <1>1, <1>6, CallIsMade
  <2>2. PICK r : /\ contexts' = [contexts EXCEPT ![t] = r]
                 /\ Called(bindings, DOMAIN slots, slots, contexts[t], r, e)
    BY <2>1
  <2>3. CASE e.lifetime = "transient"
    BY <1>1, <1>6, <2>2, <2>3, TransientIsCalled
  <2>4. CASE e.lifetime # "transient"
    <3>1. slots' = [slots EXCEPT ![g][Services!UniqueServiceIndex(e)].guarded =
                      @ /\ g \in c.locks]
      BY <1>6, <2>4
    <3> QED
      BY <1>1, <1>3, <1>6, <2>2, <2>4, <3>1, OwnedIsCalled
  <2> QED
    BY <2>3, <2>4
<1> QED
  BY <1>4, <1>5, <1>6

(* Everything that a factory asked for is there when it returns. *)
LEMMA PrerequisitesAreThere ==
  ASSUME NEW b, AreBindings(b), NEW sets, NEW s, NEW n \in Nat, Len(s) = n, n >= 1,
         StackAwaits(b, sets, s), NEW h, s[n].via = h,
         NEW m \in Nat, Len(s[n].frames) = m, m >= 2,
         s[n].frames[m].todo = <<>>, NEW e, s[n].frames[m].entry = e,
         NEW g, g \in {Services!Root, h},
         NEW x \in Prerequisites(b, g, e)
  PROVE  Created(b, sets, g, x)
<1>1. x \in Prerequisites(b, h, e)
  BY DEF Prerequisites, Serves
<1>2. Created(b, sets, h, x) \/ FrameAwaits(s, n, m, x)
  BY <1>1 DEF StackAwaits
<1>3. ~FrameAwaits(s, n, m, x)
  BY DEF FrameAwaits, Pending, Activates, Delegates
<1>4. Services!InstanceSetOf(h, x) = Services!InstanceSetOf(g, x)
  <2>1. x \in Entry(b) /\ x.lifetime # "transient" /\ Serves(g, x.lifetime)
    BY PrerequisitesAre
  <2> QED
    BY <2>1 DEF Services!InstanceSetOf, Serves, Entry, Services!Lifetime
<1> QED
  BY <1>2, <1>3, <1>4 DEF Created

(* The stack of a thread in which a factory has returned *)
Returned(b, providers, s, r, e) ==
  /\ StackSound(b, providers, r) /\ Len(r) = Len(s) /\ NoNewMakers(b, s, r)
  /\ e.lifetime # "transient" =>
       /\ Makes(b, s[Len(s)], Services!InstanceSetOf(s[Len(s)].via, e), IndexOf(b, e))
       /\ ~Makes(b, r[Len(s)], Services!InstanceSetOf(s[Len(s)].via, e), IndexOf(b, e))
  /\ e = Services!Last(s[Len(s)].frames).entry /\ e # Services!NoEntry
  /\ \A k \in 1 .. Len(s) - 1 : r[k] = s[k]
  /\ r[Len(s)].via = s[Len(s)].via
  /\ r[Len(s)].frames = Services!Front(s[Len(s)].frames)

LEMMA ReturnIs ==
  ASSUME NEW b, AreBindings(b), NEW providers, NEW s, IsStack(s), s # <<>>,
         StackSound(b, providers, s),
         NEW e, e = Services!Last(s[Len(s)].frames).entry, e # Services!NoEntry,
         NEW c, IsContext(c), c.via = s[Len(s)].via, c.locks = s[Len(s)].locks,
         c.frames = Services!Front(s[Len(s)].frames)
  PROVE  Returned(b, providers, s, WithTop(s, c), e)
<1> DEFINE n == Len(s)  d == s[n]  m == Len(d.frames)  r == WithTop(s, c)
<1>1. /\ n \in Nat /\ n >= 1 /\ ContextSound(b, providers, d) /\ m \in Nat
  BY TopIs
<1>2. /\ ContextSound(b, providers, c)
      /\ \A g, i : Makes(b, c, g, i) => Makes(b, d, g, i)
      /\ m >= 2 /\ Len(c.frames) = m - 1
      /\ \A j \in 1 .. Len(c.frames) : c.frames[j] = d.frames[j]
  BY ContextReturns
<1>3. /\ StackSound(b, providers, r) /\ Len(r) = n /\ r[n] = c
      /\ \A k \in 1 .. n - 1 : r[k] = s[k]
  BY <1>2, TopBecomes
<1>4. NoNewMakers(b, s, r)
  BY <1>2, NobodyBegins
<1>5. e = d.frames[m].entry
  BY <1>1, <1>2 DEF Services!Last, ContextSound, FramesSound
<1>6. ASSUME e.lifetime # "transient"
      PROVE  /\ Makes(b, d, Services!InstanceSetOf(d.via, e), IndexOf(b, e))
             /\ ~Makes(b, c, Services!InstanceSetOf(d.via, e), IndexOf(b, e))
  <2>1. d.via = c.via /\ c.via = d.via
    OBVIOUS
  <2> HIDE DEF d
  <2> QED
    BY <1>1, <1>2, <1>5, <1>6, <2>1, OneFrameMakes
<1> HIDE DEF r
<1> QED
  BY <1>3, <1>4, <1>6 DEF Returned, r

(* What a factory has returned *)
LEMMA ReturningIs ==
  ASSUME ServicesInv, ResolutionInv, NEW t \in Thread, Services!Busy(t),
         Services!Top(t).todo = <<>>, Services!Top(t).entry # Services!NoEntry
  PROVE  LET s == contexts[t]  n == Len(s)  m == Len(s[n].frames)
             e == Services!Top(t).entry
         IN /\ m \in Nat /\ m >= 2 /\ s[n].frames[m] = Services!Top(t)
            /\ e \in Entry(bindings) /\ Serves(s[n].via, e.lifetime)
            /\ e = Services!Last(s[n].frames).entry
<1> DEFINE s == contexts[t]  n == Len(s)  c == s[n]  fs == c.frames  m == Len(fs)
           e == Services!Top(t).entry
<1>1. /\ ContextSound(bindings, DOMAIN slots, c) /\ Services!Top(t) = Services!Last(fs)
  BY ThreadIs
<1>2. /\ FramesSound(bindings, c.via, c.locks, fs)
      /\ Services!Last(fs).entry # Services!NoEntry
  BY <1>1 DEF ContextSound
<1>3. LET k == Len(fs)  less == Services!Front(fs)
      IN /\ FramesSound(bindings, c.via, c.locks, less)
         /\ k \in Nat /\ k >= 2 /\ Len(less) = k - 1 /\ Services!Last(fs) = fs[k]
         /\ \A j \in 1 .. k - 1 : less[j] = fs[j]
  <2> DEFINE h == c.via  locks == c.locks
  <2>1. FramesSound(bindings, h, locks, fs) /\ Services!Last(fs).entry # Services!NoEntry
    BY <1>2
  <2> HIDE DEF h, locks, fs
  <2>2. LET k == Len(fs)  less == Services!Front(fs)
        IN /\ FramesSound(bindings, h, locks, less)
           /\ k \in Nat /\ k >= 2 /\ Len(less) = k - 1 /\ Services!Last(fs) = fs[k]
           /\ \A j \in 1 .. k - 1 : less[j] = fs[j]
    <3>1. FramesSound(bindings, h, locks, Services!Front(fs))
      BY <2>1, FramesShrink
    <3> QED
      BY <2>1, <3>1, FramesShrink
  <2> QED
    BY <2>2 DEF h, locks
<1>4. FrameSound(bindings, c.via, c.locks, fs[m])
  <2>1. m \in 1 .. Len(fs)
    BY <1>3
  <2> QED
    BY <1>2, <2>1 DEF FramesSound
<1>5. fs[m].entry = e
  BY <1>1, <1>3
<1>6. e \in Entry(bindings) /\ Serves(c.via, e.lifetime)
  BY <1>4, <1>5 DEF FrameSound, FrameOf
<1> QED
  BY <1>1, <1>3, <1>6

LEMMA ReturnIsMade ==
  ASSUME ServicesInv, ResolutionInv, NEW t \in Thread, Services!Busy(t),
         Services!Top(t).todo = <<>>, Services!Top(t).entry # Services!NoEntry,
         contexts' = Services!WithFrames(t, Services!Current(t),
                                         Services!Front(Services!Current(t).frames))
  PROVE  \E r : /\ contexts' = [contexts EXCEPT ![t] = r]
                /\ Returned(bindings, DOMAIN slots, contexts[t], r, Services!Top(t).entry)
<1> DEFINE s == contexts[t]  n == Len(s)  c == s[n]  e == Services!Top(t).entry
           f == Services!Front(c.frames)
           d == [via |-> c.via, locks |-> c.locks, frames |-> f]
<1>1. /\ IsStack(s) /\ s # <<>> /\ StackSound(bindings, DOMAIN slots, s)
      /\ Services!Current(t) = c /\ IsContext(c)
  BY ThreadIs
<1>2. e = Services!Last(c.frames).entry
  BY ReturningIs
<1>3. AreBindings(bindings)
  BY DEF ResolutionInv
<1>4. contexts' = [contexts EXCEPT ![t] = WithTop(s, d)]
  <2>1. contexts' = Services!WithFrames(t, c, f) /\ IsContext(c)
    BY <1>1
  <2> HIDE DEF f, c
  <2> QED
    BY <2>1, WithFramesIs
<1>5. IsContext(d) /\ d.via = c.via /\ d.locks = c.locks /\ d.frames = f
  BY DEF IsContext
<1>6. Returned(bindings, DOMAIN slots, s, WithTop(s, d), e)
  <2>1. e # Services!NoEntry
    OBVIOUS
  <2> HIDE DEF d, e, s
  <2> QED
    BY <1>1, <1>2, <1>3, <1>5, <2>1, ReturnIs
<1> QED
  BY <1>4, <1>6

(* A factory of a transient service returns, *)
LEMMA TransientReturns ==
  ASSUME ServicesInv, ResolutionInv, NEW t \in Thread, Services!Busy(t),
         NEW e, e.lifetime = "transient", NEW r, contexts' = [contexts EXCEPT ![t] = r],
         Returned(bindings, DOMAIN slots, contexts[t], r, e),
         UNCHANGED <<bindings, script, slots>>
  PROVE  ResolutionInv'
<1> DEFINE s == contexts[t]
<1>1. /\ StackSound(bindings, DOMAIN slots, s) /\ StackAwaits(bindings, slots, s)
      /\ Len(s) \in Nat /\ Len(s) >= 1
  BY ThreadIs
<1>2. StackSound(bindings, DOMAIN slots, r) /\ NoNewMakers(bindings, s, r)
  BY DEF Returned
<1>3. AreBindings(bindings) /\ Remains(bindings, DOMAIN slots, slots, slots)
  BY DEF ResolutionInv, Remains
<1>4. FrameTaken(bindings, slots, s, r, e)
  BY DEF FrameTaken, Returned
<1>5. StackAwaits(bindings, slots, r)
  <2> HIDE DEF s
  <2> QED
    BY <1>1, <1>3, <1>4, FactoryReturns
<1> QED
  BY <1>2, <1>5, QuietStep

(* ... or one of a service that has a slot. *)
LEMMA SlotFilled ==
  ASSUME NEW b, NEW w, w \in SlotType(b), NEW e
  PROVE  [w EXCEPT !.made = @ + 1, !.of = e]
           = [made |-> w.made + 1, of |-> e, guarded |-> w.guarded]
<1>1. w = [made |-> w.made, of |-> w.of, guarded |-> w.guarded]
  BY DEF SlotType
<1>2. PICK x, y, z : x = w.made /\ y = w.of /\ z = w.guarded
  OBVIOUS
<1>3. w = [made |-> x, of |-> y, guarded |-> z] /\ x \in 0 .. 2
  BY <1>1, <1>2 DEF SlotType
<1>4. PICK u, a : u = [w EXCEPT !.made = @ + 1] /\ a = x + 1
  OBVIOUS
<1>5. [w EXCEPT !.made = @ + 1, !.of = e] = [u EXCEPT !.of = e]
  BY <1>4
<1>6. u = [made |-> a, of |-> y, guarded |-> z]
  BY <1>3, <1>4
<1>7. [u EXCEPT !.of = e] = [made |-> a, of |-> e, guarded |-> z]
  BY <1>6
<1> QED
  BY <1>2, <1>4, <1>5, <1>7

LEMMA OwnedReturns ==
  ASSUME ServicesInv, ResolutionInv, NEW t \in Thread, Services!Busy(t),
         Services!Top(t).todo = <<>>, Services!Top(t).entry # Services!NoEntry,
         NEW e, e = Services!Top(t).entry, e.lifetime # "transient",
         NEW r, contexts' = [contexts EXCEPT ![t] = r],
         Returned(bindings, DOMAIN slots, contexts[t], r, e),
         NEW g, g = Services!InstanceSetOf(Services!Current(t).via, e),
         slots' = [slots EXCEPT ![g][Services!UniqueServiceIndex(e)] =
                     [Services!SlotOf(g, e) EXCEPT !.made = @ + 1, !.of = e]],
         UNCHANGED <<bindings, script>>
  PROVE  ResolutionInv'
<1> DEFINE s == contexts[t]  n == Len(s)  c == s[n]  h == c.via  i == IndexOf(bindings, e)
           cs == contexts  m == Len(c.frames)
           v == [made |-> slots[g][i].made + 1, of |-> e, guarded |-> slots[g][i].guarded]
           more == Put(slots, g, i, v)
<1>1. /\ Services!Current(t) = c /\ n \in Nat /\ n >= 1
      /\ ContextSound(bindings, DOMAIN slots, c) /\ Services!Root \in DOMAIN slots
      /\ StackSound(bindings, DOMAIN slots, s) /\ StackAwaits(bindings, slots, s)
  BY ThreadIs
<1>2. /\ AreBindings(bindings) /\ SlotsTyped(bindings, slots) /\ SlotsSound(bindings, slots, cs)
      /\ AllSound(bindings, DOMAIN slots, cs)
  BY DEF ResolutionInv
<1>3. h \in DOMAIN slots
  BY <1>1 DEF ContextSound
<1>4. /\ m \in Nat /\ m >= 2 /\ c.frames[m] = Services!Top(t)
      /\ e \in Entry(bindings) /\ Serves(h, e.lifetime)
  BY ReturningIs
<1>5. /\ g \in DOMAIN slots /\ i \in Places(bindings, g) /\ slots[g][i] \in SlotType(bindings)
      /\ g \in {Services!Root, h} /\ LifetimeFor(g) = e.lifetime
  <2>1. LET p == Services!InstanceSetOf(h, e)  q == IndexOf(bindings, e)
        IN /\ p \in DOMAIN slots /\ q \in Places(bindings, p)
           /\ slots[p][q] \in SlotType(bindings)
    BY <1>1, <1>2, <1>3, <1>4, MadeOnce
  <2>2. LET p == Services!InstanceSetOf(h, e)
        IN p \in {Services!Root, h} /\ LifetimeFor(p) = e.lifetime
    BY <1>2, <1>4, PlaceIs
  <2> QED
    BY <1>1, <2>1, <2>2
<1>6. slots' = more
  <2>2. [slots[g][i] EXCEPT !.made = @ + 1, !.of = e] = v
    BY <1>5, SlotFilled
  <2>3. Services!UniqueServiceIndex(e) = i
    BY IndexesAgree
  <2> HIDE DEF v, i
  <2>4. PICK w : w = [slots[g][i] EXCEPT !.made = @ + 1, !.of = e]
    OBVIOUS
  <2>5. slots' = [slots EXCEPT ![g][i] = w]
    <3>1. Services!SlotOf(g, e) = slots[g][i]
      BY <2>3 DEF Services!SlotOf, Services!InstanceSetOf
    <3> QED
      BY <2>3, <2>4, <3>1
  <2>6. w = v
    BY <2>2, <2>4
  <2> QED
    BY <2>5, <2>6 DEF Put
<1>7. FilledBy(bindings, slots[g][i], e, v)
  BY <1>4, <1>5 DEF FilledBy, SlotType
<1>8. \A x \in Prerequisites(bindings, g, e) : Created(bindings, slots, g, x)
  <2>1. s[n].via = h /\ s[n].frames[m].todo = <<>> /\ s[n].frames[m].entry = e
        /\ Len(s) = n /\ Len(s[n].frames) = m
    BY <1>4
  <2> HIDE DEF s, n, h, m
  <2> QED
    BY <1>1, <1>2, <1>4, <1>5, <2>1, PrerequisitesAreThere
<1>9. OfThreads(cs) /\ OneHolder(cs)
  BY OneHolds DEF ServicesInv, OfThreads
<1>10. /\ Len(r) = n /\ NoNewMakers(bindings, cs[t], r)
       /\ Makes(bindings, c, g, i) /\ ~Makes(bindings, r[n], g, i)
  BY <1>1 DEF Returned
<1>11. Maker(bindings, cs, t, n, g, i)
  BY <1>1, <1>10 DEF Maker
<1>12. /\ SlotsTyped(bindings, more) /\ DOMAIN more = DOMAIN slots
       /\ SlotsSound(bindings, more, [cs EXCEPT ![t] = r])
       /\ Remains(bindings, DOMAIN slots, slots, more)
       /\ more[g][i].made > 0
  <2>1. e.lifetime = LifetimeFor(g) /\ IndexOf(bindings, e) = i /\ e \in Entry(bindings)
    BY <1>4, <1>5
  <2>2. PICK providers : providers = DOMAIN slots
    OBVIOUS
  <2> HIDE DEF v, i, n, cs
  <2> QED
    BY <1>1, <1>2, <1>5, <1>7, <1>8, <1>9, <1>10, <1>11, <2>1, <2>2, SlotConstructed DEF more
<1>13. Created(bindings, more, h, e)
  BY <1>1, <1>12 DEF Created
<1>14. FrameTaken(bindings, more, s, r, e)
  BY <1>13 DEF FrameTaken, Returned
<1>15. StackAwaits(bindings, more, r)
  <2> HIDE DEF s, more
  <2> QED
    BY <1>1, <1>2, <1>12, <1>14, FactoryReturns DEF n
<1>16. StackSound(bindings, DOMAIN slots, r)
  BY DEF Returned
<1> HIDE DEF more
<1> QED
  BY <1>6, <1>12, <1>15, <1>16, ThreadStep

(* A factory returns. *)
LEMMA ConstructResolves ==
  ASSUME ServicesInv, ResolutionInv, NEW t \in Thread, Services!Construct(t)
  PROVE  ResolutionInv'
<1> DEFINE e == Services!Top(t).entry  g == Services!InstanceSetOf(Services!Current(t).via, e)
<1>1. /\ Services!Busy(t) /\ Services!Top(t).todo = <<>> /\ e # Services!NoEntry
      /\ UNCHANGED <<bindings, script>>
      /\ contexts' = Services!WithFrames(t, Services!Current(t),
                                         Services!Front(Services!Current(t).frames))
  BY DEF Services!Construct
<1>2. PICK r : /\ contexts' = [contexts EXCEPT ![t] = r]
               /\ Returned(bindings, DOMAIN slots, contexts[t], r, e)
  BY <1>1, ReturnIsMade
<1>3. CASE e.lifetime = "transient"
  <2>1. slots' = slots
    BY <1>3 DEF Services!Construct
  <2> QED
    BY <1>1, <1>2, <1>3, <2>1, TransientReturns
<1>4. CASE e.lifetime # "transient"
  <2>1. slots' = [slots EXCEPT ![g][Services!UniqueServiceIndex(e)] =
                    [Services!SlotOf(g, e) EXCEPT !.made = @ + 1, !.of = e]]
    BY <1>4 DEF Services!Construct
  <2> QED
    BY <1>1, <1>2, <1>4, <2>1, OwnedReturns
<1> QED
  BY <1>3, <1>4

(* A context is closed. *)
LEMMA CloseResolves ==
  ASSUME ServicesInv, ResolutionInv, NEW t \in Thread, Services!CloseContext(t)
  PROVE  ResolutionInv'
<1> DEFINE s == contexts[t]  r == Services!Front(s)
<1>1. /\ Services!Busy(t) /\ Services!Top(t).todo = <<>>
      /\ Services!Top(t).entry = Services!NoEntry
      /\ UNCHANGED <<bindings, script, slots>> /\ contexts' = [contexts EXCEPT ![t] = r]
  BY DEF Services!CloseContext
<1>2. /\ IsStack(s) /\ s # <<>> /\ StackSound(bindings, DOMAIN slots, s)
      /\ StackAwaits(bindings, slots, s)
      /\ Services!Last(s[Len(s)].frames).todo = <<>>
      /\ Services!Last(s[Len(s)].frames).entry = Services!NoEntry
  BY <1>1, ThreadIs
<1>3. AreBindings(bindings)
  BY DEF ResolutionInv
<1>4. /\ StackSound(bindings, DOMAIN slots, r) /\ StackAwaits(bindings, slots, r)
      /\ NoNewMakers(bindings, s, r)
  <2> HIDE DEF s
  <2> QED
    BY <1>2, <1>3, ContextCloses
<1> HIDE DEF r
<1> QED
  BY <1>1, <1>4, QuietStep

(* An exception ends all the contexts of a thread. *)
LEMMA UnwindResolves ==
  ASSUME ServicesInv, ResolutionInv, NEW t \in Thread, NEW what, Services!Unwind(t, what)
  PROVE  ResolutionInv'
<1>1. PICK r : r = <<>>
  OBVIOUS
<1>2. /\ StackSound(bindings, DOMAIN slots, r) /\ StackAwaits(bindings, slots, r)
      /\ NoNewMakers(bindings, contexts[t], r)
  BY <1>1, NoContext
<1>3. /\ UNCHANGED <<bindings, script, slots>> /\ contexts' = [contexts EXCEPT ![t] = r]
  BY <1>1 DEF Services!Unwind
<1> QED
  BY <1>2, <1>3, QuietStep

(* The application makes a request. *)
LEMMA RequestResolves ==
  ASSUME ServicesInv, ResolutionInv, NEW t \in Thread, NEW h \in DOMAIN slots,
         NEW s \in Services!Service, NEW method \in {"get", "try", "all", "factory"},
         Services!Request(t, h, method, s)
  PROVE  ResolutionInv'
<1> DEFINE todo == Services!JobsOutside(h, method, s)
           c == Services!Context(h, Services!Frame(Services!NoEntry, todo))
           r == <<c>>
<1>1. /\ UNCHANGED <<bindings, script, slots>> /\ contexts[t] = <<>>
      /\ contexts' = [contexts EXCEPT ![t] = r]
  BY DEF Services!Request, Services!Busy
<1>2. AreBindings(bindings) /\ h \in Holder
  BY DEF ResolutionInv
<1>3. JobsFit(bindings, h, todo) /\ Prepared(todo, h, {})
  BY <1>2, JobsOutsideOpen DEF Opens, Prepared
<1>4. IsContext(c) /\ ContextSound(bindings, DOMAIN slots, c) /\ Len(c.frames) = 1
  <2>1. PICK providers : providers = DOMAIN slots
    OBVIOUS
  <2> HIDE DEF todo
  <2> QED
    BY <1>2, <1>3, <2>1, ContextIs
<1>5. /\ StackSound(bindings, DOMAIN slots, r) /\ StackAwaits(bindings, slots, r)
      /\ NoNewMakers(bindings, contexts[t], r)
  <2> HIDE DEF c
  <2> QED
    BY <1>1, <1>4, OneContext
<1> HIDE DEF r
<1> QED
  BY <1>1, <1>5, QuietStep

(* Whatever a thread does *)
LEMMA ContinueResolves ==
  ASSUME ServicesInv, ResolutionInv, NEW t \in Thread, Services!Continue(t)
  PROVE  ResolutionInv'
<1>1. CASE Services!Peek(t)
  BY <1>1, PeekResolves
<1>2. CASE Services!Acquire(t)
  BY <1>2, AcquireResolves
<1>3. CASE Services!ActivateService(t)
  BY <1>3, ActivateResolves
<1>4. CASE Services!Construct(t)
  BY <1>4, ConstructResolves
<1>5. CASE Services!CloseContext(t)
  BY <1>5, CloseResolves
<1>6. CASE Services!ThrowUnresolved(t) \/ Services!ThrowCyclic(t) \/ Services!FactoryThrows(t)
  BY <1>6, UnwindResolves
  DEF Services!ThrowUnresolved, Services!ThrowCyclic, Services!FactoryThrows
<1> QED
  BY <1>1, <1>2, <1>3, <1>4, <1>5, <1>6 DEF Services!Continue

-----------------------------------------------------------------------------
(* Services: what is registered, and the providers. *)

LEMMA RegisteredAre ==
  ASSUME AreBindings(bindings), NEW op \in Services!Registration
  PROVE  AreBindings(Services!Registered(op))
<1> DEFINE b == Services!Registered(op)
<1>1. op.service \in Services!Service
      /\ (op.lifetime \in Services!Lifetime => op \in Bound)
      /\ (op.lifetime \in Services!Lifetime \/ op.lifetime = "removed")
  BY DEF Services!Registration, Bound, Services!Lifetime
<1>2. /\ bindings \in [Services!Lifetime -> [Services!Service -> Seq(Bound)]]
      /\ \A s \in Services!Service, l, k \in Services!Lifetime :
           bindings[l][s] # <<>> /\ bindings[k][s] # <<>> => l = k
  BY DEF AreBindings
<1>3. b \in [Services!Lifetime -> [Services!Service -> Seq(Bound)]]
  <2>1. ASSUME NEW l \in Services!Lifetime
        PROVE  [bindings[l] EXCEPT ![op.service] =
                  IF l = op.lifetime THEN Append(@, op) ELSE <<>>]
                 \in [Services!Service -> Seq(Bound)]
    <3>1. <<>> \in Seq(Bound) /\ bindings[l] \in [Services!Service -> Seq(Bound)]
      BY <1>2
    <3>2. CASE l = op.lifetime
      <4>1. Append(bindings[l][op.service], op) \in Seq(Bound)
        BY <1>1, <3>1, <3>2
      <4> QED
        BY <3>1, <3>2, <4>1
    <3>3. CASE l # op.lifetime
      BY <3>1, <3>3
    <3> QED
      BY <3>2, <3>3
  <2> QED
    BY <2>1 DEF Services!Registered
<1>4. ASSUME NEW s \in Services!Service, NEW l \in Services!Lifetime
      PROVE  /\ s # op.service => b[l][s] = bindings[l][s]
             /\ s = op.service /\ l # op.lifetime => b[l][s] = <<>>
  BY <1>1, <1>2 DEF Services!Registered
<1> HIDE DEF b
<1>5. ASSUME NEW s \in Services!Service, NEW l \in Services!Lifetime, NEW k \in Services!Lifetime,
             b[l][s] # <<>>, b[k][s] # <<>>
      PROVE  l = k
  BY <1>2, <1>4, <1>5
<1> QED
  BY <1>3, <1>5 DEF AreBindings, b

(* Nobody resolves anything before there is a provider. *)
LEMMA NobodyResolves ==
  ASSUME ServicesInv, ResolutionInv, Services!Root \notin DOMAIN slots, NEW t \in Thread
  PROVE  DOMAIN slots = {} /\ Len(contexts[t]) = 0
<1>1. DOMAIN slots = {} /\ StackSound(bindings, {}, contexts[t])
  BY DEF ResolutionInv, AllSound
<1>2. \A k \in 1 .. Len(contexts[t]) : contexts[t][k].via \in {}
  BY <1>1 DEF StackSound, ContextSound
<1>3. Len(contexts[t]) \in Nat
  BY DEF ServicesInv, IsStack
<1> QED
  BY <1>1, <1>2, <1>3

LEMMA IdleStack ==
  ASSUME NEW b, NEW providers, NEW sets, NEW s, Len(s) = 0
  PROVE  /\ StackSound(b, providers, s) /\ StackAwaits(b, sets, s)
         /\ \A k, h, i : ~(k \in 1 .. Len(s) /\ Makes(b, s[k], h, i))
  BY DEF StackSound, StackAwaits

(* A service is registered. *)
LEMMA RegisterResolves ==
  ASSUME ServicesInv, ResolutionInv, Services!Register
  PROVE  ResolutionInv'
<1>1. /\ Services!Root \notin DOMAIN slots /\ script # <<>>
      /\ bindings' = Services!Registered(Head(script)) /\ script' = Tail(script)
      /\ UNCHANGED <<slots, contexts>>
  BY DEF Services!Register
<1>2. AreBindings(bindings') /\ script' \in Seq(Services!Registration)
  <2>1. Head(script) \in Services!Registration /\ Tail(script) \in Seq(Services!Registration)
    BY <1>1 DEF ResolutionInv
  <2>2. AreBindings(bindings)
    BY DEF ResolutionInv
  <2> QED
    BY <1>1, <2>1, <2>2, RegisteredAre
<1>3. DOMAIN slots = {}
  BY <1>1 DEF ResolutionInv
<1>4. AllSound(bindings', DOMAIN slots', contexts')
      /\ \A t \in Thread : StackAwaits(bindings', slots', contexts'[t])
  <2>1. ASSUME NEW t \in Thread
        PROVE  /\ StackSound(bindings', DOMAIN slots, contexts[t])
               /\ StackAwaits(bindings', slots, contexts[t])
    BY <1>1, NobodyResolves, IdleStack
  <2> QED
    BY <1>1, <2>1 DEF AllSound
<1>5. SlotsTyped(bindings', slots') /\ SlotsSound(bindings', slots', contexts')
  <2>1. slots = [h \in DOMAIN slots |-> slots[h]]
    BY DEF ResolutionInv, SlotsTyped
  <2> QED
    BY <1>1, <1>3, <2>1 DEF SlotsTyped, SlotsSound
<1> QED
  BY <1>1, <1>2, <1>3, <1>4, <1>5 DEF ResolutionInv

(* A slot nobody has filled *)
LEMMA EmptySlotIsSound ==
  ASSUME NEW b, NEW sets, NEW cs, NEW h, NEW i, sets[h][i] = Services!EmptySlot,
         \A t \in Thread : \A k \in Nat : ~Maker(b, cs, t, k, h, i)
  PROVE  MakersSound(b, sets, cs, h, i) /\ MadeFor(b, sets, h, i)
<1>1. sets[h][i].made = 0 /\ sets[h][i].guarded = TRUE
  BY DEF Services!EmptySlot
<1> QED
  BY <1>1 DEF MakersSound, MadeFor

LEMMA InstanceSetIs ==
  ASSUME AreBindings(bindings), NEW h \in Holder
  PROVE  LET q == Services!InstanceSet(LifetimeFor(h))
         IN /\ q \in [Places(bindings, h) -> SlotType(bindings)]
            /\ \A i \in Places(bindings, h) : q[i] = Services!EmptySlot
<1>1. Services!Count(LifetimeFor(h), Services!Service)
        = CountOf(bindings, LifetimeFor(h), Services!Service)
  BY DEF Services!Count, CountOf, Pairs, Services!Cardinality, Cardinality
<1>2. Services!EmptySlot \in SlotType(bindings)
  BY DEF Services!EmptySlot, SlotType
<1> QED
  BY <1>1, <1>2 DEF Services!InstanceSet, Places

(* The provider is built. *)
LEMMA BuildResolves ==
  ASSUME ServicesInv, ResolutionInv, Services!BuildServiceProvider
  PROVE  ResolutionInv'
<1> DEFINE q == Services!InstanceSet("singleton")
<1>1. /\ Services!Root \notin DOMAIN slots /\ slots' = [h \in {Services!Root} |-> q]
      /\ UNCHANGED <<bindings, script, contexts>>
  BY DEF Services!BuildServiceProvider
<1>2. AreBindings(bindings) /\ Services!Root \in Holder
  BY DEF ResolutionInv, Holder
<1>3. /\ q \in [Places(bindings, Services!Root) -> SlotType(bindings)]
      /\ \A i \in Places(bindings, Services!Root) : q[i] = Services!EmptySlot
  <2>1. LifetimeFor(Services!Root) = "singleton"
    BY DEF LifetimeFor
  <2>2. LET p == Services!InstanceSet(LifetimeFor(Services!Root))
        IN /\ p \in [Places(bindings, Services!Root) -> SlotType(bindings)]
           /\ \A i \in Places(bindings, Services!Root) : p[i] = Services!EmptySlot
    BY <1>2, InstanceSetIs
  <2> QED
    BY <2>1, <2>2
<1> HIDE DEF q
<1>4. DOMAIN slots' = {Services!Root} /\ slots'[Services!Root] = q
      /\ slots' = [h \in DOMAIN slots' |-> slots'[h]]
  BY <1>1
<1>5. ASSUME NEW t \in Thread
      PROVE  /\ Len(contexts[t]) = 0
             /\ StackSound(bindings, DOMAIN slots', contexts[t])
             /\ StackAwaits(bindings, slots', contexts[t])
  BY <1>1, NobodyResolves, IdleStack
<1>6. SlotsTyped(bindings, slots')
  BY <1>3, <1>4 DEF SlotsTyped
<1>7. SlotsSound(bindings, slots', contexts)
  <2>1. SUFFICES ASSUME NEW i \in Places(bindings, Services!Root)
                 PROVE  /\ MakersSound(bindings, slots', contexts, Services!Root, i)
                        /\ MadeFor(bindings, slots', Services!Root, i)
    BY <1>4 DEF SlotsSound
  <2>2. slots'[Services!Root][i] = Services!EmptySlot
    BY <1>3, <1>4
  <2>3. \A t \in Thread : \A k \in Nat : ~Maker(bindings, contexts, t, k, Services!Root, i)
    BY <1>5 DEF Maker
  <2> QED
    BY <2>2, <2>3, EmptySlotIsSound
<1>8. /\ bindings' = bindings /\ contexts' = contexts
      /\ script' \in Seq(Services!Registration) /\ DOMAIN slots' \subseteq Holder
      /\ Services!Root \in DOMAIN slots'
  BY <1>1, <1>2, <1>4 DEF ResolutionInv
<1>9. AllSound(bindings, DOMAIN slots', contexts)
  BY <1>5 DEF AllSound
<1> QED
  BY <1>2, <1>5, <1>6, <1>7, <1>8, <1>9 DEF ResolutionInv

(* A scope is created. *)
LEMMA ScopeResolves ==
  ASSUME ServicesInv, ResolutionInv, NEW h \in Scope, Services!CreateScope(h)
  PROVE  ResolutionInv'
<1> DEFINE q == Services!InstanceSet("scoped")
<1>1. /\ Services!Root \in DOMAIN slots /\ h \notin DOMAIN slots
      /\ slots' = [g \in DOMAIN slots \cup {h} |-> IF g = h THEN q ELSE slots[g]]
      /\ UNCHANGED <<bindings, script, contexts>>
  BY DEF Services!CreateScope
<1>2. /\ AreBindings(bindings) /\ h \in Holder /\ h # Services!Root
      /\ SlotsTyped(bindings, slots) /\ SlotsSound(bindings, slots, contexts)
      /\ AllSound(bindings, DOMAIN slots, contexts)
  BY <1>1 DEF ResolutionInv, Holder
<1>3. /\ q \in [Places(bindings, h) -> SlotType(bindings)]
      /\ \A i \in Places(bindings, h) : q[i] = Services!EmptySlot
  <2>1. LifetimeFor(h) = "scoped"
    BY <1>2 DEF LifetimeFor
  <2>2. LET p == Services!InstanceSet(LifetimeFor(h))
        IN /\ p \in [Places(bindings, h) -> SlotType(bindings)]
           /\ \A i \in Places(bindings, h) : p[i] = Services!EmptySlot
    BY <1>2, InstanceSetIs
  <2> QED
    BY <2>1, <2>2
<1> HIDE DEF q
<1>4. PICK more : more = slots'
  OBVIOUS
<1>5. /\ DOMAIN more = DOMAIN slots \cup {h} /\ more[h] = q
      /\ \A g \in DOMAIN slots : more[g] = slots[g]
      /\ more = [g \in DOMAIN more |-> more[g]]
  BY <1>1, <1>4
<1>6. SlotsTyped(bindings, more)
  BY <1>2, <1>3, <1>5 DEF SlotsTyped
<1>7. Remains(bindings, DOMAIN slots, slots, more)
  BY <1>1, <1>5 DEF Remains, Created, Services!InstanceSetOf
<1>8. ASSUME NEW t \in Thread
      PROVE  StackSound(bindings, DOMAIN more, contexts[t]) /\ StackAwaits(bindings, more, contexts[t])
  <2>1. StackSound(bindings, DOMAIN slots, contexts[t]) /\ StackAwaits(bindings, slots, contexts[t])
    BY DEF ResolutionInv, AllSound
  <2>2. StackSound(bindings, DOMAIN more, contexts[t])
    BY <1>5, <2>1 DEF StackSound, ContextSound
  <2>3. StackAwaits(bindings, more, contexts[t])
    <3>1. PICK s, providers : s = contexts[t] /\ providers = DOMAIN slots
      OBVIOUS
    <3>2. /\ StackSound(bindings, providers, s) /\ StackAwaits(bindings, slots, s)
          /\ Remains(bindings, providers, slots, more)
      BY <1>7, <2>1, <3>1
    <3>3. StackAwaits(bindings, more, s)
      BY <1>2, <3>2, AwaitsRemain
    <3> QED
      BY <3>1, <3>3
  <2> QED
    BY <2>2, <2>3
<1>9. SlotsSound(bindings, more, contexts)
  <2>1. ASSUME NEW g \in DOMAIN slots, NEW i \in Places(bindings, g)
        PROVE  MakersSound(bindings, more, contexts, g, i) /\ MadeFor(bindings, more, g, i)
    <3>1. MakersSound(bindings, slots, contexts, g, i) /\ MadeFor(bindings, slots, g, i)
      BY <1>2 DEF SlotsSound
    <3>2. more[g][i] = slots[g][i]
      BY <1>5
    <3>3. MadeFor(bindings, more, g, i)
      BY <1>2, <1>7, <3>1, <3>2, MadeStays
    <3>4. MakersSound(bindings, more, contexts, g, i)
      BY <3>1, <3>2 DEF MakersSound
    <3> QED
      BY <3>3, <3>4
  <2>2. ASSUME NEW i \in Places(bindings, h)
        PROVE  MakersSound(bindings, more, contexts, h, i) /\ MadeFor(bindings, more, h, i)
    <3>1. more[h][i] = Services!EmptySlot
      BY <1>3, <1>5
    <3>2. ASSUME NEW t \in Thread, NEW k \in Nat, Maker(bindings, contexts, t, k, h, i)
          PROVE  FALSE
      <4>1. k \in 1 .. Len(contexts[t]) /\ Makes(bindings, contexts[t][k], h, i)
        BY <3>2 DEF Maker
      <4>2. contexts[t][k].via \in DOMAIN slots
        BY <1>2, <4>1 DEF AllSound, StackSound, ContextSound
      <4> QED
        BY <1>1, <4>1, <4>2 DEF Makes, Services!InstanceSetOf
    <3> QED
      BY <3>1, <3>2, EmptySlotIsSound
  <2> QED
    BY <1>5, <2>1, <2>2 DEF SlotsSound
<1>10. /\ bindings' = bindings /\ contexts' = contexts /\ slots' = more
       /\ script' \in Seq(Services!Registration) /\ DOMAIN more \subseteq Holder
       /\ Services!Root \in DOMAIN more
  BY <1>1, <1>2, <1>4, <1>5 DEF ResolutionInv
<1>11. AllSound(bindings, DOMAIN more, contexts)
  BY <1>8 DEF AllSound
<1> QED
  BY <1>2, <1>6, <1>8, <1>9, <1>10, <1>11 DEF ResolutionInv

(* Every step of the services *)
LEMMA ResolutionStep ==
  ASSUME ServicesInv, ResolutionInv, Services!Next
  PROVE  ResolutionInv'
<1>1. CASE Services!Register
  BY <1>1, RegisterResolves
<1>2. CASE Services!BuildServiceProvider
  BY <1>2, BuildResolves
<1>3. CASE \E h \in Scope : Services!CreateScope(h)
  BY <1>3, ScopeResolves
<1>4. CASE \E t \in Thread : Services!Continue(t)
  BY <1>4, ContinueResolves
<1>5. CASE \E t \in Thread, h \in DOMAIN slots, s \in Services!Service,
              method \in {"get", "try", "all", "factory"} : Services!Request(t, h, method, s)
  BY <1>5, RequestResolves
<1> QED
  BY <1>1, <1>2, <1>3, <1>4, <1>5 DEF Services!Next

LEMMA ResolutionBegins ==
  ASSUME Services!Init, ServicesInv
  PROVE  ResolutionInv
<1>1. /\ script \in Scripts /\ slots = <<>> /\ contexts = [t \in Thread |-> <<>>]
      /\ bindings = [l \in Services!Lifetime |-> [s \in Services!Service |-> <<>>]]
  BY DEF Services!Init
<1>2. DOMAIN slots = {} /\ slots = [h \in DOMAIN slots |-> slots[h]]
  BY <1>1
<1>3. AreBindings(bindings) /\ script \in Seq(Services!Registration)
  BY <1>1, ConcurrentAssumption
  DEF AreBindings, ConcurrentAssumption, Services!ServicesAssumption
<1>4. ASSUME NEW t \in Thread
      PROVE  StackSound(bindings, DOMAIN slots, contexts[t])
             /\ StackAwaits(bindings, slots, contexts[t])
  <2>1. Len(contexts[t]) = 0
    BY <1>1
  <2> QED
    BY <2>1, IdleStack
<1>5. SlotsTyped(bindings, slots) /\ SlotsSound(bindings, slots, contexts)
  BY <1>2 DEF SlotsTyped, SlotsSound
<1> QED
  BY <1>2, <1>3, <1>4, <1>5 DEF ResolutionInv, AllSound

-----------------------------------------------------------------------------
(* Services: what the invariant says of instances. *)

LEMMA OneInstance ==
  ASSUME ResolutionInv
  PROVE  Services!OneInstanceEach
<1> SUFFICES ASSUME NEW h \in DOMAIN slots, NEW i \in DOMAIN slots[h], slots[h][i].made > 1
             PROVE  h # Services!Root /\ ~slots[h][i].guarded
  BY DEF Services!OneInstanceEach
<1>1. slots[h] \in [Places(bindings, h) -> SlotType(bindings)]
  BY DEF ResolutionInv, SlotsTyped
<1>2. i \in Places(bindings, h) /\ slots[h][i].made \in 0 .. 2
  BY <1>1 DEF SlotType
<1>3. MakersSound(bindings, slots, contexts, h, i)
  BY <1>2 DEF ResolutionInv, SlotsSound
<1>4. h = Services!Root => slots[h][i].guarded
  BY <1>3 DEF MakersSound
<1>5. slots[h][i].guarded => slots[h][i].made < 2
  BY <1>3 DEF MakersSound
<1> QED
  BY <1>2, <1>4, <1>5

LEMMA SlotsHold ==
  ASSUME ResolutionInv
  PROVE  Services!SlotsHoldTheirBinding
<1> SUFFICES ASSUME NEW h \in DOMAIN slots, NEW s \in Services!Service,
                    NEW e \in Services!ToSet(Services!Entries(LifetimeFor(h), s)),
                    Services!SlotOf(h, e).made > 0
             PROVE  Services!SlotOf(h, e).of = e
  BY DEF Services!SlotsHoldTheirBinding, LifetimeFor
<1>1. AreBindings(bindings)
  BY DEF ResolutionInv
<1>2. e \in Entry(bindings) /\ e.lifetime = LifetimeFor(h)
  <2>1. LifetimeFor(h) \in Services!Lifetime
    BY DEF LifetimeFor, Services!Lifetime
  <2>2. PICK es : es = Services!Entries(LifetimeFor(h), s)
    OBVIOUS
  <2>3. es \in Seq(Entry(bindings)) /\ \A i \in 1 .. Len(es) : es[i].lifetime = LifetimeFor(h)
    BY <1>1, <2>1, <2>2, EntriesAre
  <2>4. \E i \in 1 .. Len(es) : e = es[i]
    BY <2>2, <2>3 DEF Services!ToSet
  <2> QED
    BY <2>3, <2>4
<1>3. Services!InstanceSetOf(h, e) = h /\ e.lifetime # "transient" /\ Serves(h, e.lifetime)
  BY <1>2 DEF Services!InstanceSetOf, LifetimeFor, Serves
<1> DEFINE i == IndexOf(bindings, e)
<1>4. Services!SlotOf(h, e) = slots[h][i]
  BY <1>3, IndexesAgree DEF Services!SlotOf
<1>5. i \in Places(bindings, h)
  BY <1>1, <1>2, <1>3, PlaceIs
<1>6. MadeFor(bindings, slots, h, i)
  BY <1>5 DEF ResolutionInv, SlotsSound
<1> HIDE DEF i
<1>7. /\ slots[h][i].of \in Entry(bindings) /\ slots[h][i].of.lifetime = LifetimeFor(h)
      /\ IndexOf(bindings, slots[h][i].of) = i
  BY <1>4, <1>6 DEF MadeFor
<1> QED
  BY <1>1, <1>2, <1>4, <1>7, IndexesAreUnique DEF i

LEMMA DependenciesAreFirst ==
  ASSUME ResolutionInv
  PROVE  Services!DependenciesFirst
<1> SUFFICES ASSUME NEW h \in DOMAIN slots, NEW i \in DOMAIN slots[h], slots[h][i].made > 0,
                    NEW need \in Services!ToSet(Services!Binding(slots[h][i].of).needs),
                    NEW l \in {"singleton", "scoped"},
                    Services!Entries(l, need[2]) # <<>>, ~(l = "scoped" /\ h = Services!Root)
             PROVE  Services!IsAlreadyCreated(h, Services!Last(Services!Entries(l, need[2])))
  BY DEF Services!DependenciesFirst
<1> DEFINE e == slots[h][i].of  x == LastEntry(bindings, l, need[2])
<1>1. AreBindings(bindings) /\ slots[h] \in [Places(bindings, h) -> SlotType(bindings)]
  BY DEF ResolutionInv, SlotsTyped
<1>2. MadeFor(bindings, slots, h, i)
  BY <1>1 DEF ResolutionInv, SlotsSound
<1>3. e \in Entry(bindings) /\ \A y \in Prerequisites(bindings, h, e) : Created(bindings, slots, h, y)
  BY <1>2 DEF MadeFor
<1> HIDE DEF e
<1>4. PICK k \in 1 .. Len(NeedsOf(bindings, e)) : need = NeedsOf(bindings, e)[k]
  <2>1. PICK all : all = NeedsOf(bindings, e)
    OBVIOUS
  <2>2. all \in Seq(Services!Need)
    BY <1>1, <1>3, <2>1, NeedsAre
  <2>3. need \in Services!ToSet(all)
    BY <2>1 DEF Services!Binding, NeedsOf, e
  <2> QED
    BY <2>1, <2>2, <2>3 DEF Services!ToSet
<1>5. need[2] \in Services!Service /\ l \in Services!Lifetime /\ Serves(h, l)
  BY <1>1, <1>3, <1>4, NeedsAre DEF Services!Lifetime, Serves
<1>6. PICK es : es = Services!Entries(l, need[2])
  OBVIOUS
<1>7. /\ es \in Seq(Entry(bindings)) /\ es # <<>> /\ es[Len(es)] = x
      /\ bindings[l][need[2]] # <<>>
  BY <1>1, <1>5, <1>6, EntriesAre
<1>8. Services!Last(es) = x /\ x \in Entry(bindings)
  BY <1>7 DEF Services!Last
<1>9. x.lifetime # "transient"
  BY DEF LastEntry
<1>10. x \in Prerequisites(bindings, h, e)
  BY <1>4, <1>5, <1>7, <1>8 DEF Prerequisites
<1> HIDE DEF x
<1> QED
  BY <1>3, <1>6, <1>8, <1>9, <1>10, CreatedIs

-----------------------------------------------------------------------------
(* Services: cycles, and how requests end. *)

NeedsIn(b, s) ==
  UNION {{need[2] : need \in Services!ToSet(x.needs)} :
           x \in UNION {Services!ToSet(b[l][s]) : l \in Services!Lifetime}}
IsCyclic(b) ==
  \E C \in (SUBSET Services!Service) \ {{}} : \A s \in C : NeedsIn(b, s) \cap C # {}

OutcomesInv ==
  /\ requests \in [Thread -> 0 .. MaxCalls]
  /\ outcome \in [Thread -> {"none", "returned", "unresolved", "cyclic", "failed"}]
  /\ \A t \in Thread : outcome[t] = "cyclic" =>
       Services!Root \in DOMAIN slots /\ IsCyclic(bindings)

LEMMA AsksNeeds ==
  ASSUME NEW b, AreBindings(b), NEW s \in Services!Service, NEW x, Asks(b, s, x)
  PROVE  x \in NeedsIn(b, s)
<1>1. PICK l \in Services!Lifetime : \E i \in 1 .. Len(b[l][s]) :
        \E k \in 1 .. Len(b[l][s][i].needs) : b[l][s][i].needs[k][2] = x
  BY DEF Asks
<1>2. PICK i \in 1 .. Len(b[l][s]) : \E k \in 1 .. Len(b[l][s][i].needs) :
        b[l][s][i].needs[k][2] = x
  BY <1>1
<1>3. b[l][s] \in Seq(Bound)
  BY DEF AreBindings
<1> DEFINE op == b[l][s][i]
<1>4. op \in Bound /\ op \in Services!ToSet(b[l][s])
  BY <1>3 DEF Services!ToSet
<1>5. op.needs \in Seq(Services!Need)
  BY <1>4 DEF Bound
<1>6. PICK k \in 1 .. Len(op.needs) : op.needs[k][2] = x
  BY <1>2
<1>7. op.needs[k] \in Services!ToSet(op.needs) /\ op.needs[k][2] = x
  BY <1>5, <1>6 DEF Services!ToSet
<1> HIDE DEF op
<1>8. x \in {need[2] : need \in Services!ToSet(op.needs)}
  BY <1>7
<1> QED
  BY <1>4, <1>8 DEF NeedsIn

(* A service that is under construction is asked for. *)
LEMMA CycleIs ==
  ASSUME NEW b, AreBindings(b), NEW h, NEW locks, NEW fs, FramesSound(b, h, locks, fs),
         NEW m \in Nat, Len(fs) = m, NEW k \in 2 .. m, fs[m].todo # <<>>,
         NEW job, job = Head(fs[m].todo), job.do = "activate",
         job.entry.service = fs[k].entry.service
  PROVE  IsCyclic(b)
<1> DEFINE C == {fs[j].entry.service : j \in k .. m}
<1>1. \A j \in 1 .. m : fs[j] \in FrameOf(b) /\ FrameSound(b, h, locks, fs[j])
  BY DEF FramesSound
<1>2. ASSUME NEW j \in 2 .. m
      PROVE  fs[j].entry # Services!NoEntry /\ fs[j].entry.service \in Services!Service
  <2>1. fs[j].entry # Services!NoEntry
    BY DEF FramesSound, Linked
  <2> QED
    BY <1>1, <2>1 DEF FrameOf, Entry
<1>3. ASSUME NEW j \in k .. m PROVE NeedsIn(b, fs[j].entry.service) \cap C # {}
  <2>1. CASE j < m
    <3>1. Asks(b, fs[j].entry.service, fs[j + 1].entry.service)
      <4>1. j \in 2 .. Len(fs) - 1
        BY <2>1
      <4> QED
        BY <4>1 DEF FramesSound, Linked
    <3>2. fs[j + 1].entry.service \in C /\ j \in 2 .. m
      BY <2>1
    <3> QED
      BY <1>2, <3>1, <3>2, AsksNeeds
  <2>2. CASE j = m
    <3>1. fs[m].todo \in Seq(JobOf(b)) /\ Len(fs[m].todo) >= 1 /\ job = fs[m].todo[1]
          /\ 1 \in 1 .. Len(fs[m].todo) /\ m \in 2 .. m /\ m \in 1 .. m
      BY <1>1 DEF FrameOf
    <3>2. Asks(b, fs[m].entry.service, job.entry.service)
      BY <1>1, <1>2, <3>1 DEF FrameSound
    <3>3. fs[k].entry.service \in C
      OBVIOUS
    <3> QED
      BY <1>2, <2>2, <3>1, <3>2, <3>3, AsksNeeds
  <2> QED
    BY <2>1, <2>2
<1>4. C \subseteq Services!Service /\ fs[k].entry.service \in C
  BY <1>2
<1>5. \A s \in C : NeedsIn(b, s) \cap C # {}
  <2>1. SUFFICES ASSUME NEW s \in C PROVE NeedsIn(b, s) \cap C # {}
    OBVIOUS
  <2>2. PICK j \in k .. m : s = fs[j].entry.service
    BY <2>1
  <2> HIDE DEF C
  <2> QED
    BY <1>3, <2>2
<1> HIDE DEF C
<1>6. C \in (SUBSET Services!Service) \ {{}}
  <2>1. C # {} /\ C \in SUBSET Services!Service
    BY <1>4
  <2> QED
    BY <2>1
<1> QED
  BY <1>5, <1>6 DEF IsCyclic

(* The step of one thread *)
LEMMA OutcomesGoOn ==
  ASSUME OutcomesInv, NEW t \in Thread,
         NEW what \in {"none", "returned", "unresolved", "cyclic", "failed"},
         outcome' = outcome \/ outcome' = [outcome EXCEPT ![t] = what],
         what = "cyclic" => Services!Root \in DOMAIN slots /\ IsCyclic(bindings),
         bindings' = bindings, DOMAIN slots \subseteq DOMAIN slots',
         requests' \in [Thread -> 0 .. MaxCalls]
  PROVE  OutcomesInv'
<1>1. outcome' \in [Thread -> {"none", "returned", "unresolved", "cyclic", "failed"}]
  BY DEF OutcomesInv
<1>2. ASSUME NEW u \in Thread, outcome'[u] = "cyclic"
      PROVE  Services!Root \in DOMAIN slots /\ IsCyclic(bindings)
  BY <1>2 DEF OutcomesInv
<1> QED
  BY <1>1, <1>2 DEF OutcomesInv

LEMMA CyclicIs ==
  ASSUME ServicesInv, ResolutionInv, NEW t \in Thread, Services!ThrowCyclic(t)
  PROVE  Services!Root \in DOMAIN slots /\ IsCyclic(bindings)
<1> DEFINE s == contexts[t]  c == s[Len(s)]  fs == c.frames  m == Len(fs)
           job == Services!Job(t)
<1>1. /\ Services!Busy(t) /\ Services!Top(t).todo # <<>> /\ job.do = "activate"
      /\ job.entry.service \in Services!UnderConstruction(t)
  BY DEF Services!ThrowCyclic, Services!Due, Services!Job
<1>2. /\ ContextSound(bindings, DOMAIN slots, c) /\ Services!Current(t) = c
      /\ Services!Top(t) = Services!Last(fs) /\ Services!Root \in DOMAIN slots
  BY <1>1, ThreadIs
<1>3. FramesSound(bindings, c.via, c.locks, fs)
  BY <1>2 DEF ContextSound
<1>4. fs \in Seq(FrameOf(bindings)) /\ m \in Nat /\ m >= 1 /\ DOMAIN fs = 1 .. m
  BY <1>3 DEF FramesSound
<1>5. Services!Top(t) = fs[m]
  BY <1>2, <1>4 DEF Services!Last
<1>6. PICK k \in 1 .. m : fs[k].entry.service = job.entry.service /\ job.entry.service # 0
  BY <1>1, <1>2, <1>4 DEF Services!UnderConstruction
<1>7. k # 1
  <2>1. fs[1].entry = Services!NoEntry
    BY <1>3, <1>4 DEF FramesSound, Linked
  <2> QED
    BY <1>6, <2>1 DEF Services!NoEntry
<1>8. /\ k \in 2 .. m /\ fs[m].todo # <<>> /\ job = Head(fs[m].todo)
      /\ job.do = "activate" /\ job.entry.service = fs[k].entry.service
  BY <1>1, <1>4, <1>5, <1>6, <1>7 DEF Services!Job
<1>9. AreBindings(bindings)
  BY DEF ResolutionInv
<1>10. IsCyclic(bindings)
  <2> DEFINE h == c.via  locks == c.locks
  <2>1. FramesSound(bindings, h, locks, fs)
    BY <1>3
  <2>2. Len(fs) = m
    OBVIOUS
  <2> HIDE DEF h, locks, fs, m, job
  <2> QED
    BY <1>4, <1>8, <1>9, <2>1, <2>2, CycleIs
<1> QED
  BY <1>2, <1>10

LEMMA OutcomesBegin ==
  ASSUME Services!Init
  PROVE  OutcomesInv
  BY ConcurrentAssumption
  DEF Services!Init, OutcomesInv, ConcurrentAssumption, Services!ServicesAssumption

LEMMA UnwindOutcome ==
  ASSUME OutcomesInv, NEW t \in Thread,
         NEW what \in {"none", "returned", "unresolved", "cyclic", "failed"},
         Services!Unwind(t, what),
         what = "cyclic" => Services!Root \in DOMAIN slots /\ IsCyclic(bindings)
  PROVE  OutcomesInv'
<1>1. /\ outcome' = [outcome EXCEPT ![t] = what]
      /\ bindings' = bindings /\ slots' = slots /\ requests' = requests
  BY DEF Services!Unwind
<1>2. requests' \in [Thread -> 0 .. MaxCalls]
  BY <1>1 DEF OutcomesInv
<1> QED
  BY <1>1, <1>2, OutcomesGoOn

LEMMA ContinueOutcome ==
  ASSUME ServicesInv, ResolutionInv, OutcomesInv, NEW t \in Thread, Services!Continue(t)
  PROVE  OutcomesInv'
<1>1. CASE Services!Peek(t) \/ Services!Acquire(t)
  <2>1. UNCHANGED <<outcome, bindings, slots, requests>>
    BY <1>1 DEF Services!Peek, Services!Acquire
  <2> QED
    BY <2>1 DEF OutcomesInv
<1>2. CASE Services!ActivateService(t) \/ Services!Construct(t)
  <2>1. UNCHANGED <<outcome, bindings, requests>>
    BY <1>2 DEF Services!ActivateService, Services!Construct
  <2>2. DOMAIN slots' = DOMAIN slots
    BY <1>2 DEF Services!ActivateService, Services!Construct
  <2> QED
    BY <2>1, <2>2 DEF OutcomesInv
<1>3. CASE Services!CloseContext(t)
  <2>1. /\ outcome' = outcome \/ outcome' = [outcome EXCEPT ![t] = "returned"]
        /\ UNCHANGED <<bindings, slots, requests>>
    BY <1>3 DEF Services!CloseContext
  <2>2. requests' \in [Thread -> 0 .. MaxCalls] /\ DOMAIN slots \subseteq DOMAIN slots'
    BY <2>1 DEF OutcomesInv
  <2>3. PICK what : what = "returned"
    OBVIOUS
  <2> QED
    BY <2>1, <2>2, <2>3, OutcomesGoOn
<1>4. CASE Services!ThrowUnresolved(t)
  <2>1. PICK what : what = "unresolved"
    OBVIOUS
  <2> QED
    BY <1>4, <2>1, UnwindOutcome DEF Services!ThrowUnresolved
<1>5. CASE Services!ThrowCyclic(t)
  <2>1. PICK what : what = "cyclic"
    OBVIOUS
  <2>2. Services!Root \in DOMAIN slots /\ IsCyclic(bindings)
    BY <1>5, CyclicIs
  <2> QED
    BY <1>5, <2>1, <2>2, UnwindOutcome DEF Services!ThrowCyclic
<1>6. CASE Services!FactoryThrows(t)
  <2>1. PICK what : what = "failed"
    OBVIOUS
  <2> QED
    BY <1>6, <2>1, UnwindOutcome DEF Services!FactoryThrows
<1> QED
  BY <1>1, <1>2, <1>3, <1>4, <1>5, <1>6 DEF Services!Continue

LEMMA OutcomesStep ==
  ASSUME ServicesInv, ResolutionInv, OutcomesInv, Services!Next
  PROVE  OutcomesInv'
<1>1. CASE Services!Register
  <2>1. UNCHANGED <<outcome, requests, slots>> /\ Services!Root \notin DOMAIN slots
    BY <1>1 DEF Services!Register
  <2> QED
    BY <2>1 DEF OutcomesInv
<1>2. CASE Services!BuildServiceProvider \/ \E h \in Scope : Services!CreateScope(h)
  <2>1. UNCHANGED <<outcome, requests, bindings>> /\ Services!Root \in DOMAIN slots'
    BY <1>2 DEF Services!BuildServiceProvider, Services!CreateScope
  <2> QED
    BY <2>1 DEF OutcomesInv
<1>3. CASE \E t \in Thread : Services!Continue(t)
  BY <1>3, ContinueOutcome
<1>4. CASE \E t \in Thread, h \in DOMAIN slots, s \in Services!Service,
              method \in {"get", "try", "all", "factory"} : Services!Request(t, h, method, s)
  <2>1. PICK t \in Thread, h \in DOMAIN slots, s \in Services!Service,
             method \in {"get", "try", "all", "factory"} : Services!Request(t, h, method, s)
    BY <1>4
  <2>2. /\ outcome' = [outcome EXCEPT ![t] = "none"] /\ UNCHANGED <<bindings, slots>>
        /\ requests[t] < MaxCalls /\ requests' = [requests EXCEPT ![t] = @ + 1]
    BY <2>1 DEF Services!Request
  <2>3. requests' \in [Thread -> 0 .. MaxCalls]
    <3>1. MaxCalls \in Nat
      BY ConcurrentAssumption DEF ConcurrentAssumption, Services!ServicesAssumption
    <3> QED
      BY <2>2, <3>1 DEF OutcomesInv
  <2>4. PICK what : what = "none"
    OBVIOUS
  <2> QED
    BY <2>2, <2>3, <2>4, OutcomesGoOn
<1> QED
  BY <1>1, <1>2, <1>3, <1>4 DEF Services!Next

LEMMA CyclesReal ==
  ASSUME OutcomesInv
  PROVE  Services!CyclesAreReal
<1> SUFFICES ASSUME NEW t \in Thread, outcome[t] = "cyclic"
             PROVE  \E C \in (SUBSET Services!Service) \ {{}} :
                      \A s \in C : Services!Needs(s) \cap C # {}
  BY DEF Services!CyclesAreReal
<1>1. IsCyclic(bindings)
  BY DEF OutcomesInv
<1>2. \A s : Services!Needs(s) = NeedsIn(bindings, s)
  BY DEF Services!Needs, NeedsIn
<1> QED
  BY <1>1, <1>2 DEF IsCyclic

(* A context constructs no more services than there are. *)
LEMMA FramesAreFew ==
  ASSUME NEW b, NEW h, NEW locks, NEW fs, FramesSound(b, h, locks, fs)
  PROVE  Len(fs) <= Cardinality(Services!Service) + 1
<1> DEFINE n == Len(fs)  f == [j \in 2 .. n |-> fs[j].entry.service]  S == Services!Service
<1>1. n \in Nat /\ n >= 1 /\ \A j \in 1 .. n : fs[j] \in FrameOf(b)
  BY DEF FramesSound
<1>2. IsFiniteSet(S)
  BY ConcurrentAssumption DEF ConcurrentAssumption, Services!ServicesAssumption,
     Services!IsFiniteSet, IsFiniteSet
<1>3. f \in Injection(2 .. n, S)
  <2>1. \A j \in 2 .. n : fs[j].entry.service \in S
    BY <1>1 DEF FramesSound, Linked, FrameOf, Entry
  <2>2. \A i, j \in 2 .. n : f[i] = f[j] => i = j
    BY DEF FramesSound, Linked
  <2>3. f \in [2 .. n -> S]
    BY <2>1
  <2> HIDE DEF f
  <2> QED
    BY <2>2, <2>3 DEF Injection, IsInjective
<1> HIDE DEF f, S
<1>4. IsFiniteSet(2 .. n) /\ Cardinality(2 .. n) = IF 2 > n THEN 0 ELSE n - 2 + 1
  BY <1>1, FS_Interval
<1>5. Cardinality(2 .. n) <= Cardinality(S)
  BY <1>2, <1>3, FS_Injection
<1>6. Cardinality(S) \in Nat
  BY <1>2, FS_CardinalityType
<1> QED
  BY <1>1, <1>4, <1>5, <1>6 DEF S

-----------------------------------------------------------------------------
(* Services: what always holds of them. *)

ServicesSound == ServicesInv /\ ResolutionInv /\ OutcomesInv

(* Every context of a thread takes its own mutexes only. *)
LEMMA ContextsAreTyped ==
  ASSUME ServicesSound, NEW t \in Thread, NEW c \in Services!Contexts(t)
  PROVE  /\ Len(c.frames) <= Services!Cardinality(Services!Service) + 1
         /\ c.locks \subseteq DOMAIN mutex
<1>1. IsStack(contexts[t]) /\ DOMAIN mutex = Holder
  BY DEF ServicesSound, ServicesInv
<1>2. PICK k \in 1 .. Len(contexts[t]) : c = contexts[t][k]
  BY <1>1 DEF Services!Contexts, Services!ToSet, IsStack
<1>3. ContextSound(bindings, DOMAIN slots, c)
  BY <1>2 DEF ServicesSound, ResolutionInv, AllSound, StackSound
<1>4. c.locks \subseteq Holder /\ FramesSound(bindings, c.via, c.locks, c.frames)
  BY <1>3 DEF ContextSound, Holder
<1>5. Len(c.frames) <= Cardinality(Services!Service) + 1
  BY <1>4, FramesAreFew
<1> QED
  BY <1>1, <1>4, <1>5 DEF Services!Cardinality, Cardinality

LEMMA ServicesTyped ==
  ASSUME ServicesSound
  PROVE  Services!TypeOK
<1>1. ASSUME NEW h \in DOMAIN slots, NEW i \in DOMAIN slots[h]
      PROVE  slots[h][i].made \in 0 .. 2
  <2>1. slots[h] \in [Places(bindings, h) -> SlotType(bindings)]
    BY DEF ServicesSound, ResolutionInv, SlotsTyped
  <2> QED
    BY <2>1 DEF SlotType
<1>2. \A m \in DOMAIN mutex : mutex[m] \in Thread \cup {Services!Nobody}
  BY DEF ServicesSound, ServicesInv
<1>3. \A t \in Thread :
        /\ requests[t] \in 0 .. MaxCalls
        /\ outcome[t] \in {"none", "returned", "unresolved", "cyclic", "failed"}
  BY DEF ServicesSound, OutcomesInv
<1> QED
  BY <1>1, <1>2, <1>3, ContextsAreTyped DEF Services!TypeOK

LEMMA MutexesAccounted ==
  ASSUME ServicesInv
  PROVE  Services!MutexesAccounted
<1> SUFFICES ASSUME NEW m \in Holder, NEW t \in Thread
             PROVE  Cardinality({i \in DOMAIN contexts[t] :
                                   m \in contexts[t][i].locks})
                      = IF mutex[m] = t THEN 1 ELSE 0
  BY DEF ServicesInv, Services!MutexesAccounted, Services!Cardinality, Cardinality
<1>1. {i \in DOMAIN contexts[t] : m \in contexts[t][i].locks}
        = Holding(contexts[t], m)
  BY DEF ServicesInv, IsStack, Holding
<1>2. CASE mutex[m] = t
  <2>1. PICK i : Holding(contexts[t], m) = {i}
    BY <1>2 DEF ServicesInv
  <2>2. Cardinality({i}) = 1
    BY FS_Singleton
  <2> QED
    BY <1>1, <1>2, <2>1, <2>2
<1>3. CASE mutex[m] # t
  BY <1>1, <1>3, FS_EmptySet DEF ServicesInv
<1> QED
  BY <1>2, <1>3

LEMMA ServicesBegin ==
  ASSUME Init
  PROVE  ServicesSound
<1>1. Services!Init
  BY DEF Init
<1>2. ServicesInv
  <2>1. /\ mutex = [h \in Holder |-> Services!Nobody]
        /\ contexts = [t \in Thread |-> <<>>]
    BY <1>1 DEF Services!Init, Holder
  <2>2. IsStack(<<>>) /\ \A m : Holding(<<>>, m) = {}
    BY DEF IsStack, Holding
  <2>3. \A t \in Thread : IsStack(contexts[t])
    BY <2>1, <2>2
  <2>4. \A t \in Thread, m \in Holder : Holding(contexts[t], m) = {}
    BY <2>1, <2>2
  <2>5. \A t \in Thread, m \in Holder : mutex[m] # t
    BY <2>1, ConcurrentAssumption
    DEF ConcurrentAssumption, Services!ServicesAssumption
  <2> QED
    BY <2>1, <2>3, <2>4, <2>5 DEF ServicesInv
<1>3. ResolutionInv /\ OutcomesInv
  BY <1>1, <1>2, ResolutionBegins, OutcomesBegin
<1> QED
  BY <1>2, <1>3 DEF ServicesSound

LEMMA ServicesRest ==
  ASSUME ServicesSound, UNCHANGED serviceVars
  PROVE  ServicesSound'
<1>1. UNCHANGED <<script, bindings, slots, mutex, contexts, requests, outcome>>
  BY DEF serviceVars
<1>2. ServicesInv'
  BY <1>1 DEF ServicesSound, ServicesInv, Holding
<1>3. ResolutionInv'
  BY <1>1 DEF ServicesSound, ResolutionInv
<1>4. OutcomesInv'
  BY <1>1 DEF ServicesSound, OutcomesInv
<1> QED
  BY <1>2, <1>3, <1>4 DEF ServicesSound

LEMMA ServicesInvariance == FairSpec => []ServicesSound
<1>1. Services!Nobody \notin Thread
  BY ConcurrentAssumption DEF ConcurrentAssumption, Services!ServicesAssumption
<1>2. Init => ServicesSound
  BY ServicesBegin
<1>3. ServicesSound /\ [Next]_vars => ServicesSound'
  <2> SUFFICES ASSUME ServicesSound, [Next]_vars  PROVE ServicesSound'
    OBVIOUS
  <2>1. CASE UNCHANGED serviceVars
    BY <2>1, ServicesRest
  <2>2. CASE OfServices(Services!Next)
    <3>1. Services!Next
      BY <2>2 DEF OfServices
    <3>2. ServicesInv /\ ResolutionInv /\ OutcomesInv
      BY DEF ServicesSound
    <3>3. ServicesInv'
      BY <1>1, <3>1, <3>2, ServicesStep
    <3>4. ResolutionInv'
      BY <3>1, <3>2, ResolutionStep
    <3>5. OutcomesInv'
      BY <3>1, <3>2, OutcomesStep
    <3> QED
      BY <3>3, <3>4, <3>5 DEF ServicesSound
  <2> QED
    BY <2>1, <2>2 DEF Next, OfEvent, OfProcess, vars
<1> QED
  BY <1>2, <1>3, PTL DEF FairSpec

(* Whatever services an application registers, and whatever its threads ask *)
(* of them: every mutex that is held is held by one resolution context of   *)
(* one thread, which releases it when it ends, by an exception or not.      *)
THEOREM MutexesAreAccounted == FairSpec => []Services!MutexesAccounted
<1>1. ServicesSound => Services!MutexesAccounted
  BY MutexesAccounted DEF ServicesSound
<1> QED
  BY <1>1, ServicesInvariance, PTL

(* ... an instance that is found for a binding is the one that was made for *)
(* it, and not twice by way of one provider unless a factory asked its own  *)
(* scope for it; it is there only after what its factory asked for; and a   *)
(* cycle that is reported is there among the services.                      *)
THEOREM ResolutionIsRight == FairSpec => []ResolutionIsSound
<1>1. ServicesSound => ResolutionIsSound
  BY MutexesAccounted, OneInstance, SlotsHold, DependenciesAreFirst, CyclesReal
  DEF ServicesSound, ResolutionIsSound
<1> QED
  BY <1>1, ServicesInvariance, PTL

(* ... a slot is filled twice at most, a context constructs no more services *)
(* than are registered and takes no mutex but the root's and its provider's, *)
(* and a request ends in one of the ways the interface names.                *)
THEOREM ServicesAreTyped == FairSpec => []Services!TypeOK
<1>1. ServicesSound => Services!TypeOK
  BY ServicesTyped
<1> QED
  BY <1>1, ServicesInvariance, PTL
=============================================================================
