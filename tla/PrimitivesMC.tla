---------------------------- MODULE PrimitivesMC ----------------------------
(* Model checking of all builds of the synchronisation primitives side by   *)
(* side. They do not interact, so a behaviour exercises one of them, chosen *)
(* in its first state, and the variables stand for that one's fields.       *)
EXTENDS Primitive, FiniteSets

VARIABLES primitive,   \* which one, never changes
          platform,    \* the build of a futex based primitive
          count,       \* AdmitCounter, Countdown
          word,        \* FutexWord, WaitWord, IsOpen
          pc, first, safe, patience, posted, admitted,
          crowded      \* history: waiters have been inside calls together

vars == <<primitive, platform, count, word, pc, first, safe, patience,
          posted, admitted, crowded>>

Semaphore == INSTANCE Semaphore WITH
  AdmitCounter <- count, FutexWord <- word,
  initialAdmitCounter <- first, safeAdmitCounter <- safe
Latch == INSTANCE Latch WITH Countdown <- count, FutexWord <- word
Gate == INSTANCE Gate WITH FutexWord <- word, opens <- posted
SemaphorePosix == INSTANCE SemaphorePosix WITH AdmitCounter <- count
LatchPosix == INSTANCE LatchPosix WITH Countdown <- count
GatePosix == INSTANCE GatePosix WITH IsOpen <- word

(* The fields a primitive does not have keep an arbitrary value. *)
NoSemaphoreLocals == first = 0 /\ safe = 0 /\ admitted = 0

InitOf(name) ==
  CASE name = "Semaphore" -> Semaphore!Init
    [] name = "Latch" -> Latch!Init /\ NoSemaphoreLocals
    [] name = "Gate" -> Gate!Init /\ NoSemaphoreLocals /\ count = 0
    [] name = "SemaphorePosix" ->
         /\ SemaphorePosix!Init
         /\ platform = "posix" /\ word = 0 /\ first = 0 /\ safe = 0
    [] name = "LatchPosix" ->
         LatchPosix!Init /\ platform = "posix" /\ word = 0 /\ NoSemaphoreLocals
    [] name = "GatePosix" ->
         /\ GatePosix!Init
         /\ platform = "posix" /\ count = 0 /\ posted = 0 /\ NoSemaphoreLocals

Init ==
  /\ crowded = FALSE
  /\ primitive \in {"Semaphore", "Latch", "Gate",
                    "SemaphorePosix", "LatchPosix", "GatePosix"}
  /\ InitOf(primitive)

(* The steps of a primitive leave the fields it does not have alone. *)
One(name, step, others) ==
  /\ primitive = name
  /\ step
  /\ crowded' = (crowded \/ Cardinality({t \in Waiter : pc'[t] # "idle"}) > 1)
  /\ UNCHANGED others
  /\ UNCHANGED primitive

Next ==
  \/ One("Semaphore", Semaphore!Next, <<>>)
  \/ One("Latch", Latch!Next, <<first, safe, admitted>>)
  \/ One("Gate", Gate!Next, <<count, first, safe, admitted>>)
  \/ One("SemaphorePosix", SemaphorePosix!Next, <<platform, word, first, safe>>)
  \/ One("LatchPosix", LatchPosix!Next,
         <<platform, word, first, safe, admitted>>)
  \/ One("GatePosix", GatePosix!Next,
         <<platform, count, first, safe, admitted, posted>>)

(* The scheduling assumptions of Semaphore, Latch and Gate. *)
Fair(S(_), L(_), G(_), t) ==
  \/ One("Semaphore", S(t), <<>>)
  \/ One("Latch", L(t), <<first, safe, admitted>>)
  \/ One("Gate", G(t), <<count, first, safe, admitted>>)

Fairness ==
  \A t \in Thread :
    /\ WF_vars(Fair(Semaphore!Step, Latch!Step, Gate!Step, t))
    /\ WF_vars(Fair(Semaphore!PatienceElapses, Latch!PatienceElapses,
                    Gate!PatienceElapses, t))
    /\ SF_vars(Fair(Semaphore!TimeOut, Latch!TimeOut, Gate!TimeOut, t))

FairSpec == Init /\ [][Next]_vars /\ Fairness

-----------------------------------------------------------------------------
(* Properties: what each of the modules says of its primitive. *)

(* No call stays with a primitive that could let it go. A gate that stays   *)
(* open releases every waiter. A semaphore gives its ticket to a lone       *)
(* waiter, and a latch that is only counted down lets a lone waiter pass;   *)
(* see NoTicketLeftBehind and NeverSpuriouslyClosed for the other cases.    *)
WaitersReleased ==
  \A t \in Waiter :
    []<>(/\ primitive = "Semaphore" => crowded \/ Semaphore!Served(t)
         /\ primitive = "Latch" =>
              crowded \/ posted > 0 \/ Latch!Released(t)
         /\ primitive = "Gate" => Gate!Released(t))

(* A timed wait does not go on once its patience has passed, whoever else   *)
(* posts and waits; for the Linux semaphore see Semaphore!TimedWaitReturns. *)
TimedWaitsReturn ==
  \A t \in Waiter :
    []<>(/\ primitive = "Semaphore" /\ platform = "windows" =>
              ~Semaphore!Overdue(t)
         /\ primitive = "Latch" => ~Latch!Overdue(t)
         /\ primitive = "Gate" => ~Gate!Overdue(t))

(* Nobody is asleep at an open gate unless a wake-up is on its way. *)
OpenGateWakes == primitive = "Gate" => Gate!OpenGateWakes

(* On the condition variable build, tickets have takers, and opening a      *)
(* latch or a gate gets at least one waiter through.                        *)
PosixSignalsReachSomeone ==
  /\ primitive = "SemaphorePosix" => SemaphorePosix!TicketsHaveTakers
  /\ primitive = "LatchPosix" => LatchPosix!SomeoneGetsThrough
  /\ primitive = "GatePosix" => GatePosix!SomeoneGetsThrough

(* That build's steps, too, are steps of the counting semaphore and of the  *)
(* countdown latch, or not visible to them.                                 *)
PosixImplements ==
  [][/\ primitive = "SemaphorePosix" => SemaphorePosix!AbstractStep
     /\ primitive = "LatchPosix" => LatchPosix!AbstractStep]_vars
=============================================================================
