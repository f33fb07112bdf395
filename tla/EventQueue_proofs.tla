--------------------------- MODULE EventQueue_proofs ---------------------------
(***************************************************************************)
(* Theorems about EventQueue for any producers, codes and bounds.  Typing  *)
(* and mutual exclusion come first; the wakeup argument and the order of   *)
(* the events rest on them, and the step simulation of EventFifo on all.   *)
(***************************************************************************)
EXTENDS EventQueue, SequenceTheorems, TLAPS

USE EventQueueAssumption

-----------------------------------------------------------------------------
LEMMA TypeInit == Init => TypeOK
  BY DEF Init, TypeOK, Threads, MainLabels, PostLabels

LEMMA TypeStep == TypeOK /\ [Next]_vars => TypeOK'
<1> SUFFICES ASSUME TypeOK, [Next]_vars PROVE TypeOK'
  OBVIOUS
<1> USE DEF TypeOK, Threads, Goto, Acquire, MayFail, Exit, CountPost,
            MainLabels, PostLabels
<1>1. CASE CreateAlloc BY <1>1 DEF CreateAlloc
<1>2. CASE CreateInit BY <1>2 DEF CreateInit
<1>3. CASE GetLock BY <1>3 DEF GetLock
<1>4. CASE TestEmpty BY <1>4 DEF TestEmpty
<1>5. CASE TestFull BY <1>5 DEF TestFull
<1>6. CASE SpuriousWakeup BY <1>6 DEF SpuriousWakeup
<1>7. CASE Relock BY <1>7 DEF Relock
<1>8. CASE Deque
  <2>1. events # <<>> => Head(events) \in Items /\ Tail(events) \in Seq(Items)
    BY HeadTailProperties
  <2>2. cur' \in Items \cup {NoItem} /\ events' \in Seq(Items)
    BY <1>8, <2>1 DEF Deque
  <2>3. QED BY <1>8, <2>2 DEF Deque
<1>9. CASE GetUnlock BY <1>9 DEF GetUnlock
<1>10. CASE Handle BY <1>10 DEF Handle
<1>11. CASE PowerOff BY <1>11 DEF PowerOff
<1>12. ASSUME NEW p \in Producers, NEW c \in Codes, Post(p, c) PROVE TypeOK'
  <2>1. [by |-> p, seq |-> posts[p] + 1, code |-> c] \in Items
    BY <1>12 DEF Post, Items
  <2>2. QED BY <1>12, <2>1 DEF Post
<1>13. ASSUME NEW p \in Producers, PostNoMem(p) PROVE TypeOK'
  BY <1>13 DEF PostNoMem
<1>14. ASSUME NEW p \in Producers, PostNoQueue(p) PROVE TypeOK'
  BY <1>14 DEF PostNoQueue
<1>15. ASSUME NEW p \in Producers, PostTooEarly(p) PROVE TypeOK'
  BY <1>15 DEF PostTooEarly
<1>16. ASSUME NEW p \in Producers, SetLock(p) PROVE TypeOK'
  BY <1>16 DEF SetLock
<1>17. ASSUME NEW p \in Producers, Enque(p) PROVE TypeOK'
  <2>1. Append(events, ev[p]) \in Seq(Items)
    BY <1>17, AppendProperties DEF Enque
  <2>2. events' \in Seq(Items)
    BY <1>17, <2>1 DEF Enque
  <2>3. noMem' \in 0..MaxNoMem
    BY <1>17 DEF Enque
  <2>4. QED BY <1>17, <2>2, <2>3 DEF Enque
<1>18. ASSUME NEW p \in Producers, SetUnlock(p) PROVE TypeOK'
  BY <1>18 DEF SetUnlock
<1>19. ASSUME NEW p \in Producers, Signal(p) PROVE TypeOK'
  BY <1>19 DEF Signal
<1>20. CASE UNCHANGED vars
  BY <1>20 DEF vars
<1>21. QED
  BY <1>1, <1>2, <1>3, <1>4, <1>5, <1>6, <1>7, <1>8, <1>9, <1>10, <1>11, <1>12,
     <1>13, <1>14, <1>15, <1>16, <1>17, <1>18, <1>19, <1>20
     DEF Next, MainStep, Call, InPost

(* The variables of the model always have their types, and only allocated
   events are in the list or in the hands of a producer. *)
THEOREM Typing == Spec => []TypeOK
  BY TypeInit, TypeStep, PTL DEF Spec

-----------------------------------------------------------------------------
LEMMA MutexInit == Init => MutexDiscipline
  BY DEF Init, MutexDiscipline, InCritical, Threads

LEMMA MutexStep ==
  TypeOK /\ MutexDiscipline /\ [Next]_vars => MutexDiscipline'
<1> SUFFICES ASSUME TypeOK, MutexDiscipline, [Next]_vars
             PROVE  MutexDiscipline'
  OBVIOUS
<1> USE DEF TypeOK, MutexDiscipline, InCritical, Threads, Goto, Acquire, CountPost
<1>1. CASE CreateAlloc BY <1>1 DEF CreateAlloc
<1>2. CASE CreateInit BY <1>2 DEF CreateInit
<1>3. CASE GetLock BY <1>3 DEF GetLock
<1>4. CASE TestEmpty BY <1>4 DEF TestEmpty
<1>5. CASE TestFull BY <1>5 DEF TestFull
<1>6. CASE SpuriousWakeup BY <1>6 DEF SpuriousWakeup
<1>7. CASE Relock BY <1>7 DEF Relock
<1>8. CASE Deque BY <1>8 DEF Deque
<1>9. CASE GetUnlock BY <1>9 DEF GetUnlock
<1>10. CASE Handle BY <1>10 DEF Handle
<1>11. CASE PowerOff BY <1>11 DEF PowerOff
<1>12. ASSUME NEW p \in Producers, NEW c \in Codes, Post(p, c) PROVE MutexDiscipline'
  BY <1>12 DEF Post
<1>13. ASSUME NEW p \in Producers, PostNoMem(p) PROVE MutexDiscipline'
  BY <1>13 DEF PostNoMem
<1>14. ASSUME NEW p \in Producers, PostNoQueue(p) PROVE MutexDiscipline'
  BY <1>14 DEF PostNoQueue
<1>15. ASSUME NEW p \in Producers, PostTooEarly(p) PROVE MutexDiscipline'
  BY <1>15 DEF PostTooEarly
<1>16. ASSUME NEW p \in Producers, SetLock(p) PROVE MutexDiscipline'
  BY <1>16 DEF SetLock
<1>17. ASSUME NEW p \in Producers, Enque(p) PROVE MutexDiscipline'
  BY <1>17 DEF Enque
<1>18. ASSUME NEW p \in Producers, SetUnlock(p) PROVE MutexDiscipline'
  BY <1>18 DEF SetUnlock
<1>19. ASSUME NEW p \in Producers, Signal(p) PROVE MutexDiscipline'
  BY <1>19 DEF Signal
<1>20. CASE UNCHANGED vars
  BY <1>20 DEF vars
<1>21. QED
  BY <1>1, <1>2, <1>3, <1>4, <1>5, <1>6, <1>7, <1>8, <1>9, <1>10, <1>11,
     <1>12, <1>13, <1>14, <1>15, <1>16, <1>17, <1>18, <1>19, <1>20
     DEF Next, MainStep, Call, InPost

(* evque->mutex is held exactly by the thread inside a guarded section. *)
THEOREM MutualExclusion == Spec => []MutexDiscipline
  BY TypeInit, TypeStep, MutexInit, MutexStep, PTL DEF Spec

-----------------------------------------------------------------------------
LEMMA WakeupInit == Init => NoLostWakeup
  BY DEF Init, NoLostWakeup, Threads

(* A producer that has linked an event stays on its way to the signal until it
   sends it, and the signal moves the sleeping loop on. *)
LEMMA WakeupStep ==
  TypeOK /\ NoLostWakeup /\ [Next]_vars => NoLostWakeup'
<1> SUFFICES ASSUME TypeOK, NoLostWakeup, [Next]_vars
             PROVE  NoLostWakeup'
  OBVIOUS
<1> USE DEF TypeOK, NoLostWakeup, Threads, Goto, Acquire, CountPost
<1>1. CASE CreateAlloc BY <1>1 DEF CreateAlloc
<1>2. CASE CreateInit BY <1>2 DEF CreateInit
<1>3. CASE GetLock BY <1>3 DEF GetLock
<1>4. CASE TestEmpty BY <1>4 DEF TestEmpty
<1>5. CASE TestFull BY <1>5 DEF TestFull
<1>6. CASE SpuriousWakeup BY <1>6 DEF SpuriousWakeup
<1>7. CASE Relock BY <1>7 DEF Relock
<1>8. CASE Deque BY <1>8 DEF Deque
<1>9. CASE GetUnlock BY <1>9 DEF GetUnlock
<1>10. CASE Handle BY <1>10 DEF Handle
<1>11. CASE PowerOff BY <1>11 DEF PowerOff
<1>12. ASSUME NEW p \in Producers, NEW c \in Codes, Post(p, c) PROVE NoLostWakeup'
  BY <1>12 DEF Post
<1>13. ASSUME NEW p \in Producers, PostNoMem(p) PROVE NoLostWakeup'
  BY <1>13 DEF PostNoMem
<1>14. ASSUME NEW p \in Producers, PostNoQueue(p) PROVE NoLostWakeup'
  BY <1>14 DEF PostNoQueue
<1>15. ASSUME NEW p \in Producers, PostTooEarly(p) PROVE NoLostWakeup'
  BY <1>15 DEF PostTooEarly
<1>16. ASSUME NEW p \in Producers, SetLock(p) PROVE NoLostWakeup'
  BY <1>16 DEF SetLock
<1>17. ASSUME NEW p \in Producers, Enque(p) PROVE NoLostWakeup'
  BY <1>17 DEF Enque
<1>18. ASSUME NEW p \in Producers, SetUnlock(p) PROVE NoLostWakeup'
  BY <1>18 DEF SetUnlock
<1>19. ASSUME NEW p \in Producers, Signal(p) PROVE NoLostWakeup'
  BY <1>19 DEF Signal
<1>20. CASE UNCHANGED vars
  BY <1>20 DEF vars
<1>21. QED
  BY <1>1, <1>2, <1>3, <1>4, <1>5, <1>6, <1>7, <1>8, <1>9, <1>10, <1>11,
     <1>12, <1>13, <1>14, <1>15, <1>16, <1>17, <1>18, <1>19, <1>20
     DEF Next, MainStep, Call, InPost

(* The event loop never sleeps on a queued event without a signal to come. *)
THEOREM WakeupSafety == Spec => []NoLostWakeup
  BY TypeInit, TypeStep, WakeupInit, WakeupStep, PTL DEF Spec

-----------------------------------------------------------------------------
LEMMA NeverNullInit == Init => NeverNullEvent
  BY DEF Init, NeverNullEvent, Threads

LEMMA NeverNullStep ==
  TypeOK /\ NeverNullEvent /\ [Next]_vars => NeverNullEvent'
<1> SUFFICES ASSUME TypeOK, NeverNullEvent, [Next]_vars
             PROVE  NeverNullEvent'
  OBVIOUS
<1> USE DEF TypeOK, NeverNullEvent, Threads, Goto, CountPost
<1>1. CASE CreateAlloc BY <1>1 DEF CreateAlloc
<1>2. CASE CreateInit BY <1>2 DEF CreateInit
<1>3. CASE GetLock BY <1>3 DEF GetLock
<1>4. CASE TestEmpty BY <1>4 DEF TestEmpty
<1>5. CASE TestFull BY <1>5 DEF TestFull
<1>6. CASE SpuriousWakeup BY <1>6 DEF SpuriousWakeup
<1>7. CASE Relock BY <1>7 DEF Relock
<1>8. CASE Deque
  <2>1. Head(events) \in Items
    BY <1>8, HeadTailProperties DEF Deque
  <2>2. cur' # NoItem
    BY <1>8, <2>1 DEF Deque
  <2>3. QED BY <1>8, <2>2 DEF Deque
<1>9. CASE GetUnlock BY <1>9 DEF GetUnlock
<1>10. CASE Handle BY <1>10 DEF Handle
<1>11. CASE PowerOff BY <1>11 DEF PowerOff
<1>12. ASSUME NEW p \in Producers, NEW c \in Codes, Post(p, c) PROVE NeverNullEvent'
  BY <1>12 DEF Post
<1>13. ASSUME NEW p \in Producers, PostNoMem(p) PROVE NeverNullEvent'
  BY <1>13 DEF PostNoMem
<1>14. ASSUME NEW p \in Producers, PostNoQueue(p) PROVE NeverNullEvent'
  BY <1>14 DEF PostNoQueue
<1>15. ASSUME NEW p \in Producers, PostTooEarly(p) PROVE NeverNullEvent'
  BY <1>15 DEF PostTooEarly
<1>16. ASSUME NEW p \in Producers, SetLock(p) PROVE NeverNullEvent'
  BY <1>16 DEF SetLock
<1>17. ASSUME NEW p \in Producers, Enque(p) PROVE NeverNullEvent'
  <2>1. Append(events, ev[p]) # <<>>
    BY <1>17, AppendProperties DEF Enque
  <2>2. pc'[Main] = pc[Main] /\ cur' = cur
    BY <1>17 DEF Enque
  <2>3. events # <<>> => events' # <<>>
    BY <1>17, <2>1 DEF Enque
  <2>4. QED BY <2>2, <2>3
<1>18. ASSUME NEW p \in Producers, SetUnlock(p) PROVE NeverNullEvent'
  BY <1>18 DEF SetUnlock
<1>19. ASSUME NEW p \in Producers, Signal(p) PROVE NeverNullEvent'
  BY <1>19 DEF Signal
<1>20. CASE UNCHANGED vars
  BY <1>20 DEF vars
<1>21. QED
  BY <1>1, <1>2, <1>3, <1>4, <1>5, <1>6, <1>7, <1>8, <1>9, <1>10, <1>11,
     <1>12, <1>13, <1>14, <1>15, <1>16, <1>17, <1>18, <1>19, <1>20
     DEF Next, MainStep, Call, InPost

(* The event loop never handles a null event. *)
THEOREM NullSafety == Spec => []NeverNullEvent
  BY TypeInit, TypeStep, NeverNullInit, NeverNullStep, PTL DEF Spec

-----------------------------------------------------------------------------
(* Between two events the loop holds none. *)
HandIdle == pc[Main] \notin {"release", "handle", "off"} => cur = NoItem

LEMMA HandIdleInit == Init => HandIdle
  BY DEF Init, HandIdle

LEMMA HandIdleStep == TypeOK /\ HandIdle /\ [Next]_vars => HandIdle'
<1> SUFFICES ASSUME TypeOK, HandIdle, [Next]_vars
             PROVE  HandIdle'
  OBVIOUS
<1> USE DEF TypeOK, HandIdle, Threads, Goto, CountPost
<1>1. CASE CreateAlloc BY <1>1 DEF CreateAlloc
<1>2. CASE CreateInit BY <1>2 DEF CreateInit
<1>3. CASE GetLock BY <1>3 DEF GetLock
<1>4. CASE TestEmpty BY <1>4 DEF TestEmpty
<1>5. CASE TestFull BY <1>5 DEF TestFull
<1>6. CASE SpuriousWakeup BY <1>6 DEF SpuriousWakeup
<1>7. CASE Relock BY <1>7 DEF Relock
<1>8. CASE Deque BY <1>8 DEF Deque
<1>9. CASE GetUnlock BY <1>9 DEF GetUnlock
<1>10. CASE Handle BY <1>10 DEF Handle
<1>11. CASE PowerOff BY <1>11 DEF PowerOff
<1>12. ASSUME NEW p \in Producers, NEW c \in Codes, Post(p, c) PROVE HandIdle'
  BY <1>12 DEF Post
<1>13. ASSUME NEW p \in Producers, PostNoMem(p) PROVE HandIdle'
  BY <1>13 DEF PostNoMem
<1>14. ASSUME NEW p \in Producers, PostNoQueue(p) PROVE HandIdle'
  BY <1>14 DEF PostNoQueue
<1>15. ASSUME NEW p \in Producers, PostTooEarly(p) PROVE HandIdle'
  BY <1>15 DEF PostTooEarly
<1>16. ASSUME NEW p \in Producers, SetLock(p) PROVE HandIdle'
  BY <1>16 DEF SetLock
<1>17. ASSUME NEW p \in Producers, Enque(p) PROVE HandIdle'
  BY <1>17 DEF Enque
<1>18. ASSUME NEW p \in Producers, SetUnlock(p) PROVE HandIdle'
  BY <1>18 DEF SetUnlock
<1>19. ASSUME NEW p \in Producers, Signal(p) PROVE HandIdle'
  BY <1>19 DEF Signal
<1>20. CASE UNCHANGED vars
  BY <1>20 DEF vars
<1>21. QED
  BY <1>1, <1>2, <1>3, <1>4, <1>5, <1>6, <1>7, <1>8, <1>9, <1>10, <1>11,
     <1>12, <1>13, <1>14, <1>15, <1>16, <1>17, <1>18, <1>19, <1>20
     DEF Next, MainStep, Call, InPost

(* Each step of the queue is a step of the abstract channel or leaves it
   unchanged. *)
LEMMA FifoStep ==
  TypeOK /\ HandIdle /\ NeverNullEvent /\ [Next]_vars => [Fifo!Next]_(Fifo!vars)
<1> DEFINE Goal == [Fifo!Next]_(Fifo!vars)
<1> SUFFICES ASSUME TypeOK, HandIdle, NeverNullEvent, [Next]_vars
             PROVE  Goal
  OBVIOUS
<1> USE DEF Goto, CountPost, Fifo!Next, Fifo!vars, Fifo!Die, MayFail, Exit
<1>1. CASE CreateAlloc BY <1>1 DEF CreateAlloc
<1>2. CASE CreateInit BY <1>2 DEF CreateInit
<1>3. CASE GetLock BY <1>3 DEF GetLock
<1>4. CASE TestEmpty BY <1>4 DEF TestEmpty
<1>5. CASE TestFull BY <1>5 DEF TestFull
<1>6. CASE SpuriousWakeup BY <1>6 DEF SpuriousWakeup
<1>7. CASE Relock BY <1>7 DEF Relock
<1>8. CASE Deque
  <2>1. cur = NoItem BY <1>8 DEF Deque, HandIdle
  <2>2. events # <<>> BY <1>8 DEF Deque, NeverNullEvent
  <2>3. Fifo!Receive BY <1>8, <2>1, <2>2 DEF Deque, Fifo!Receive
  <2>4. QED BY <2>3
<1>9. CASE GetUnlock BY <1>9 DEF GetUnlock
<1>10. CASE Handle
  <2>1. Fifo!Finish BY <1>10 DEF Handle, NeverNullEvent, Fifo!Finish
  <2>2. QED BY <2>1
<1>11. CASE PowerOff BY <1>11 DEF PowerOff
<1>12. ASSUME NEW p \in Producers, NEW c \in Codes, Post(p, c) PROVE Goal
  BY <1>12 DEF Post
<1>13. ASSUME NEW p \in Producers, PostNoMem(p) PROVE Goal
  BY <1>13 DEF PostNoMem
<1>14. ASSUME NEW p \in Producers, PostNoQueue(p) PROVE Goal
  BY <1>14 DEF PostNoQueue
<1>15. ASSUME NEW p \in Producers, PostTooEarly(p) PROVE Goal
  BY <1>15 DEF PostTooEarly
<1>16. ASSUME NEW p \in Producers, SetLock(p) PROVE Goal
  BY <1>16 DEF SetLock
<1>17. ASSUME NEW p \in Producers, Enque(p) PROVE Goal
  <2>1. ev[p] \in Items BY <1>17 DEF Enque, TypeOK
  <2>2. CASE events' = Append(events, ev[p])
    <3>1. Fifo!Send(ev[p]) BY <1>17, <2>2 DEF Enque, Fifo!Send
    <3>2. QED BY <2>1, <3>1
  <2>3. CASE UNCHANGED events
    BY <1>17, <2>3 DEF Enque
  <2>4. QED BY <1>17, <2>2, <2>3 DEF Enque
<1>18. ASSUME NEW p \in Producers, SetUnlock(p) PROVE Goal
  BY <1>18 DEF SetUnlock
<1>19. ASSUME NEW p \in Producers, Signal(p) PROVE Goal
  BY <1>19 DEF Signal
<1>20. CASE UNCHANGED vars
  BY <1>20 DEF vars
<1>21. QED
  BY <1>1, <1>2, <1>3, <1>4, <1>5, <1>6, <1>7, <1>8, <1>9, <1>10, <1>11,
     <1>12, <1>13, <1>14, <1>15, <1>16, <1>17, <1>18, <1>19, <1>20
     DEF Next, MainStep, Call, InPost

(* Events leave in the order they entered, each once: apart from fairness the
   queue implements the abstract channel. *)
THEOREM ImplementsFifo == Spec => Fifo!Init /\ [][Fifo!Next]_(Fifo!vars)
<1>1. Init => Fifo!Init
  BY DEF Init, Fifo!Init
<1>2. QED
  BY <1>1, TypeInit, TypeStep, HandIdleInit, HandIdleStep, NeverNullInit,
     NeverNullStep, FifoStep, PTL DEF Spec

-----------------------------------------------------------------------------
(* What PostingOrder needs to be inductive: no event is numbered beyond its
   producer's calls, and the one in a producer's hands is its latest. *)
Numbered ==
  /\ \A i \in 1..Len(events) : events[i].seq <= posts[events[i].by]
  /\ cur # NoItem => cur.seq <= posts[cur.by]
  /\ \A p \in Producers : ev[p] # NoItem =>
       ev[p].by = p /\ ev[p].seq = posts[p] /\ pc[p] \in {"lock", "enque"}

Order == PostingOrder /\ Numbered

LEMMA OrderInit == Init => Order
  BY DEF Init, Order, PostingOrder, Numbered

LEMMA ItemFields ==
  ASSUME NEW e \in Items
  PROVE  e.by \in Producers /\ e.seq \in 1..MaxPosts /\ e # NoItem
  BY DEF Items

LEMMA OrderStep == TypeOK /\ Order /\ [Next]_vars => Order'
<1> SUFFICES ASSUME TypeOK, Order, [Next]_vars
             PROVE  Order'
  OBVIOUS
<1> USE DEF Order, PostingOrder, Numbered, Before, Goto, Threads
<1>a. /\ events \in Seq(Items) /\ posts \in [Producers -> 0..MaxPosts]
      /\ ev \in [Producers -> Items \cup {NoItem}] /\ cur \in Items \cup {NoItem}
      /\ pc \in [Threads -> MainLabels \cup PostLabels]
      /\ \A i \in 1..Len(events) :
           /\ events[i] \in Items
           /\ events[i].by \in Producers /\ events[i].seq \in 1..MaxPosts
      /\ Len(events) \in Nat
  BY ElementOfSeq, LenProperties, ItemFields DEF TypeOK
<1>b. cur # NoItem => cur.by \in Producers /\ cur.seq \in 1..MaxPosts
  BY <1>a, ItemFields
<1>1. CASE CreateAlloc
  BY <1>1, <1>a, <1>b DEF CreateAlloc
<1>2. CASE CreateInit
  BY <1>2, <1>a, <1>b DEF CreateInit
<1>3. CASE GetLock
  BY <1>3, <1>a, <1>b DEF GetLock
<1>4. CASE TestEmpty
  BY <1>4, <1>a, <1>b DEF TestEmpty
<1>5. CASE TestFull
  BY <1>5, <1>a, <1>b DEF TestFull
<1>6. CASE SpuriousWakeup
  BY <1>6, <1>a, <1>b DEF SpuriousWakeup
<1>7. CASE Relock
  BY <1>7, <1>a, <1>b DEF Relock
<1>8. CASE Deque
  <2>1. CASE events # <<>>
    <3>1. /\ cur' = events[1]
          /\ Len(events') = Len(events) - 1
          /\ \A i \in 1..Len(events') : events'[i] = events[i + 1]
      BY <1>8, <2>1, <1>a, HeadTailProperties DEF Deque
    <3>2. 1 \in 1..Len(events) /\ Len(events) \in Nat
      BY <2>1, <1>a, EmptySeq
    <3>3. UNCHANGED <<ev, posts>> /\ \A p \in Producers : pc'[p] = pc[p]
      BY <1>8, <1>a DEF Deque
    <3>4. \A i \in 1..Len(events') : i + 1 \in 1..Len(events)
      BY <3>1, <3>2
    <3>5. PostingOrder'
      <4>1. \A i, j \in 1..Len(events') : i < j => Before(events'[i], events'[j])
        <5> SUFFICES ASSUME NEW i \in 1..Len(events'), NEW j \in 1..Len(events'),
                            i < j
                     PROVE  Before(events'[i], events'[j])
          OBVIOUS
        <5>1. i + 1 \in 1..Len(events) /\ j + 1 \in 1..Len(events) /\ i + 1 < j + 1
          BY <3>1, <3>4, <1>a
        <5>2. Before(events[i + 1], events[j + 1])
          BY <5>1
        <5>3. QED BY <5>2, <3>1
      <4>2. \A i \in 1..Len(events') : Before(cur', events'[i])
        BY <1>a, <3>1, <3>2, <3>4
      <4>3. \A q \in Producers : ev[q] # NoItem =>
              /\ \A i \in 1..Len(events') : Before(events'[i], ev[q])
              /\ Before(cur', ev[q])
        <5> SUFFICES ASSUME NEW q \in Producers, ev[q] # NoItem
                     PROVE  /\ \A i \in 1..Len(events') : Before(events'[i], ev[q])
                            /\ Before(cur', ev[q])
          OBVIOUS
        <5>1. \A i \in 1..Len(events) : Before(events[i], ev[q])
          BY <1>a
        <5>2. Before(events[1], ev[q])
          BY <5>1, <3>2
        <5>3. \A i \in 1..Len(events') : Before(events[i + 1], ev[q])
          BY <5>1, <3>4
        <5>4. QED BY <5>2, <5>3, <3>1
      <4>4. QED BY <3>3, <4>1, <4>2, <4>3
    <3>6. Numbered'
      <4>1. \A i \in 1..Len(events') : events'[i].seq <= posts[events'[i].by]
        <5> SUFFICES ASSUME NEW i \in 1..Len(events')
                     PROVE  events'[i].seq <= posts[events'[i].by]
          OBVIOUS
        <5>1. events[i + 1].seq <= posts[events[i + 1].by]
          BY <3>4, <1>a
        <5>2. QED BY <5>1, <3>1
      <4>2. cur'.seq <= posts[cur'.by]
        BY <1>a, <3>1, <3>2
      <4>3. \A p \in Producers : ev[p] # NoItem =>
              /\ ev[p].by = p /\ ev[p].seq = posts[p]
              /\ pc'[p] \in {"lock", "enque"}
        BY <1>a, <3>3
      <4>4. QED BY <3>3, <4>1, <4>2, <4>3
    <3>7. QED BY <3>5, <3>6
  <2>2. CASE events = <<>>
    BY <1>8, <2>2, <1>a, <1>b DEF Deque
  <2>3. QED BY <2>1, <2>2
<1>9. CASE GetUnlock
  BY <1>9, <1>a, <1>b DEF GetUnlock
<1>10. CASE Handle
  BY <1>10, <1>a, <1>b DEF Handle
<1>11. CASE PowerOff
  BY <1>11, <1>a, <1>b DEF PowerOff
<1>12. ASSUME NEW p \in Producers, NEW c \in Codes, Post(p, c) PROVE Order'
  BY <1>12, <1>a, <1>b DEF Post, CountPost
<1>13. ASSUME NEW p \in Producers, PostNoMem(p) PROVE Order'
  BY <1>13, <1>a, <1>b DEF PostNoMem, CountPost
<1>14. ASSUME NEW p \in Producers, PostNoQueue(p) PROVE Order'
  BY <1>14, <1>a, <1>b DEF PostNoQueue, CountPost
<1>15. ASSUME NEW p \in Producers, PostTooEarly(p) PROVE Order'
  BY <1>15, <1>a, <1>b DEF PostTooEarly, CountPost
<1>16. ASSUME NEW p \in Producers, SetLock(p) PROVE Order'
  BY <1>16, <1>a, <1>b DEF SetLock
<1>17. ASSUME NEW p \in Producers, Enque(p) PROVE Order'
  <2>1. ev[p] \in Items /\ ev[p] # NoItem /\ pc[p] = "enque"
    BY <1>17, ItemFields DEF Enque, TypeOK
  <2>2. UNCHANGED <<cur, posts>> /\ ev' = [ev EXCEPT ![p] = NoItem]
    BY <1>17 DEF Enque
  <2>3. \A q \in Producers : q # p => pc'[q] = pc[q] /\ ev'[q] = ev[q]
    BY <1>17, <1>a DEF Enque
  <2>4. ev'[p] = NoItem
    BY <2>2, <1>a
  <2>5. CASE events' = Append(events, ev[p])
    <3>1. /\ Len(events') = Len(events) + 1
          /\ \A i \in 1..Len(events) : events'[i] = events[i]
          /\ events'[Len(events) + 1] = ev[p]
      BY <2>1, <2>5, <1>a, AppendProperties
    <3>2. \A i \in 1..Len(events') : i \in 1..Len(events) \/ i = Len(events) + 1
      BY <3>1, <1>a
    <3>3. \A i, j \in 1..Len(events') : i < j => i \in 1..Len(events)
      BY <3>1, <1>a
    <3>4. PostingOrder'
      <4>1. \A i, j \in 1..Len(events') : i < j => Before(events'[i], events'[j])
        <5> SUFFICES ASSUME NEW i \in 1..Len(events'), NEW j \in 1..Len(events'),
                            i < j
                     PROVE  Before(events'[i], events'[j])
          OBVIOUS
        <5>1. i \in 1..Len(events) /\ events'[i] = events[i]
          BY <3>1, <3>3
        <5>2. CASE j \in 1..Len(events)
          BY <5>1, <5>2, <3>1
        <5>3. CASE j = Len(events) + 1
          BY <5>1, <5>3, <2>1, <3>1
        <5>4. QED BY <5>2, <5>3, <3>2
      <4>2. cur # NoItem => \A i \in 1..Len(events') : Before(cur, events'[i])
        BY <1>a, <2>1, <3>1, <3>2
      <4>3. ASSUME NEW q \in Producers, ev'[q] # NoItem
            PROVE  /\ \A i \in 1..Len(events') : Before(events'[i], ev'[q])
                   /\ cur # NoItem => Before(cur, ev'[q])
        <5>1. q # p /\ ev'[q] = ev[q] /\ ev[q] # NoItem
          BY <4>3, <2>3, <2>4
        <5>2. ~(ev[p].by = ev[q].by)
          BY <5>1, <2>1
        <5>3. QED BY <5>1, <5>2, <3>1, <3>2
      <4>4. QED BY <2>2, <4>1, <4>2, <4>3
    <3>5. Numbered'
      <4>1. \A i \in 1..Len(events') : events'[i].seq <= posts[events'[i].by]
        BY <1>a, <2>1, <3>1, <3>2
      <4>2. \A q \in Producers : ev'[q] # NoItem =>
              ev'[q].by = q /\ ev'[q].seq = posts[q] /\ pc'[q] \in {"lock", "enque"}
        BY <2>3, <2>4
      <4>3. QED BY <2>2, <4>1, <4>2
    <3>6. QED BY <3>4, <3>5
  <2>6. CASE UNCHANGED events
    BY <1>a, <1>b, <2>2, <2>3, <2>4, <2>6
  <2>7. QED BY <1>17, <2>5, <2>6 DEF Enque
<1>18. ASSUME NEW p \in Producers, SetUnlock(p) PROVE Order'
  BY <1>18, <1>a, <1>b DEF SetUnlock
<1>19. ASSUME NEW p \in Producers, Signal(p) PROVE Order'
  BY <1>19, <1>a, <1>b DEF Signal
<1>20. CASE UNCHANGED vars
  BY <1>20 DEF vars
<1>21. QED
  BY <1>1, <1>2, <1>3, <1>4, <1>5, <1>6, <1>7, <1>8, <1>9, <1>10, <1>11,
     <1>12, <1>13, <1>14, <1>15, <1>16, <1>17, <1>18, <1>19, <1>20
     DEF Next, MainStep, Call, InPost

(* The events of one producer are handled in posting order, none twice. *)
THEOREM OrderSafety == Spec => []PostingOrder
<1>1. Order => PostingOrder
  BY DEF Order
<1>2. QED
  BY <1>1, TypeInit, TypeStep, OrderInit, OrderStep, PTL DEF Spec
=============================================================================
