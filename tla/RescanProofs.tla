---------------------------- MODULE RescanProofs ----------------------------
(***************************************************************************)
(* The rescan workers keep what Rescan states of them, for any number of   *)
(* workers, any ranges, any chunk size and any sequence of troubles: the   *)
(* invariant RescanInv is inductive and implies the module's invariants.   *)
(***************************************************************************)
EXTENDS RangeProofs

(* A step of worker w or of its process.                                    *)
Moves(w) == WorkerStep(w) \/ WorkerFault(w) \/ Exit(w) \/ Restart(w)

-----------------------------------------------------------------------------
(* Sequences of ranges *)

(* The bounds of a range.                                                   *)
LEMMA RangeFacts ==
  /\ MaxNum \in Nat /\ NoRange \in Ranges
  /\ \A r \in Ranges : /\ r.from \in Nat /\ r.to \in Nat
                       /\ r.from <= r.to /\ r.to <= MaxNum
  /\ \A a, b \in Nat : a <= b /\ b <= MaxNum => [from |-> a, to |-> b] \in Ranges
  BY RescanAssumption DEF Ranges, NoRange, Num

(* The first range of a list and the rest.                                  *)
LEMMA HeadTailFacts ==
  ASSUME NEW s \in Seq(Ranges), s # <<>>
  PROVE  /\ Head(s) \in Ranges /\ Tail(s) \in Seq(Ranges) /\ Len(s) \in Nat
         /\ Len(s) = 1 <=> Tail(s) = <<>>
         /\ \A n : n \in NumbersOf(ToSet(s))
                     <=> n \in Numbers(Head(s)) \/ n \in NumbersOf(ToSet(Tail(s)))
<1>1. /\ Head(s) \in Ranges /\ Tail(s) \in Seq(Ranges) /\ Len(s) \in Nat
      /\ Len(Tail(s)) = Len(s) - 1
      /\ DOMAIN s = 1 .. Len(s) /\ Len(s) >= 1 /\ s[1] = Head(s)
      /\ DOMAIN Tail(s) = 1 .. Len(s) - 1
      /\ \A i \in 1 .. Len(s) - 1 : Tail(s)[i] = s[i + 1]
  OBVIOUS
<1>0. Len(s) = 1 <=> Tail(s) = <<>>
  <2> DEFINE t == Tail(s)
  <2>1. t \in Seq(Ranges) /\ Len(t) = Len(s) - 1 /\ Len(s) \in Nat
    BY <1>1
  <2> HIDE DEF t
  <2>2. \A u \in Seq(Ranges) : u = <<>> <=> Len(u) = 0
    OBVIOUS
  <2>3. t = <<>> <=> Len(t) = 0
    BY <2>1, <2>2, Zenon
  <2>4. t = <<>> <=> Len(s) = 1
    BY <2>1, <2>3
  <2> QED BY <2>4 DEF t
<1> SUFFICES ASSUME NEW n
             PROVE  n \in NumbersOf(ToSet(s))
                      <=> n \in Numbers(Head(s)) \/ n \in NumbersOf(ToSet(Tail(s)))
  BY <1>0, <1>1
<1>2. n \in NumbersOf(ToSet(s)) <=> \E i \in DOMAIN s : n \in Numbers(s[i])
  BY NumbersOfSeq
<1>3. n \in NumbersOf(ToSet(Tail(s))) <=> \E i \in DOMAIN Tail(s) : n \in Numbers(Tail(s)[i])
  BY <1>1, NumbersOfSeq
<1>4. \A i \in DOMAIN s : i = 1 \/ (i - 1 \in DOMAIN Tail(s) /\ Tail(s)[i - 1] = s[i])
  BY <1>1
<1>5. \A i \in DOMAIN Tail(s) : i + 1 \in DOMAIN s /\ Tail(s)[i] = s[i + 1]
  BY <1>1
<1>6. 1 \in DOMAIN s
  BY <1>1
<1> QED BY <1>1, <1>2, <1>3, <1>4, <1>5, <1>6

(* An empty list has no numbers.                                            *)
LEMMA NoNumbers == NumbersOf(ToSet(<<>>)) = {}
  BY DEF NumbersOf, ToSet

(* What is pushed after an error: every chunk that is left.                 *)
LEMMA RequeueFacts ==
  ASSUME NEW s \in Seq(Ranges), NEW r \in Ranges
  PROVE  /\ Append(Reverse(s), r) \in Seq(Ranges) /\ Append(Reverse(s), r) # <<>>
         /\ NumbersOf(ToSet(s)) \subseteq NumbersOf(ToSet(Append(Reverse(s), r)))
<1> DEFINE t == Append(Reverse(s), r)
<1>1. Reverse(s) \in Seq(Ranges) /\ Len(Reverse(s)) = Len(s)
  BY DEF Reverse
<1>2. t \in Seq(Ranges) /\ t # <<>>
  BY <1>1
<1>3. \A i \in DOMAIN s : (Len(s) - i) + 1 \in DOMAIN t /\ t[(Len(s) - i) + 1] = s[i]
  BY <1>1 DEF Reverse
<1> HIDE DEF t
<1>4. ASSUME NEW n \in NumbersOf(ToSet(s)) PROVE n \in NumbersOf(ToSet(t))
  <2>1. PICK i \in DOMAIN s : n \in Numbers(s[i])
    BY NumbersOfSeq
  <2> QED BY <1>2, <1>3, <2>1, NumbersOfSeq
<1> QED BY <1>2, <1>4 DEF t

-----------------------------------------------------------------------------
(* Types *)

WorkerTypes ==
  /\ pc \in [Worker -> PC] /\ job \in [Worker -> Ranges]
  /\ chunks \in [Worker -> Seq(Ranges)] /\ todo \in [Worker -> Seq(Ranges)]
  /\ num \in [Worker -> 0 .. MaxNum + 1]

(* What a worker has in hand, in terms of its chunk and of its list.        *)
LEMMA HandFacts ==
  ASSUME RescanTypeOK, HandInv, NEW w \in Worker
  PROVE  /\ pc[w] \in {"lock", "resume", "block", "progress", "remain", "unlock", "forget"}
              => Chunk(w) \in Ranges /\ Tail(chunks[w]) \in Seq(Ranges) /\ chunks[w] # <<>>
         /\ pc[w] \in {"clear", "refill", "remain", "requeue"}
              => Head(todo[w]) \in Ranges /\ Tail(todo[w]) \in Seq(Ranges) /\ todo[w] # <<>>
         /\ RequeueList(w) \in Seq(Ranges) /\ RequeueList(w) # <<>>
<1>1. chunks[w] \in Seq(Ranges) /\ todo[w] \in Seq(Ranges) /\ job[w] \in Ranges
  BY DEF RescanTypeOK
<1>2. RequeueList(w) \in Seq(Ranges) /\ RequeueList(w) # <<>>
  BY <1>1, RequeueFacts DEF RequeueList
<1> QED BY <1>1, <1>2, HeadTailFacts, Zenon DEF HandInv, InHand, Chunk

(* The loop starts over.                                                    *)
LEMMA NextRoundTypes ==
  ASSUME RescanTypeOK, NEW w \in Worker, NextRound(w)
  PROVE  WorkerTypes'
<1>1. <<>> \in Seq(Ranges) /\ 0 \in 0 .. MaxNum + 1 /\ NoRange \in Ranges /\ "idle" \in PC
  BY RangeFacts DEF PC
<1> QED BY <1>1 DEF NextRound, Goto, RescanTypeOK, WorkerTypes

(* The next chunk or the next round.                                        *)
LEMMA ChunkDoneTypes ==
  ASSUME RescanTypeOK, HandInv, NEW w \in Worker, chunks[w] # <<>>, ChunkDone(w)
  PROVE  WorkerTypes'
<1>1. Tail(chunks[w]) \in Seq(Ranges) /\ "lock" \in PC
  BY HeadTailFacts DEF RescanTypeOK, PC
<1>2. CASE Len(chunks[w]) = 1
  BY <1>2, NextRoundTypes DEF ChunkDone
<1>3. CASE Len(chunks[w]) # 1
  BY <1>1, <1>3 DEF ChunkDone, Goto, RescanTypeOK, WorkerTypes
<1> QED BY <1>2, <1>3

(* The same, or the ranges to push.                                         *)
LEMMA ChunkReturnsTypes ==
  ASSUME RescanTypeOK, HandInv, NEW w \in Worker, chunks[w] # <<>>, ChunkReturns(w)
  PROVE  WorkerTypes'
<1>1. CASE todo[w] = <<>>
  BY <1>1, ChunkDoneTypes DEF ChunkReturns
<1>2. CASE todo[w] # <<>>
  BY <1>2 DEF ChunkReturns, Goto, RescanTypeOK, WorkerTypes, PC
<1> QED BY <1>1, <1>2

(* One range pushed, the next one or the next round.                        *)
LEMMA PushedOneTypes ==
  ASSUME RescanTypeOK, HandInv, NEW w \in Worker, todo[w] # <<>>, PushedOne(w)
  PROVE  WorkerTypes'
<1>1. Tail(todo[w]) \in Seq(Ranges)
  BY HeadTailFacts DEF RescanTypeOK
<1>2. CASE Len(todo[w]) = 1
  BY <1>2, NextRoundTypes DEF PushedOne
<1>3. CASE Len(todo[w]) # 1
  BY <1>1, <1>3 DEF PushedOne, RescanTypeOK, WorkerTypes
<1> QED BY <1>2, <1>3

(* Every step of a worker keeps the types.                                  *)
LEMMA MovesTypes ==
  ASSUME RescanTypeOK, HandInv, PassedInv, NEW w \in Worker, Moves(w)
  PROVE  RescanTypeOK'
<1>0. /\ queue \subseteq Ranges /\ locks \subseteq Ranges
      /\ progress \in [Ranges -> 0 .. MaxNum + 1]
      /\ owed \subseteq Num /\ saved \subseteq Num /\ due \subseteq Num
      /\ WorkerTypes /\ redis \in [Worker -> BOOLEAN] /\ calm \in BOOLEAN
      /\ requests \in Nat /\ troubles \in Nat
  BY DEF RescanTypeOK, WorkerTypes
<1>a. WorkerTypes' /\ UNCHANGED <<redisKeys, redis, history, calm, counts>> => RescanTypeOK'
  BY <1>0 DEF RescanTypeOK, WorkerTypes, redisKeys, history, counts
<1>c. ASSUME NEW r \in Ranges, Pushed(r) PROVE queue' \subseteq Ranges /\ calm' \in BOOLEAN
  BY <1>0, <1>c DEF Pushed
<1>e. ASSUME NEW t \in Trouble, Happens(t) PROVE requests' \in Nat /\ troubles' \in Nat
  BY <1>0, <1>e DEF Happens
<1>b. ASSUME UNCHANGED <<counts, calm>>
      PROVE  calm' \in BOOLEAN /\ requests' \in Nat /\ troubles' \in Nat
  BY <1>0, <1>b DEF counts
<1>d. ASSUME RedisError(w) PROVE calm' \in BOOLEAN /\ requests' \in Nat /\ troubles' \in Nat
  <2>1. CASE redis[w]
    BY <1>d, <1>e, <2>1 DEF RedisError, Trouble
  <2>2. CASE ~redis[w]
    BY <1>d, <1>b, <2>2 DEF RedisError
  <2> QED BY <2>1, <2>2
<1>1. CASE ReadQueue(w)
  <2>1. MergeRanges(queue) \in Seq(Ranges)
    BY <1>0, MergeRangesSound DEF MergeOf
  <2>2. WorkerTypes'
    BY <1>0, <1>1, <2>1 DEF ReadQueue, Goto, WorkerTypes, PC
  <2> QED BY <1>1, <1>a, <2>2 DEF ReadQueue
<1>2. CASE ClearQueue(w)
  BY <1>0, <1>2 DEF ClearQueue, Goto, WorkerTypes, RescanTypeOK, PC, history, counts
<1>3. CASE Refill(w)
  <2>1. Head(todo[w]) \in Ranges /\ Tail(todo[w]) \in Seq(Ranges)
    BY <1>3, HandFacts DEF Refill, At
  <2>2. WorkerTypes'
    BY <1>0, <1>3, <2>1 DEF Refill, Goto, WorkerTypes, PC
  <2>3. queue' \subseteq Ranges /\ calm' \in BOOLEAN
    BY <1>3, <1>c, <2>1 DEF Refill
  <2> QED BY <1>0, <1>3, <2>2, <2>3 DEF Refill, WorkerTypes, RescanTypeOK, history, counts
<1>4. CASE \E r \in Ranges : ReadFirst(w, r)
  <2>1. WorkerTypes'
    BY <1>0, <1>4 DEF ReadFirst, Goto, WorkerTypes, PC
  <2> QED BY <1>4, <1>a, <2>1 DEF ReadFirst
<1>5. CASE QueueEmpty(w)
  BY <1>5, <1>a, NextRoundTypes DEF QueueEmpty
<1>6. CASE TakeFirst(w)
  <2>1. Split(job[w]) \in Seq(Ranges)
    BY <1>0, SplitSound DEF WorkerTypes
  <2>2. WorkerTypes'
    BY <1>0, <1>6, <2>1 DEF TakeFirst, Goto, WorkerTypes, PC
  <2> QED BY <1>0, <1>6, <2>2 DEF TakeFirst, WorkerTypes, RescanTypeOK, history, counts
<1>7. CASE AcquireLock(w)
  <2>1. Chunk(w) \in Ranges
    BY <1>7, HandFacts DEF AcquireLock, At
  <2>2. WorkerTypes'
    BY <1>0, <1>7 DEF AcquireLock, Goto, WorkerTypes, PC
  <2> QED BY <1>0, <1>7, <2>1, <2>2 DEF AcquireLock, WorkerTypes, RescanTypeOK, history, counts
<1>8. CASE ChunkLocked(w)
  <2>1. chunks[w] # <<>>
    BY <1>8, HandFacts DEF ChunkLocked, At
  <2> QED BY <1>8, <1>a, <2>1, ChunkDoneTypes DEF ChunkLocked
<1>9. CASE GetProgress(w)
  <2>1. Chunk(w) \in Ranges
    BY <1>9, HandFacts DEF GetProgress, At
  <2>2. WorkerTypes'
    BY <1>0, <1>9, <2>1 DEF GetProgress, Goto, WorkerTypes, PC
  <2> QED BY <1>9, <1>a, <2>2 DEF GetProgress
<1>10. CASE ProcessBlock(w)
  <2>1. num[w] \in Num
    <3>1. Chunk(w) \in Ranges
      BY <1>10, HandFacts DEF ProcessBlock, At
    <3> QED BY <1>0, <1>10, <3>1, RangeFacts DEF ProcessBlock, WorkerTypes, Num
  <2>2. WorkerTypes'
    BY <1>0, <1>10 DEF ProcessBlock, Goto, WorkerTypes, PC
  <2> QED BY <1>0, <1>10, <2>1, <2>2 DEF ProcessBlock, WorkerTypes, RescanTypeOK, redisKeys, counts
<1>11. CASE SetProgress(w)
  <2>1. Chunk(w) \in Ranges /\ num[w] <= Chunk(w).to
    BY <1>11, HandFacts DEF SetProgress, At, HandInv, InHand
  <2>2. num[w] + 1 \in 0 .. MaxNum + 1
    BY <1>0, <2>1, RangeFacts DEF WorkerTypes
  <2>3. WorkerTypes'
    BY <1>0, <1>11, <2>2 DEF SetProgress, Goto, WorkerTypes, PC
  <2>4. progress' \in [Ranges -> 0 .. MaxNum + 1]
    BY <1>0, <1>11, <2>2 DEF SetProgress
  <2> QED BY <1>0, <1>11, <2>3, <2>4 DEF SetProgress, WorkerTypes, RescanTypeOK, history, counts
<1>12. CASE FinishChunk(w)
  <2>1. WorkerTypes'
    BY <1>0, <1>12 DEF FinishChunk, Goto, WorkerTypes, PC
  <2> QED BY <1>12, <1>a, <2>1 DEF FinishChunk
<1>13. CASE PushRemaining(w)
  <2>1. Chunk(w) \in Ranges /\ num[w] <= Chunk(w).to /\ num[w] \in Nat
    BY <1>0, <1>13, HandFacts DEF PushRemaining, At, HandInv, InHand, WorkerTypes
  <2>2. [from |-> num[w], to |-> Chunk(w).to] \in Ranges
    BY <2>1, RangeFacts
  <2>3. queue' \subseteq Ranges /\ calm' \in BOOLEAN
    BY <1>13, <1>c, <2>2 DEF PushRemaining
  <2>4. WorkerTypes'
    BY <1>0, <1>13 DEF PushRemaining, Goto, WorkerTypes, PC
  <2> QED BY <1>0, <1>13, <2>3, <2>4 DEF PushRemaining, WorkerTypes, RescanTypeOK, history, counts
<1>14. CASE ReleaseLock(w)
  <2>1. WorkerTypes'
    BY <1>0, <1>14 DEF ReleaseLock, Goto, WorkerTypes, PC
  <2> QED BY <1>0, <1>14, <2>1 DEF ReleaseLock, WorkerTypes, RescanTypeOK, history, counts
<1>15. CASE ClearProgress(w)
  <2>1. Chunk(w) \in Ranges /\ chunks[w] # <<>>
    BY <1>15, HandFacts DEF ClearProgress, At
  <2>2. Chunk(w).from \in 0 .. MaxNum + 1
    BY <2>1, RangeFacts
  <2>3. WorkerTypes'
    BY <1>15, <2>1, ChunkReturnsTypes DEF ClearProgress
  <2>4. progress' \in [Ranges -> 0 .. MaxNum + 1]
    BY <1>0, <1>15, <2>2 DEF ClearProgress
  <2> QED BY <1>0, <1>15, <2>3, <2>4 DEF ClearProgress, WorkerTypes, RescanTypeOK, history, counts
<1>16. CASE Requeue(w)
  <2>1. Head(todo[w]) \in Ranges /\ todo[w] # <<>>
    BY <1>16, HandFacts DEF Requeue, At
  <2>2. WorkerTypes'
    BY <1>16, <2>1, PushedOneTypes DEF Requeue
  <2>3. queue' \subseteq Ranges /\ calm' \in BOOLEAN
    BY <1>16, <1>c, <2>1 DEF Requeue
  <2> QED BY <1>0, <1>16, <2>2, <2>3 DEF Requeue, WorkerTypes, RescanTypeOK, history, counts
<1>17. CASE BlockFails(w)
  <2>1. RequeueList(w) \in Seq(Ranges)
    BY HandFacts
  <2>2. WorkerTypes'
    BY <1>0, <1>17, <2>1 DEF BlockFails, Goto, WorkerTypes, PC
  <2>3. requests' \in Nat /\ troubles' \in Nat
    BY <1>17, <1>e DEF BlockFails, Trouble
  <2> QED BY <1>0, <1>17, <2>2, <2>3 DEF BlockFails, WorkerTypes, RescanTypeOK, redisKeys, history
<1>18. CASE MergeFails(w)
  <2>1. pc[w] = "refill" => Head(todo[w]) \in Ranges
    BY HandFacts
  <2>2. queue' \subseteq Ranges
    BY <1>0, <1>18, <2>1 DEF MergeFails, MaybeQueue, At
  <2>3. WorkerTypes'
    BY <1>0, <1>18 DEF MergeFails, Goto, WorkerTypes, PC
  <2>4. calm' \in BOOLEAN /\ requests' \in Nat /\ troubles' \in Nat
    BY <1>18, <1>d DEF MergeFails
  <2> QED BY <1>0, <1>18, <2>2, <2>3, <2>4 DEF MergeFails, WorkerTypes, RescanTypeOK, history
<1>19. CASE PopFails(w)
  <2>1. queue' \subseteq Ranges
    BY <1>0, <1>19 DEF PopFails, MaybeQueue
  <2>2. WorkerTypes'
    BY <1>19, NextRoundTypes DEF PopFails
  <2>3. calm' \in BOOLEAN /\ requests' \in Nat /\ troubles' \in Nat
    BY <1>19, <1>d DEF PopFails
  <2> QED BY <1>0, <1>19, <2>1, <2>2, <2>3 DEF PopFails, WorkerTypes, RescanTypeOK, history
<1>20. CASE LockFails(w)
  <2>1. Chunk(w) \in Ranges /\ RequeueList(w) \in Seq(Ranges)
    BY <1>20, HandFacts DEF LockFails, At
  <2>2. locks' \subseteq Ranges
    BY <1>0, <1>20, <2>1 DEF LockFails
  <2>3. WorkerTypes'
    BY <1>0, <1>20, <2>1 DEF LockFails, Goto, WorkerTypes, PC
  <2>4. calm' \in BOOLEAN /\ requests' \in Nat /\ troubles' \in Nat
    BY <1>20, <1>d DEF LockFails
  <2> QED BY <1>0, <1>20, <2>2, <2>3, <2>4 DEF LockFails, WorkerTypes, RescanTypeOK, history
<1>21. CASE GetProgressFails(w)
  <2>1. RequeueList(w) \in Seq(Ranges)
    BY HandFacts
  <2>2. WorkerTypes'
    BY <1>0, <1>21, <2>1 DEF GetProgressFails, Goto, WorkerTypes, PC
  <2>3. calm' \in BOOLEAN /\ requests' \in Nat /\ troubles' \in Nat
    BY <1>21, <1>d DEF GetProgressFails
  <2> QED BY <1>0, <1>21, <2>2, <2>3 DEF GetProgressFails, WorkerTypes, RescanTypeOK, redisKeys, history
<1>22. CASE IgnoredFailure(w)
  <2>1. calm' \in BOOLEAN /\ requests' \in Nat /\ troubles' \in Nat
    BY <1>22, <1>d DEF IgnoredFailure
  <2>2. UNCHANGED <<redisKeys, redis, history>>
    BY <1>22 DEF IgnoredFailure
  <2>3. WorkerTypes'
    <3>1. CASE At(w, "progress") /\ Goto(w, "block") /\ num' = [num EXCEPT ![w] = @ + 1]
               /\ UNCHANGED <<job, chunks, todo>>
      <4>1. Chunk(w) \in Ranges /\ num[w] <= Chunk(w).to
        BY <3>1, HandFacts DEF At, HandInv, InHand
      <4>2. num[w] + 1 \in 0 .. MaxNum + 1
        BY <1>0, <4>1, RangeFacts DEF WorkerTypes
      <4> QED BY <1>0, <3>1, <4>2 DEF Goto, WorkerTypes, PC
    <3>2. CASE (Goto(w, "unlock") \/ Goto(w, "forget")) /\ UNCHANGED <<job, chunks, num, todo>>
      BY <1>0, <3>2 DEF Goto, WorkerTypes, PC
    <3>3. CASE At(w, "forget") /\ ChunkReturns(w)
      BY <3>3, HandFacts, ChunkReturnsTypes DEF At
    <3>4. CASE At(w, "requeue") /\ PushedOne(w)
      BY <3>4, HandFacts, PushedOneTypes DEF At
    <3> QED BY <1>22, <3>1, <3>2, <3>3, <3>4 DEF IgnoredFailure
  <2> QED BY <1>0, <2>1, <2>2, <2>3 DEF WorkerTypes, RescanTypeOK, redisKeys, history
<1>23. CASE Stop(w)
  <2>1. requests' \in Nat /\ troubles' \in Nat
    BY <1>23, <1>e DEF Stop, Trouble
  <2> QED BY <1>0, <1>23, <2>1 DEF Stop, WorkerTypes, RescanTypeOK, redisKeys, history
<1>24. CASE Exit(w)
  <2>1. calm' \in BOOLEAN /\ requests' \in Nat /\ troubles' \in Nat
    <3>1. CASE redis[w]
      BY <1>24, <1>e, <3>1 DEF Exit, Trouble
    <3>2. CASE ~redis[w]
      BY <1>24, <1>b, <3>2 DEF Exit
    <3> QED BY <3>1, <3>2
  <2>2. WorkerTypes'
    <3>1. <<>> \in Seq(Ranges) /\ 0 \in 0 .. MaxNum + 1 /\ NoRange \in Ranges /\ "down" \in PC
      BY RangeFacts DEF PC
    <3> QED BY <1>0, <1>24, <3>1 DEF Exit, WorkerTypes
  <2>3. redis' \in [Worker -> BOOLEAN] /\ UNCHANGED <<redisKeys, history>>
    BY <1>0, <1>24 DEF Exit
  <2> QED BY <1>0, <2>1, <2>2, <2>3 DEF WorkerTypes, RescanTypeOK, redisKeys, history
<1>25. CASE Restart(w)
  <2>1. WorkerTypes' /\ redis' \in [Worker -> BOOLEAN]
    BY <1>0, <1>25 DEF Restart, Goto, WorkerTypes, PC
  <2> QED BY <1>0, <1>25, <2>1 DEF Restart, WorkerTypes, RescanTypeOK, redisKeys, history, counts
<1> QED BY <1>1, <1>2, <1>3, <1>4, <1>5, <1>6, <1>7, <1>8, <1>9, <1>10, <1>11, <1>12, <1>13,
          <1>14, <1>15, <1>16, <1>17, <1>18, <1>19, <1>20, <1>21, <1>22, <1>23, <1>24, <1>25
       DEF Moves, WorkerStep, WorkerFault

-----------------------------------------------------------------------------
(* What a step does to the worker that takes it, and to the others *)

(* The loop starts over with nothing in hand.                               *)
LEMMA NextRoundEffect ==
  ASSUME RescanTypeOK, NEW w \in Worker, NextRound(w)
  PROVE  pc'[w] = "idle" /\ todo'[w] = <<>> /\ chunks'[w] = <<>>
  BY DEF NextRound, Goto, RescanTypeOK

(* After the last chunk the loop starts over; otherwise the next is locked. *)
LEMMA ChunkDoneEffect ==
  ASSUME RescanTypeOK, NEW w \in Worker, chunks[w] # <<>>, ChunkDone(w)
  PROVE  \/ /\ pc'[w] = "idle" /\ todo'[w] = <<>> /\ Tail(chunks[w]) = <<>>
         \/ /\ pc'[w] = "lock" /\ todo' = todo
            /\ chunks'[w] = Tail(chunks[w]) /\ Tail(chunks[w]) # <<>>
<1>1. Len(chunks[w]) = 1 <=> Tail(chunks[w]) = <<>>
  BY HeadTailFacts DEF RescanTypeOK
<1>2. CASE Len(chunks[w]) = 1
  BY <1>1, <1>2, NextRoundEffect DEF ChunkDone
<1>3. CASE Len(chunks[w]) # 1
  BY <1>1, <1>3 DEF ChunkDone, Goto, RescanTypeOK
<1> QED BY <1>2, <1>3

(* processChunk returns with or without an error.                           *)
LEMMA ChunkReturnsEffect ==
  ASSUME RescanTypeOK, NEW w \in Worker, chunks[w] # <<>>, ChunkReturns(w)
  PROVE  \/ /\ pc'[w] = "idle" /\ todo'[w] = <<>> /\ todo[w] = <<>> /\ Tail(chunks[w]) = <<>>
         \/ /\ pc'[w] = "lock" /\ todo' = todo /\ todo[w] = <<>>
            /\ chunks'[w] = Tail(chunks[w]) /\ Tail(chunks[w]) # <<>>
         \/ /\ pc'[w] = "requeue" /\ todo' = todo /\ todo[w] # <<>>
<1>1. CASE todo[w] = <<>>
  BY <1>1, ChunkDoneEffect DEF ChunkReturns
<1>2. CASE todo[w] # <<>>
  BY <1>2 DEF ChunkReturns, Goto, RescanTypeOK
<1> QED BY <1>1, <1>2

(* After the last push the loop starts over.                                *)
LEMMA PushedOneEffect ==
  ASSUME RescanTypeOK, NEW w \in Worker, todo[w] # <<>>, PushedOne(w)
  PROVE  \/ /\ pc'[w] = "idle" /\ todo'[w] = <<>> /\ Tail(todo[w]) = <<>>
         \/ /\ pc' = pc /\ todo'[w] = Tail(todo[w]) /\ Tail(todo[w]) # <<>>
<1>1. Len(todo[w]) = 1 <=> Tail(todo[w]) = <<>>
  BY HeadTailFacts DEF RescanTypeOK
<1>2. CASE Len(todo[w]) = 1
  BY <1>1, <1>2, NextRoundEffect DEF PushedOne
<1>3. CASE Len(todo[w]) # 1
  BY <1>1, <1>3 DEF PushedOne, RescanTypeOK
<1> QED BY <1>2, <1>3

(* A step of one worker leaves the others where they are.                   *)
LEMMA OthersRest ==
  ASSUME RescanTypeOK, NEW w \in Worker, Moves(w), NEW v \in Worker, v # w
  PROVE  /\ pc'[v] = pc[v] /\ job'[v] = job[v] /\ chunks'[v] = chunks[v]
         /\ num'[v] = num[v] /\ todo'[v] = todo[v] /\ redis'[v] = redis[v]
<1> DEFINE Rests == /\ pc'[v] = pc[v] /\ job'[v] = job[v] /\ chunks'[v] = chunks[v]
                    /\ num'[v] = num[v] /\ todo'[v] = todo[v]
<1>0. /\ pc \in [Worker -> PC] /\ job \in [Worker -> Ranges]
      /\ chunks \in [Worker -> Seq(Ranges)] /\ todo \in [Worker -> Seq(Ranges)]
      /\ num \in [Worker -> 0 .. MaxNum + 1] /\ redis \in [Worker -> BOOLEAN]
  BY DEF RescanTypeOK
<1>1. NextRound(w) => Rests
  BY <1>0 DEF NextRound, Goto
<1>2. ChunkDone(w) => Rests
  BY <1>0, <1>1 DEF ChunkDone, Goto
<1>3. ChunkReturns(w) => Rests
  BY <1>0, <1>2 DEF ChunkReturns, Goto
<1>4. PushedOne(w) => Rests
  BY <1>0, <1>1 DEF PushedOne
<1>5. CASE ReadQueue(w) \/ ClearQueue(w) \/ Refill(w) \/ (\E r \in Ranges : ReadFirst(w, r))
           \/ TakeFirst(w) \/ AcquireLock(w) \/ GetProgress(w) \/ ProcessBlock(w)
           \/ SetProgress(w) \/ FinishChunk(w) \/ PushRemaining(w) \/ ReleaseLock(w)
  BY <1>0, <1>5 DEF ReadQueue, ClearQueue, Refill, ReadFirst, TakeFirst, AcquireLock, GetProgress,
     ProcessBlock, SetProgress, FinishChunk, PushRemaining, ReleaseLock, Goto
<1>6. CASE QueueEmpty(w) \/ ChunkLocked(w) \/ ClearProgress(w) \/ Requeue(w) \/ PopFails(w)
  BY <1>1, <1>2, <1>3, <1>4, <1>6 DEF QueueEmpty, ChunkLocked, ClearProgress, Requeue, PopFails
<1>7. CASE BlockFails(w) \/ MergeFails(w) \/ LockFails(w) \/ GetProgressFails(w) \/ Stop(w)
           \/ Exit(w) \/ Restart(w)
  BY <1>0, <1>7 DEF BlockFails, MergeFails, LockFails, GetProgressFails, Stop, Exit, Restart, Goto
<1>8. CASE IgnoredFailure(w)
  BY <1>0, <1>3, <1>4, <1>8 DEF IgnoredFailure, Goto
<1> QED BY <1>5, <1>6, <1>7, <1>8 DEF Moves, WorkerStep, WorkerFault

-----------------------------------------------------------------------------
(* What a worker has in hand *)

(* The worker that takes a step has in hand what its next step needs.       *)
LEMMA MovesHand ==
  ASSUME RescanTypeOK, HandInv, PassedInv, NEW w \in Worker, Moves(w)
  PROVE  InHand(w)'
<1>0. /\ pc \in [Worker -> PC] /\ job \in [Worker -> Ranges]
      /\ chunks \in [Worker -> Seq(Ranges)] /\ todo \in [Worker -> Seq(Ranges)]
      /\ num \in [Worker -> 0 .. MaxNum + 1]
  BY DEF RescanTypeOK
<1>h. InHand(w)
  BY DEF HandInv
<1>i. pc'[w] \in {"idle", "pop", "take", "down"} /\ todo'[w] = <<>> => InHand(w)'
  BY DEF InHand
<1>l. pc'[w] = "lock" /\ todo'[w] = <<>> /\ chunks'[w] # <<>> => InHand(w)'
  BY DEF InHand
<1>r. pc'[w] \in {"clear", "refill", "requeue"} /\ todo'[w] # <<>> => InHand(w)'
  BY DEF InHand
<1>u. pc'[w] \in {"unlock", "forget"} /\ chunks'[w] # <<>> => InHand(w)'
  BY DEF InHand
<1>n. RequeueList(w) # <<>>
  BY HandFacts
<1>1. CASE ReadQueue(w)
  <2> DEFINE merged == MergeRanges(queue)
  <2>1. MergeOf(merged, queue)
    BY MergeRangesSound DEF RescanTypeOK
  <2>2. Len(merged) < Cardinality(queue) => merged # <<>>
    <3>1. CASE queue = {}
      <4>1. Cardinality(queue) = 0 /\ Len(merged) \in Nat
        BY <2>1, <3>1, FS_EmptySet DEF MergeOf
      <4> QED BY <4>1
    <3>2. CASE queue # {}
      BY <2>1, <3>2 DEF MergeOf
    <3> QED BY <3>1, <3>2
  <2> HIDE DEF merged
  <2>3. \/ pc'[w] = "clear" /\ todo'[w] = merged /\ Len(merged) < Cardinality(queue)
        \/ pc'[w] = "pop" /\ todo' = todo
    BY <1>0, <1>1 DEF ReadQueue, Goto, merged
  <2> QED BY <1>1, <1>h, <1>i, <1>r, <2>2, <2>3 DEF ReadQueue, At, InHand
<1>2. CASE ClearQueue(w)
  BY <1>0, <1>2, <1>h, <1>r DEF ClearQueue, At, Goto, InHand
<1>3. CASE Refill(w)
  <2>1. Len(todo[w]) = 1 <=> Tail(todo[w]) = <<>>
    BY <1>0, <1>3, <1>h, HeadTailFacts DEF Refill, At, InHand
  <2>2. todo'[w] = Tail(todo[w]) /\ pc'[w] = IF Len(todo[w]) = 1 THEN "pop" ELSE "refill"
    BY <1>0, <1>3 DEF Refill, Goto
  <2> QED BY <1>i, <1>r, <2>1, <2>2
<1>4. CASE \E r \in Ranges : ReadFirst(w, r)
  BY <1>0, <1>4, <1>h, <1>i DEF ReadFirst, At, Goto, InHand
<1>5. CASE QueueEmpty(w) \/ PopFails(w)
  BY <1>5, <1>i, NextRoundEffect DEF QueueEmpty, PopFails
<1>6. CASE TakeFirst(w)
  <2>1. Split(job[w]) # <<>>
    BY <1>0, SplitSound
  <2> QED BY <1>0, <1>6, <1>h, <1>l, <2>1 DEF TakeFirst, At, Goto, InHand
<1>7. CASE AcquireLock(w)
  BY <1>0, <1>7, <1>h DEF AcquireLock, At, Goto, InHand
<1>8. CASE ChunkLocked(w)
  <2>1. chunks[w] # <<>> /\ todo[w] = <<>> /\ ChunkDone(w)
    BY <1>8, <1>h DEF ChunkLocked, At, InHand
  <2> QED BY <1>i, <1>l, <2>1, ChunkDoneEffect
<1>9. CASE GetProgress(w)
  <2>1. Chunk(w) \in Ranges
    BY <1>9, HandFacts DEF GetProgress, At
  <2>2. Chunk(w).from <= progress[Chunk(w)]
    BY <2>1 DEF PassedInv
  <2>3. /\ pc'[w] = "block" /\ num'[w] = progress[Chunk(w)] /\ chunks' = chunks /\ todo' = todo
    BY <1>0, <1>9 DEF GetProgress, Goto
  <2> QED BY <1>9, <1>h, <2>2, <2>3 DEF GetProgress, At, InHand, Chunk
<1>10. CASE ProcessBlock(w)
  <2>1. pc'[w] = "progress" /\ num[w] <= Chunk(w).to /\ UNCHANGED <<chunks, num, todo>>
    BY <1>0, <1>10 DEF ProcessBlock, Goto
  <2> QED BY <1>10, <1>h, <2>1 DEF ProcessBlock, At, InHand, Chunk
<1>11. CASE SetProgress(w)
  <2>1. pc'[w] = "block" /\ num'[w] = num[w] + 1 /\ UNCHANGED <<chunks, todo>> /\ pc[w] = "progress"
    BY <1>0, <1>11 DEF SetProgress, Goto, At
  <2>2. Chunk(w).from <= num[w] + 1
    <3>1. Chunk(w) \in Ranges /\ Chunk(w).from <= num[w] /\ num[w] \in Nat
      BY <1>0, <1>h, <2>1, HandFacts DEF InHand
    <3> QED BY <3>1, RangeFacts
  <2> QED BY <1>h, <2>1, <2>2 DEF InHand, Chunk
<1>12. CASE FinishChunk(w)
  BY <1>0, <1>12, <1>h, <1>u DEF FinishChunk, At, Goto, InHand
<1>13. CASE PushRemaining(w)
  BY <1>0, <1>13, <1>h, <1>u DEF PushRemaining, At, Goto, InHand
<1>14. CASE ReleaseLock(w)
  BY <1>0, <1>14, <1>h, <1>u DEF ReleaseLock, At, Goto, InHand
<1>15. CASE ClearProgress(w)
  <2>1. chunks[w] # <<>> /\ ChunkReturns(w)
    BY <1>15, <1>h DEF ClearProgress, At, InHand
  <2> QED BY <1>i, <1>l, <1>r, <2>1, ChunkReturnsEffect
<1>16. CASE Requeue(w)
  <2>1. todo[w] # <<>> /\ PushedOne(w) /\ pc[w] = "requeue"
    BY <1>16, <1>h DEF Requeue, At, InHand
  <2> QED BY <1>i, <1>r, <2>1, PushedOneEffect
<1>17. CASE BlockFails(w)
  <2>1. /\ pc[w] = "block" /\ pc'[w] = "remain" /\ todo'[w] = RequeueList(w)
        /\ num[w] <= Chunk(w).to /\ UNCHANGED <<chunks, num>>
    BY <1>0, <1>17 DEF BlockFails, Goto, At
  <2> QED BY <1>h, <1>n, <2>1 DEF InHand, Chunk
<1>18. CASE MergeFails(w)
  <2>1. pc'[w] = "pop" /\ todo'[w] = <<>>
    BY <1>0, <1>18 DEF MergeFails, Goto
  <2> QED BY <1>i, <2>1
<1>19. CASE LockFails(w)
  <2>1. pc'[w] = "requeue" /\ todo'[w] = RequeueList(w)
    BY <1>0, <1>19 DEF LockFails, Goto
  <2> QED BY <1>n, <1>r, <2>1
<1>20. CASE GetProgressFails(w)
  <2>1. pc'[w] = "unlock" /\ chunks' = chunks /\ chunks[w] # <<>>
    BY <1>0, <1>20, <1>h DEF GetProgressFails, Goto, At, InHand
  <2> QED BY <1>u, <2>1
<1>21. CASE IgnoredFailure(w)
  <2>1. CASE At(w, "progress") /\ Goto(w, "block") /\ num' = [num EXCEPT ![w] = @ + 1]
             /\ UNCHANGED <<job, chunks, todo>>
    <3>1. pc'[w] = "block" /\ num'[w] = num[w] + 1 /\ UNCHANGED <<chunks, todo>> /\ pc[w] = "progress"
      BY <1>0, <2>1 DEF Goto, At
    <3>2. Chunk(w).from <= num[w] + 1
      <4>1. Chunk(w) \in Ranges /\ Chunk(w).from <= num[w] /\ num[w] \in Nat
        BY <1>0, <1>h, <3>1, HandFacts DEF InHand
      <4> QED BY <4>1, RangeFacts
    <3> QED BY <1>h, <3>1, <3>2 DEF InHand, Chunk
  <2>2. CASE \/ At(w, "remain") /\ Goto(w, "unlock") /\ UNCHANGED <<job, chunks, num, todo>>
             \/ At(w, "unlock") /\ Goto(w, "forget") /\ UNCHANGED <<job, chunks, num, todo>>
    BY <1>0, <2>2, <1>h, <1>u DEF At, Goto, InHand
  <2>3. CASE At(w, "forget") /\ ChunkReturns(w)
    <3>1. chunks[w] # <<>>
      BY <2>3, <1>h DEF At, InHand
    <3> QED BY <1>i, <1>l, <1>r, <2>3, <3>1, ChunkReturnsEffect
  <2>4. CASE At(w, "requeue") /\ PushedOne(w)
    <3>1. todo[w] # <<>> /\ pc[w] = "requeue"
      BY <2>4, <1>h DEF At, InHand
    <3> QED BY <1>i, <1>r, <2>4, <3>1, PushedOneEffect
  <2> QED BY <1>21, <2>1, <2>2, <2>3, <2>4 DEF IgnoredFailure
<1>22. CASE Stop(w)
  BY <1>h, <1>22 DEF Stop, InHand, Chunk
<1>23. CASE Exit(w)
  <2>1. pc'[w] = "down" /\ todo'[w] = <<>>
    BY <1>0, <1>23 DEF Exit
  <2> QED BY <1>i, <2>1
<1>24. CASE Restart(w)
  <2>1. pc'[w] = "idle" /\ todo'[w] = <<>>
    BY <1>0, <1>24, <1>h DEF Restart, Goto, At, InHand
  <2> QED BY <1>i, <2>1
<1> QED BY <1>1, <1>2, <1>3, <1>4, <1>5, <1>6, <1>7, <1>8, <1>9, <1>10, <1>11, <1>12, <1>13,
          <1>14, <1>15, <1>16, <1>17, <1>18, <1>19, <1>20, <1>21, <1>22, <1>23, <1>24
       DEF Moves, WorkerStep, WorkerFault

-----------------------------------------------------------------------------
(* What a worker has passed is stored *)

(* No step forgets that a number was stored.                                *)
LEMMA SavedGrows ==
  ASSUME NEW w \in Worker, Moves(w)
  PROVE  saved \subseteq saved'
  BY DEF Moves, WorkerStep, WorkerFault, ReadQueue, ClearQueue, Refill, ReadFirst, QueueEmpty,
     TakeFirst, AcquireLock, ChunkLocked, GetProgress, ProcessBlock, SetProgress, FinishChunk,
     PushRemaining, ReleaseLock, ClearProgress, Requeue, BlockFails, MergeFails, PopFails, LockFails,
     GetProgressFails, IgnoredFailure, Stop, Exit, Restart, history

(* A key that a worker writes promises what it has stored.                  *)
LEMMA MovesProgress ==
  ASSUME RescanTypeOK, HandInv, PassedInv, NEW w \in Worker, Moves(w)
  PROVE  ProgressHonest' /\ \A r \in Ranges : r.from <= progress'[r]
<1>0. /\ progress \in [Ranges -> 0 .. MaxNum + 1] /\ saved \subseteq saved'
      /\ \A r \in Ranges : \A n \in Num : r.from <= n /\ n < progress[r] => n \in saved
      /\ \A r \in Ranges : r.from <= progress[r]
  BY SavedGrows DEF RescanTypeOK, PassedInv, ProgressHonest
<1>1. CASE SetProgress(w)
  <2> DEFINE c == Chunk(w)
             m == num[w]
  <2>1. /\ c \in Ranges /\ c.from <= m /\ m <= c.to /\ m \in Nat /\ m \in saved
        /\ \A n \in Num : c.from <= n /\ n < m => n \in saved
    BY <1>1, HandFacts DEF SetProgress, At, HandInv, InHand, PassedInv, Passed, RescanTypeOK
  <2>2. progress' = [progress EXCEPT ![c] = m + 1]
    BY <1>1 DEF SetProgress
  <2> HIDE DEF c, m
  <2>3. \A n \in Num : n \in Nat
    BY RangeFacts DEF Num
  <2>4. \A n \in Num : c.from <= n /\ n < m + 1 => n \in saved
    BY <2>1, <2>3
  <2>5. c.from <= m + 1
    BY <2>1, RangeFacts
  <2> QED BY <1>0, <2>1, <2>2, <2>4, <2>5 DEF ProgressHonest
<1>2. CASE ClearProgress(w)
  <2> DEFINE c == Chunk(w)
  <2>1. c \in Ranges
    BY <1>2, HandFacts DEF ClearProgress, At
  <2>2. progress' = [progress EXCEPT ![c] = c.from]
    BY <1>2 DEF ClearProgress
  <2> HIDE DEF c
  <2>3. c.from \in Nat /\ \A n \in Num : n \in Nat
    BY <2>1, RangeFacts DEF Num
  <2> QED BY <1>0, <2>1, <2>2, <2>3 DEF ProgressHonest
<1>3. CASE progress' = progress
  BY <1>0, <1>3 DEF ProgressHonest
<1> QED BY <1>1, <1>2, <1>3 DEF Moves, WorkerStep, WorkerFault, ReadQueue, ClearQueue, Refill,
       ReadFirst, QueueEmpty, TakeFirst, AcquireLock, ChunkLocked, GetProgress, ProcessBlock,
       FinishChunk, PushRemaining, ReleaseLock, Requeue, BlockFails, MergeFails, PopFails, LockFails,
       GetProgressFails, IgnoredFailure, Stop, Exit, Restart, redisKeys

(* The numbers below the one a worker is at are stored, whether it stored   *)
(* them or a key told it to skip them.                                      *)
LEMMA MovesPassed ==
  ASSUME RescanTypeOK, HandInv, PassedInv, NEW w \in Worker, Moves(w)
  PROVE  Passed(w)'
<1>0. /\ pc \in [Worker -> PC] /\ chunks \in [Worker -> Seq(Ranges)]
      /\ todo \in [Worker -> Seq(Ranges)] /\ num \in [Worker -> 0 .. MaxNum + 1]
  BY DEF RescanTypeOK
<1>h. InHand(w) /\ Passed(w) /\ saved \subseteq saved'
  BY SavedGrows DEF HandInv, PassedInv
<1>n. RequeueList(w) # <<>>
  BY HandFacts
<1>t. pc'[w] \notin {"block", "progress", "unlock", "forget"} => Passed(w)'
  BY DEF Passed, At
<1>u. pc'[w] \in {"unlock", "forget"} /\ todo'[w] # <<>> => Passed(w)'
  BY DEF Passed, At
<1>1. CASE ReadQueue(w) \/ ClearQueue(w) \/ Refill(w) \/ (\E r \in Ranges : ReadFirst(w, r))
           \/ TakeFirst(w) \/ AcquireLock(w) \/ BlockFails(w) \/ MergeFails(w)
           \/ LockFails(w) \/ Exit(w) \/ Restart(w)
  <2>1. pc'[w] \notin {"block", "progress", "unlock", "forget"}
    BY <1>0, <1>1 DEF ReadQueue, ClearQueue, Refill, ReadFirst, TakeFirst, AcquireLock,
       BlockFails, MergeFails, LockFails, Exit, Restart, Goto
  <2> QED BY <1>t, <2>1
<1>2. CASE QueueEmpty(w) \/ PopFails(w)
  BY <1>2, <1>t, NextRoundEffect DEF QueueEmpty, PopFails
<1>3. CASE ChunkLocked(w)
  <2>1. chunks[w] # <<>> /\ ChunkDone(w)
    BY <1>3, <1>h DEF ChunkLocked, At, InHand
  <2> QED BY <1>t, <2>1, ChunkDoneEffect
<1>4. CASE GetProgress(w)
  <2>1. Chunk(w) \in Ranges
    BY <1>4, HandFacts DEF GetProgress, At
  <2>2. pc'[w] = "block" /\ num'[w] = progress[Chunk(w)] /\ chunks' = chunks /\ saved' = saved
    BY <1>0, <1>4 DEF GetProgress, Goto, history
  <2>3. \A n \in Num : Chunk(w).from <= n /\ n < progress[Chunk(w)] => n \in saved
    BY <2>1 DEF PassedInv, ProgressHonest
  <2> QED BY <2>2, <2>3 DEF Passed, At, Chunk
<1>5. CASE ProcessBlock(w)
  <2>1. /\ pc[w] = "block" /\ pc'[w] = "progress" /\ UNCHANGED <<chunks, num>>
        /\ num[w] \in saved'
    BY <1>0, <1>5 DEF ProcessBlock, Goto, At
  <2> QED BY <1>h, <2>1 DEF Passed, At, Chunk
<1>6. CASE SetProgress(w) \/ (At(w, "progress") /\ IgnoredFailure(w))
  <2>1. /\ pc[w] = "progress" /\ pc'[w] = "block" /\ num'[w] = num[w] + 1 /\ UNCHANGED chunks
        /\ num[w] \in Nat
    BY <1>0, <1>6 DEF SetProgress, IgnoredFailure, Goto, At
  <2>2. \A n \in Num : Chunk(w).from <= n /\ n < num[w] => n \in saved
    BY <1>h, <2>1 DEF Passed, At
  <2>3. num[w] \in saved
    BY <1>h, <2>1 DEF Passed, At
  <2>4. \A n \in Num : n \in Nat
    BY RangeFacts DEF Num
  <2>5. \A n \in Num : Chunk(w).from <= n /\ n < num[w] + 1 => n \in saved'
    <3> SUFFICES ASSUME NEW n \in Num, Chunk(w).from <= n, n < num[w] + 1 PROVE n \in saved'
      OBVIOUS
    <3>1. n < num[w] \/ n = num[w]
      BY <2>1, <2>4
    <3> QED BY <1>h, <2>2, <2>3, <3>1
  <2> QED BY <2>1, <2>5 DEF Passed, At, Chunk
<1>7. CASE FinishChunk(w)
  <2>1. /\ pc[w] = "block" /\ pc'[w] = "unlock" /\ num[w] > Chunk(w).to /\ UNCHANGED <<chunks, saved>>
    BY <1>0, <1>7 DEF FinishChunk, Goto, At, history
  <2>2. Chunk(w) \in Ranges /\ num[w] \in Nat
    BY <1>0, <2>1, HandFacts
  <2>3. Numbers(Chunk(w)) \subseteq saved
    <3> SUFFICES ASSUME NEW n \in Numbers(Chunk(w)) PROVE n \in saved
      OBVIOUS
    <3>1. n \in Num /\ Chunk(w).from <= n /\ n < num[w]
      BY <2>1, <2>2, RangeFacts DEF Numbers, Num
    <3> QED BY <1>h, <2>1, <3>1 DEF Passed
  <2> QED BY <2>1, <2>3 DEF Passed, At, Chunk
<1>8. CASE PushRemaining(w) \/ (At(w, "remain") /\ IgnoredFailure(w))
  <2>1. pc[w] = "remain" /\ pc'[w] = "unlock" /\ UNCHANGED todo
    BY <1>0, <1>8 DEF PushRemaining, IgnoredFailure, Goto, At
  <2> QED BY <1>h, <1>u, <2>1 DEF InHand
<1>9. CASE ReleaseLock(w) \/ (At(w, "unlock") /\ IgnoredFailure(w))
  <2>1. /\ pc[w] = "unlock" /\ pc'[w] = "forget" /\ UNCHANGED <<chunks, todo>>
    BY <1>0, <1>9 DEF ReleaseLock, IgnoredFailure, Goto, At
  <2> QED BY <1>h, <2>1 DEF Passed, At, Chunk
<1>10. CASE ClearProgress(w) \/ (At(w, "forget") /\ IgnoredFailure(w))
  <2>1. chunks[w] # <<>> /\ ChunkReturns(w)
    BY <1>10, <1>h DEF ClearProgress, IgnoredFailure, At, InHand
  <2> QED BY <1>t, <2>1, ChunkReturnsEffect
<1>11. CASE Requeue(w) \/ (At(w, "requeue") /\ IgnoredFailure(w))
  <2>1. todo[w] # <<>> /\ PushedOne(w) /\ pc[w] = "requeue"
    BY <1>11, <1>h DEF Requeue, IgnoredFailure, At, InHand
  <2> QED BY <1>t, <2>1, PushedOneEffect
<1>12. CASE GetProgressFails(w)
  <2>1. pc'[w] = "unlock" /\ todo'[w] = RequeueList(w)
    BY <1>0, <1>12 DEF GetProgressFails, Goto
  <2> QED BY <1>n, <1>u, <2>1
<1>13. CASE Stop(w)
  BY <1>h, <1>13 DEF Stop, Passed, At, Chunk, history
<1>14. IgnoredFailure(w) => \/ At(w, "progress") \/ At(w, "remain") \/ At(w, "unlock")
                            \/ At(w, "forget") \/ At(w, "requeue")
  BY DEF IgnoredFailure
<1> QED BY <1>1, <1>2, <1>3, <1>4, <1>5, <1>6, <1>7, <1>8, <1>9, <1>10, <1>11, <1>12, <1>13, <1>14
       DEF Moves, WorkerStep, WorkerFault

-----------------------------------------------------------------------------
(* Nobody passes a number that is due *)

(* The numbers a worker has passed, by where it is.                         *)
LEMMA PassedByFacts ==
  ASSUME NEW w, NEW n
  PROVE  /\ n \in PassedBy(w) <=>
              \/ pc[w] = "block" /\ n \in Numbers(Chunk(w)) /\ n < num[w]
              \/ pc[w] = "progress" /\ n \in Numbers(Chunk(w)) /\ n <= num[w]
              \/ pc[w] = "unlock" /\ todo[w] = <<>> /\ n \in Numbers(Chunk(w))
         /\ n \in PassedBy(w)' <=>
              \/ pc'[w] = "block" /\ n \in Numbers(Head(chunks'[w])) /\ n < num'[w]
              \/ pc'[w] = "progress" /\ n \in Numbers(Head(chunks'[w])) /\ n <= num'[w]
              \/ pc'[w] = "unlock" /\ todo'[w] = <<>> /\ n \in Numbers(Head(chunks'[w]))
<1>1. n \in PassedBy(w) <=>
              \/ pc[w] = "block" /\ n \in Numbers(Chunk(w)) /\ n < num[w]
              \/ pc[w] = "progress" /\ n \in Numbers(Chunk(w)) /\ n <= num[w]
              \/ pc[w] = "unlock" /\ todo[w] = <<>> /\ n \in Numbers(Chunk(w))
  BY DEF PassedBy, At
<1>2. n \in PassedBy(w)' <=>
              \/ pc'[w] = "block" /\ n \in Numbers(Head(chunks'[w])) /\ n < num'[w]
              \/ pc'[w] = "progress" /\ n \in Numbers(Head(chunks'[w])) /\ n <= num'[w]
              \/ pc'[w] = "unlock" /\ todo'[w] = <<>> /\ n \in Numbers(Head(chunks'[w]))
  BY DEF PassedBy, At, Chunk
<1> QED BY <1>1, <1>2

(* Only the operator makes a number due, and storing it settles it.         *)
LEMMA DueShrinks ==
  ASSUME NEW w \in Worker, Moves(w)
  PROVE  due' \subseteq due /\ (ProcessBlock(w) => num[w] \notin due')
  BY DEF Moves, WorkerStep, WorkerFault, ReadQueue, ClearQueue, Refill, ReadFirst, QueueEmpty,
     TakeFirst, AcquireLock, ChunkLocked, GetProgress, ProcessBlock, SetProgress, FinishChunk,
     PushRemaining, ReleaseLock, ClearProgress, Requeue, BlockFails, MergeFails, PopFails, LockFails,
     GetProgressFails, IgnoredFailure, Stop, Exit, Restart, history

(* A key that a worker writes says no more than what the worker has passed. *)
LEMMA MovesKeys ==
  ASSUME RescanTypeOK, HandInv, NEW w \in Worker, Moves(w), NEW n \in Num, ~Behind(n),
         NEW r \in Ranges, n \in Numbers(r)
  PROVE  ~(n < progress'[r])
<1>0. /\ progress \in [Ranges -> 0 .. MaxNum + 1] /\ n \in Nat /\ n \notin PassedBy(w)
      /\ ~(n < progress[r]) /\ r.from \in Nat /\ r.from <= n
  BY RangeFacts DEF RescanTypeOK, Num, Behind, Numbers
<1>1. CASE SetProgress(w)
  <2>1. /\ pc[w] = "progress" /\ Chunk(w) \in Ranges /\ num[w] \in Nat
        /\ progress' = [progress EXCEPT ![Chunk(w)] = num[w] + 1]
    BY <1>1, HandFacts DEF SetProgress, At, RescanTypeOK
  <2>2. r = Chunk(w) => ~(n <= num[w])
    BY <1>0, <2>1, PassedByFacts
  <2>3. r = Chunk(w) => ~(n < num[w] + 1)
    BY <1>0, <2>1, <2>2
  <2> QED BY <1>0, <2>1, <2>3
<1>2. CASE ClearProgress(w)
  <2>1. Chunk(w) \in Ranges /\ progress' = [progress EXCEPT ![Chunk(w)] = Chunk(w).from]
    BY <1>2, HandFacts DEF ClearProgress, At
  <2>2. r = Chunk(w) => ~(n < Chunk(w).from)
    BY <1>0
  <2> QED BY <1>0, <2>1, <2>2
<1>3. CASE progress' = progress
  BY <1>0, <1>3
<1> QED BY <1>1, <1>2, <1>3 DEF Moves, WorkerStep, WorkerFault, ReadQueue, ClearQueue, Refill,
       ReadFirst, QueueEmpty, TakeFirst, AcquireLock, ChunkLocked, GetProgress, ProcessBlock,
       FinishChunk, PushRemaining, ReleaseLock, Requeue, BlockFails, MergeFails, PopFails, LockFails,
       GetProgressFails, IgnoredFailure, Stop, Exit, Restart, redisKeys

(* A worker passes only what it stores, what a key lets it skip and what it *)
(* had passed before.                                                       *)
LEMMA MovesPassedBy ==
  ASSUME RescanTypeOK, HandInv, NEW w \in Worker, Moves(w), NEW n \in Num, ~Behind(n),
         n \in due'
  PROVE  n \notin PassedBy(w)'
<1>0. /\ pc \in [Worker -> PC] /\ chunks \in [Worker -> Seq(Ranges)]
      /\ todo \in [Worker -> Seq(Ranges)] /\ num \in [Worker -> 0 .. MaxNum + 1]
      /\ InHand(w) /\ n \in Nat /\ n \notin PassedBy(w) /\ num[w] \in Nat
      /\ \A r \in Ranges : n \in Numbers(r) => ~(n < progress[r])
  BY RangeFacts DEF RescanTypeOK, HandInv, Num, Behind
<1>t. pc'[w] \notin {"block", "progress", "unlock"} => n \notin PassedBy(w)'
  BY PassedByFacts
<1>u. pc'[w] = "unlock" /\ todo'[w] # <<>> => n \notin PassedBy(w)'
  BY PassedByFacts
<1>1. CASE ReadQueue(w) \/ ClearQueue(w) \/ Refill(w) \/ (\E r \in Ranges : ReadFirst(w, r))
           \/ TakeFirst(w) \/ AcquireLock(w) \/ BlockFails(w) \/ MergeFails(w)
           \/ LockFails(w) \/ Exit(w) \/ Restart(w) \/ ReleaseLock(w)
           \/ (At(w, "unlock") /\ IgnoredFailure(w))
  <2>1. pc'[w] \notin {"block", "progress", "unlock"}
    BY <1>0, <1>1 DEF ReadQueue, ClearQueue, Refill, ReadFirst, TakeFirst, AcquireLock,
       BlockFails, MergeFails, LockFails, Exit, Restart, ReleaseLock, IgnoredFailure, At, Goto
  <2> QED BY <1>t, <2>1
<1>2. CASE QueueEmpty(w) \/ PopFails(w)
  BY <1>2, <1>t, NextRoundEffect DEF QueueEmpty, PopFails
<1>3. CASE ChunkLocked(w)
  <2>1. chunks[w] # <<>> /\ ChunkDone(w)
    BY <1>0, <1>3 DEF ChunkLocked, At, InHand
  <2> QED BY <1>t, <2>1, ChunkDoneEffect
<1>4. CASE GetProgress(w)
  <2>1. Chunk(w) \in Ranges
    BY <1>4, HandFacts DEF GetProgress, At
  <2>2. pc'[w] = "block" /\ num'[w] = progress[Chunk(w)] /\ Head(chunks'[w]) = Chunk(w)
    BY <1>0, <1>4 DEF GetProgress, Goto, Chunk
  <2> QED BY <1>0, <2>1, <2>2, PassedByFacts
<1>5. CASE ProcessBlock(w)
  <2>1. /\ pc[w] = "block" /\ pc'[w] = "progress" /\ Head(chunks'[w]) = Chunk(w)
        /\ num'[w] = num[w] /\ n # num[w]
    BY <1>0, <1>5, DueShrinks DEF ProcessBlock, Goto, At, Chunk
  <2>2. n <= num[w] => n < num[w]
    BY <1>0, <2>1
  <2> QED BY <1>0, <2>1, <2>2, PassedByFacts
<1>6. CASE SetProgress(w) \/ (At(w, "progress") /\ IgnoredFailure(w))
  <2>1. /\ pc[w] = "progress" /\ pc'[w] = "block" /\ num'[w] = num[w] + 1
        /\ Head(chunks'[w]) = Chunk(w)
    BY <1>0, <1>6 DEF SetProgress, IgnoredFailure, Goto, At, Chunk
  <2>2. n < num[w] + 1 => n <= num[w]
    BY <1>0
  <2> QED BY <1>0, <2>1, <2>2, PassedByFacts
<1>7. CASE FinishChunk(w)
  <2>1. /\ pc[w] = "block" /\ pc'[w] = "unlock" /\ num[w] > Chunk(w).to
        /\ Head(chunks'[w]) = Chunk(w) /\ Chunk(w) \in Ranges
    BY <1>0, <1>7, HandFacts DEF FinishChunk, Goto, At, Chunk
  <2>2. n \in Numbers(Chunk(w)) => n < num[w]
    BY <1>0, <2>1, RangeFacts DEF Numbers
  <2> QED BY <1>0, <2>1, <2>2, PassedByFacts
<1>8. CASE PushRemaining(w) \/ (At(w, "remain") /\ IgnoredFailure(w))
  <2>1. pc[w] = "remain" /\ pc'[w] = "unlock" /\ UNCHANGED todo
    BY <1>0, <1>8 DEF PushRemaining, IgnoredFailure, Goto, At
  <2> QED BY <1>0, <1>u, <2>1 DEF InHand
<1>9. CASE ClearProgress(w) \/ (At(w, "forget") /\ IgnoredFailure(w))
  <2>1. chunks[w] # <<>> /\ ChunkReturns(w)
    BY <1>0, <1>9 DEF ClearProgress, IgnoredFailure, At, InHand
  <2> QED BY <1>t, <2>1, ChunkReturnsEffect
<1>10. CASE Requeue(w) \/ (At(w, "requeue") /\ IgnoredFailure(w))
  <2>1. todo[w] # <<>> /\ PushedOne(w) /\ pc[w] = "requeue"
    BY <1>0, <1>10 DEF Requeue, IgnoredFailure, At, InHand
  <2> QED BY <1>t, <2>1, PushedOneEffect
<1>11. CASE GetProgressFails(w)
  <2>1. pc'[w] = "unlock" /\ todo'[w] = RequeueList(w) /\ RequeueList(w) # <<>>
    BY <1>0, <1>11, HandFacts DEF GetProgressFails, Goto
  <2> QED BY <1>u, <2>1
<1>12. CASE Stop(w)
  <2>1. UNCHANGED <<pc, chunks, num, todo>>
    BY <1>12 DEF Stop
  <2> QED BY <1>0, <2>1, PassedByFacts DEF Chunk
<1>13. IgnoredFailure(w) => \/ At(w, "progress") \/ At(w, "remain") \/ At(w, "unlock")
                            \/ At(w, "forget") \/ At(w, "requeue")
  BY DEF IgnoredFailure
<1> QED BY <1>1, <1>2, <1>3, <1>4, <1>5, <1>6, <1>7, <1>8, <1>9, <1>10, <1>11, <1>12, <1>13
       DEF Moves, WorkerStep, WorkerFault

(* A step of a worker leaves what is due ahead of everyone.                 *)
LEMMA MovesDue ==
  ASSUME RescanTypeOK, HandInv, PassedInv, NEW w \in Worker, Moves(w)
  PROVE  DueAhead'
<1> SUFFICES ASSUME NEW n \in due'
             PROVE  /\ \A r \in Ranges : n \in Numbers(r) => ~(n < progress'[r])
                    /\ \A v \in Worker : n \notin PassedBy(v)'
  BY DEF DueAhead, Behind
<1>1. n \in Num /\ ~Behind(n)
  BY DueShrinks DEF RescanTypeOK, PassedInv, DueAhead
<1>2. \A r \in Ranges : n \in Numbers(r) => ~(n < progress'[r])
  BY <1>1, MovesKeys
<1>3. ASSUME NEW v \in Worker PROVE n \notin PassedBy(v)'
  <2>1. CASE v = w
    BY <1>1, <2>1, MovesPassedBy
  <2>2. CASE v # w
    <3>1. n \notin PassedBy(v)
      BY <1>1 DEF Behind
    <3>2. pc'[v] = pc[v] /\ chunks'[v] = chunks[v] /\ num'[v] = num[v] /\ todo'[v] = todo[v]
      BY <2>2, OthersRest
    <3> QED BY <3>1, <3>2, PassedByFacts DEF Chunk
  <2> QED BY <2>1, <2>2
<1> QED BY <1>2, <1>3

-----------------------------------------------------------------------------
(* Locks *)

(* A disturbance stays on record, and while there is none, no Redis command *)
(* fails and no process ends.                                               *)
LEMMA CalmSteps ==
  ASSUME LockInv, NEW w \in Worker, Moves(w), calm'
  PROVE  calm /\ redis[w] /\ (WorkerStep(w) \/ BlockFails(w) \/ Restart(w))
<1>1. ASSUME RedisError(w) PROVE FALSE
  BY <1>1 DEF RedisError, LockInv
<1>2. ~MergeFails(w) /\ ~PopFails(w) /\ ~LockFails(w) /\ ~GetProgressFails(w) /\ ~IgnoredFailure(w)
  BY <1>1 DEF MergeFails, PopFails, LockFails, GetProgressFails, IgnoredFailure
<1>3. ~Stop(w) /\ ~Exit(w)
  BY DEF Stop, Exit, LockInv
<1>4. WorkerStep(w) \/ BlockFails(w) \/ Restart(w)
  BY <1>2, <1>3 DEF Moves, WorkerFault
<1>5. calm
  BY <1>4 DEF WorkerStep, ReadQueue, ClearQueue, Refill, ReadFirst, QueueEmpty, TakeFirst,
     AcquireLock, ChunkLocked, GetProgress, ProcessBlock, SetProgress, FinishChunk, PushRemaining,
     ReleaseLock, ClearProgress, Requeue, BlockFails, Restart, Pushed
<1> QED BY <1>4, <1>5 DEF LockInv

(* The locked chunks stay the held ones, and each has one holder.           *)
LEMMA MovesLock ==
  ASSUME RescanTypeOK, HandInv, LockInv, NEW w \in Worker, Moves(w)
  PROVE  LockInv'
<1> SUFFICES ASSUME calm'
             PROVE  /\ \A r \in Ranges : \A u, v \in Worker : Holds(u, r)' /\ Holds(v, r)' => u = v
                    /\ \A v \in Worker : redis'[v]
                    /\ \A r \in Ranges : r \in locks' <=> \E v \in Worker : Holds(v, r)'
  BY DEF LockInv, ChunkExclusive
<1>0. /\ pc \in [Worker -> PC] /\ chunks \in [Worker -> Seq(Ranges)]
      /\ redis \in [Worker -> BOOLEAN]
  BY DEF RescanTypeOK
<1>1. calm /\ (WorkerStep(w) \/ BlockFails(w) \/ Restart(w))
  BY CalmSteps
<1>2. /\ \A r \in Ranges : \A u, v \in Worker : Holds(u, r) /\ Holds(v, r) => u = v
      /\ \A v \in Worker : redis[v]
      /\ \A r \in Ranges : r \in locks <=> \E v \in Worker : Holds(v, r)
  BY <1>1 DEF LockInv, ChunkExclusive
<1>3. \A v \in Worker : redis'[v]
  BY <1>0, <1>1, <1>2 DEF WorkerStep, ReadQueue, ClearQueue, Refill, ReadFirst, QueueEmpty, TakeFirst,
     AcquireLock, ChunkLocked, GetProgress, ProcessBlock, SetProgress, FinishChunk, PushRemaining,
     ReleaseLock, ClearProgress, Requeue, BlockFails, Restart
<1>4. \A v \in Worker : v # w => \A r \in Ranges : Holds(v, r)' <=> Holds(v, r)
  BY OthersRest DEF Holds, Chunk
<1>5. ASSUME locks' = locks, \A r \in Ranges : Holds(w, r)' <=> Holds(w, r)
      PROVE  /\ \A r \in Ranges : \A u, v \in Worker : Holds(u, r)' /\ Holds(v, r)' => u = v
             /\ \A r \in Ranges : r \in locks' <=> \E v \in Worker : Holds(v, r)'
  BY <1>2, <1>4, <1>5
<1> DEFINE H == {"resume", "block", "progress", "remain", "unlock"}
<1>6. CASE ReadQueue(w) \/ ClearQueue(w) \/ Refill(w) \/ (\E r \in Ranges : ReadFirst(w, r))
           \/ TakeFirst(w) \/ Restart(w)
  <2>1. pc[w] \notin H /\ pc'[w] \notin H /\ locks' = locks
    BY <1>0, <1>6 DEF ReadQueue, ClearQueue, Refill, ReadFirst, TakeFirst, Restart, Goto, At, redisKeys
  <2> QED BY <1>3, <1>5, <2>1 DEF Holds
<1>7. CASE QueueEmpty(w)
  <2>1. pc[w] \notin H /\ pc'[w] \notin H /\ locks' = locks
    BY <1>7, NextRoundEffect DEF QueueEmpty, At, redisKeys
  <2> QED BY <1>3, <1>5, <2>1 DEF Holds
<1>8. CASE ChunkLocked(w)
  <2>1. pc[w] = "lock" /\ locks' = locks /\ chunks[w] # <<>> /\ ChunkDone(w)
    BY <1>8 DEF ChunkLocked, At, redisKeys, HandInv, InHand
  <2>2. pc'[w] \notin H
    BY <2>1, ChunkDoneEffect
  <2> QED BY <1>3, <1>5, <2>1, <2>2 DEF Holds
<1>9. CASE ClearProgress(w)
  <2>1. pc[w] = "forget" /\ locks' = locks /\ chunks[w] # <<>> /\ ChunkReturns(w)
    BY <1>9 DEF ClearProgress, At, HandInv, InHand
  <2>2. pc'[w] \notin H
    BY <2>1, ChunkReturnsEffect
  <2> QED BY <1>3, <1>5, <2>1, <2>2 DEF Holds
<1>10. CASE Requeue(w)
  <2>1. pc[w] = "requeue" /\ locks' = locks /\ todo[w] # <<>> /\ PushedOne(w)
    BY <1>10 DEF Requeue, At, HandInv, InHand
  <2>2. pc'[w] \notin H
    BY <2>1, PushedOneEffect
  <2> QED BY <1>3, <1>5, <2>1, <2>2 DEF Holds
<1>11. CASE GetProgress(w) \/ ProcessBlock(w) \/ SetProgress(w) \/ FinishChunk(w)
            \/ PushRemaining(w) \/ BlockFails(w)
  <2>1. pc[w] \in H /\ pc'[w] \in H /\ UNCHANGED <<locks, chunks>>
    BY <1>0, <1>11 DEF GetProgress, ProcessBlock, SetProgress, FinishChunk, PushRemaining,
       BlockFails, Goto, At, redisKeys
  <2> QED BY <1>3, <1>5, <2>1 DEF Holds, Chunk
<1>12. CASE AcquireLock(w)
  <2> DEFINE c == Chunk(w)
  <2>1. /\ c \in Ranges /\ c \notin locks /\ locks' = locks \cup {c}
        /\ pc[w] = "lock" /\ pc'[w] = "resume" /\ chunks' = chunks
    BY <1>0, <1>12, HandFacts DEF AcquireLock, Goto, At
  <2>2. /\ \A r \in Ranges : ~Holds(w, r)
        /\ \A r \in Ranges : Holds(w, r)' <=> r = c
    BY <2>1 DEF Holds, Chunk
  <2> HIDE DEF c
  <2> QED BY <1>2, <1>3, <1>4, <2>1, <2>2
<1>13. CASE ReleaseLock(w)
  <2> DEFINE c == Chunk(w)
  <2>1. /\ c \in Ranges /\ locks' = locks \ {c} /\ pc[w] = "unlock" /\ pc'[w] = "forget"
    BY <1>0, <1>13, HandFacts DEF ReleaseLock, Goto, At
  <2>2. /\ \A r \in Ranges : Holds(w, r) <=> r = c
        /\ \A r \in Ranges : ~Holds(w, r)'
    BY <2>1 DEF Holds
  <2> HIDE DEF c
  <2> QED BY <1>2, <1>3, <1>4, <2>1, <2>2
<1> QED BY <1>1, <1>6, <1>7, <1>8, <1>9, <1>10, <1>11, <1>12, <1>13 DEF WorkerStep

-----------------------------------------------------------------------------
(* Nothing is lost *)

(* The numbers of a queue, and of one with a range more or less.            *)
LEMMA QueueNumbers ==
  ASSUME NEW Q, NEW r, NEW n
  PROVE  /\ n \in NumbersOf(Q) <=> \E q \in Q : n \in Numbers(q)
         /\ n \in NumbersOf(Q \cup {r}) <=> n \in NumbersOf(Q) \/ n \in Numbers(r)
         /\ n \in NumbersOf(Q) => n \in NumbersOf(Q \ {r}) \/ n \in Numbers(r)
  BY DEF NumbersOf

(* What is in the hands of a worker, by where it is.                        *)
LEMMA HeldFacts ==
  ASSUME NEW w, NEW n
  PROVE  /\ n \in Held(w) <=>
              \/ n \in NumbersOf(ToSet(todo[w]))
              \/ pc[w] = "take" /\ n \in Numbers(job[w])
              \/ pc[w] \in {"lock", "resume"} /\ n \in NumbersOf(ToSet(chunks[w]))
              \/ /\ pc[w] \in {"block", "progress"}
                 /\ n \in num[w] .. Chunk(w).to \/ n \in NumbersOf(ToSet(Tail(chunks[w])))
              \/ pc[w] \in {"unlock", "forget"} /\ n \in NumbersOf(ToSet(Tail(chunks[w])))
         /\ n \in Held(w)' <=>
              \/ n \in NumbersOf(ToSet(todo'[w]))
              \/ pc'[w] = "take" /\ n \in Numbers(job'[w])
              \/ pc'[w] \in {"lock", "resume"} /\ n \in NumbersOf(ToSet(chunks'[w]))
              \/ /\ pc'[w] \in {"block", "progress"}
                 /\ n \in num'[w] .. Head(chunks'[w]).to \/ n \in NumbersOf(ToSet(Tail(chunks'[w])))
              \/ pc'[w] \in {"unlock", "forget"} /\ n \in NumbersOf(ToSet(Tail(chunks'[w])))
<1>1. n \in Held(w) <=>
              \/ n \in NumbersOf(ToSet(todo[w]))
              \/ pc[w] = "take" /\ n \in Numbers(job[w])
              \/ pc[w] \in {"lock", "resume"} /\ n \in NumbersOf(ToSet(chunks[w]))
              \/ /\ pc[w] \in {"block", "progress"}
                 /\ n \in num[w] .. Chunk(w).to \/ n \in NumbersOf(ToSet(Tail(chunks[w])))
              \/ pc[w] \in {"unlock", "forget"} /\ n \in NumbersOf(ToSet(Tail(chunks[w])))
  BY DEF Held, At
<1>2. n \in Held(w)' <=>
              \/ n \in NumbersOf(ToSet(todo'[w]))
              \/ pc'[w] = "take" /\ n \in Numbers(job'[w])
              \/ pc'[w] \in {"lock", "resume"} /\ n \in NumbersOf(ToSet(chunks'[w]))
              \/ /\ pc'[w] \in {"block", "progress"}
                 /\ n \in num'[w] .. Head(chunks'[w]).to \/ n \in NumbersOf(ToSet(Tail(chunks'[w])))
              \/ pc'[w] \in {"unlock", "forget"} /\ n \in NumbersOf(ToSet(Tail(chunks'[w])))
  BY DEF Held, At, Chunk
<1> QED BY <1>1, <1>2

(* A worker's step leaves what the others hold.                             *)
LEMMA OthersHold ==
  ASSUME RescanTypeOK, NEW w \in Worker, Moves(w), NEW v \in Worker, v # w
  PROVE  Held(v)' = Held(v)
  BY OthersRest DEF Held, At, Chunk

(* What is due of a chunk that is locked is in the hands of the worker that *)
(* locked it.                                                               *)
LEMMA HolderServes ==
  ASSUME RescanInv, NEW v \in Worker, NEW r \in Ranges, Holds(v, r),
         NEW n \in Numbers(r), n \in due
  PROVE  n \in Held(v)
<1>a. /\ pc[v] \in {"resume", "block", "progress", "remain", "unlock"} /\ Chunk(v) = r
      /\ chunks[v] \in Seq(Ranges) /\ num[v] \in Nat
      /\ InHand(v) /\ n \notin PassedBy(v) /\ Covers(v)
  BY DEF Holds, RescanInv, RescanTypeOK, HandInv, PassedInv, DueAhead, Behind, CoverInv
<1>b. r.from \in Nat /\ r.to \in Nat /\ n \in Nat /\ r.from <= n /\ n <= r.to /\ n \in Num
  BY RangeFacts DEF Numbers, Num
<1>c. chunks[v] # <<>>
  BY <1>a DEF InHand
<1>0. /\ pc[v] \in {"resume", "block", "progress", "remain", "unlock"} /\ Chunk(v) = r
      /\ chunks[v] \in Seq(Ranges) /\ chunks[v] # <<>> /\ num[v] \in Nat
      /\ InHand(v) /\ n \notin PassedBy(v) /\ Covers(v)
      /\ r.from \in Nat /\ r.to \in Nat /\ n \in Nat /\ r.from <= n /\ n <= r.to /\ n \in Num
  BY <1>a, <1>b, <1>c
<1>1. n \in NumbersOf(ToSet(chunks[v]))
  BY <1>0, HeadTailFacts DEF Chunk
<1>2. CASE pc[v] = "resume"
  BY <1>1, <1>2, HeldFacts
<1>3. CASE pc[v] \in {"block", "progress"}
  <2>1. ~(n < num[v])
    BY <1>0, <1>3, PassedByFacts
  <2>2. n >= num[v] => n \in num[v] .. Chunk(v).to
    BY <1>0
  <2> QED BY <1>0, <1>3, <2>1, <2>2, HeldFacts
<1>4. CASE pc[v] \in {"remain", "unlock"} /\ todo[v] # <<>>
  BY <1>0, <1>1, <1>4, HeldFacts DEF Covers
<1>5. CASE pc[v] \in {"remain", "unlock"} /\ todo[v] = <<>>
  BY <1>0, <1>5, PassedByFacts DEF InHand
<1> QED BY <1>0, <1>2, <1>3, <1>4, <1>5

(* A worker that returns from an error has all it left on its list, and one *)
(* that is about to clear the queue has all that it clears.                 *)
LEMMA MovesCovers ==
  ASSUME RescanInv, NEW w \in Worker, Moves(w)
  PROVE  Covers(w)'
<1>0. /\ pc \in [Worker -> PC] /\ chunks \in [Worker -> Seq(Ranges)] /\ job \in [Worker -> Ranges]
      /\ todo \in [Worker -> Seq(Ranges)] /\ queue \subseteq Ranges
      /\ RescanTypeOK /\ LockInv /\ InHand(w) /\ Covers(w)
  BY DEF RescanInv, RescanTypeOK, HandInv, CoverInv
<1>l. NumbersOf(ToSet(chunks[w])) \subseteq NumbersOf(ToSet(RequeueList(w)))
  BY <1>0, RequeueFacts DEF RequeueList
<1>t. pc'[w] \notin {"remain", "unlock", "forget", "clear"} => Covers(w)'
  BY DEF Covers, At
<1>u. pc'[w] # "clear" /\ chunks'[w] = chunks[w] /\ todo'[w] = RequeueList(w) => Covers(w)'
  BY <1>l DEF Covers, At
<1>v. /\ pc'[w] # "clear" /\ UNCHANGED <<chunks, todo>>
      /\ pc[w] \in {"remain", "unlock"} \/ todo[w] = <<>>
      => Covers(w)'
  BY <1>0 DEF Covers, At
<1>1. CASE ReadQueue(w)
  <2> DEFINE merged == MergeRanges(queue)
  <2>1. NumbersOf(queue) \subseteq NumbersOf(ToSet(merged))
    BY <1>0, RangesSoundOfRanges DEF RangesSound
  <2> HIDE DEF merged
  <2>2. \/ pc'[w] = "clear" /\ todo'[w] = merged /\ queue' = queue
        \/ pc'[w] = "pop"
    BY <1>0, <1>1 DEF ReadQueue, Goto, merged, redisKeys
  <2> QED BY <1>t, <2>1, <2>2 DEF Covers, At
<1>2. CASE ClearQueue(w) \/ Refill(w) \/ (\E r \in Ranges : ReadFirst(w, r)) \/ TakeFirst(w)
           \/ AcquireLock(w) \/ GetProgress(w) \/ ProcessBlock(w) \/ SetProgress(w)
           \/ MergeFails(w) \/ LockFails(w) \/ Exit(w) \/ Restart(w)
  <2>1. pc'[w] \notin {"remain", "unlock", "forget", "clear"}
    BY <1>0, <1>2 DEF ClearQueue, Refill, ReadFirst, TakeFirst, AcquireLock, GetProgress,
       ProcessBlock, SetProgress, MergeFails, LockFails, Exit, Restart, Goto
  <2> QED BY <1>t, <2>1
<1>3. CASE QueueEmpty(w) \/ PopFails(w)
  BY <1>0, <1>3, <1>t, NextRoundEffect DEF QueueEmpty, PopFails
<1>4. CASE ChunkLocked(w)
  <2>1. chunks[w] # <<>> /\ ChunkDone(w)
    BY <1>0, <1>4 DEF ChunkLocked, At, InHand
  <2> QED BY <1>0, <1>t, <2>1, ChunkDoneEffect
<1>5. CASE FinishChunk(w)
  <2>1. pc'[w] = "unlock" /\ UNCHANGED <<chunks, todo>> /\ todo[w] = <<>>
    BY <1>0, <1>5 DEF FinishChunk, Goto, At, InHand
  <2> QED BY <1>v, <2>1
<1>6. CASE \/ PushRemaining(w) \/ ReleaseLock(w)
           \/ (At(w, "remain") \/ At(w, "unlock")) /\ IgnoredFailure(w)
  <2>1. /\ pc[w] \in {"remain", "unlock"} /\ pc'[w] \in {"unlock", "forget"}
        /\ UNCHANGED <<chunks, todo>>
    BY <1>0, <1>6 DEF PushRemaining, ReleaseLock, IgnoredFailure, Goto, At
  <2> QED BY <1>v, <2>1
<1>7. CASE BlockFails(w) \/ GetProgressFails(w)
  <2>1. pc'[w] # "clear" /\ chunks' = chunks /\ todo'[w] = RequeueList(w)
    BY <1>0, <1>7 DEF BlockFails, GetProgressFails, Goto
  <2> QED BY <1>u, <2>1
<1>8. CASE ClearProgress(w) \/ (At(w, "forget") /\ IgnoredFailure(w))
  <2>1. chunks[w] # <<>> /\ ChunkReturns(w)
    BY <1>0, <1>8 DEF ClearProgress, IgnoredFailure, At, InHand
  <2> QED BY <1>0, <1>t, <2>1, ChunkReturnsEffect
<1>9. CASE Requeue(w) \/ (At(w, "requeue") /\ IgnoredFailure(w))
  <2>1. todo[w] # <<>> /\ PushedOne(w) /\ pc[w] = "requeue"
    BY <1>0, <1>9 DEF Requeue, IgnoredFailure, At, InHand
  <2> QED BY <1>0, <1>t, <2>1, PushedOneEffect
<1>10. CASE At(w, "progress") /\ IgnoredFailure(w)
  <2>1. pc'[w] = "block"
    BY <1>0, <1>10 DEF IgnoredFailure, Goto, At
  <2> QED BY <1>t, <2>1
<1>11. CASE Stop(w)
  <2>1. UNCHANGED <<pc, chunks, todo>> /\ ~calm'
    BY <1>11 DEF Stop
  <2> QED BY <1>0, <2>1 DEF Covers, At
<1>12. IgnoredFailure(w) => \/ At(w, "progress") \/ At(w, "remain") \/ At(w, "unlock")
                            \/ At(w, "forget") \/ At(w, "requeue")
  BY DEF IgnoredFailure
<1> QED BY <1>1, <1>2, <1>3, <1>4, <1>5, <1>6, <1>7, <1>8, <1>9, <1>10, <1>11, <1>12
       DEF Moves, WorkerStep, WorkerFault

(* A push while another worker is about to clear the queue is on record.    *)
LEMMA OthersCover ==
  ASSUME RescanInv, NEW w \in Worker, Moves(w), NEW v \in Worker, v # w
  PROVE  Covers(v)'
<1>0. /\ pc'[v] = pc[v] /\ chunks'[v] = chunks[v] /\ todo'[v] = todo[v] /\ Covers(v) /\ LockInv
  BY OthersRest DEF RescanInv, CoverInv
<1>1. ASSUME calm', At(v, "clear") PROVE calm /\ NumbersOf(queue') \subseteq NumbersOf(queue)
  <2>1. calm /\ (WorkerStep(w) \/ BlockFails(w) \/ Restart(w))
    BY <1>0, <1>1, CalmSteps
  <2>2. \A r : ~Pushed(r)
    BY <1>1 DEF Pushed
  <2>3. queue' \subseteq queue
    BY <2>1, <2>2 DEF WorkerStep, ReadQueue, ClearQueue, Refill, ReadFirst, QueueEmpty, TakeFirst,
       AcquireLock, ChunkLocked, GetProgress, ProcessBlock, SetProgress, FinishChunk, PushRemaining,
       ReleaseLock, ClearProgress, Requeue, BlockFails, Restart, redisKeys
  <2> QED BY <2>1, <2>3 DEF NumbersOf
<1> QED BY <1>0, <1>1 DEF Covers, At

(* A step of a worker loses no number, unless it is a disturbance.          *)
LEMMA MovesKeep ==
  ASSUME RescanInv, NEW w \in Worker, Moves(w)
  PROVE  NothingLost'
<1> SUFFICES ASSUME calm', NEW n \in due'
             PROVE  n \in NumbersOf(queue') \/ \E v \in Worker : n \in Held(v)'
  BY DEF NothingLost
<1>0. /\ pc \in [Worker -> PC] /\ chunks \in [Worker -> Seq(Ranges)] /\ job \in [Worker -> Ranges]
      /\ todo \in [Worker -> Seq(Ranges)] /\ queue \subseteq Ranges
      /\ num \in [Worker -> 0 .. MaxNum + 1] /\ progress \in [Ranges -> 0 .. MaxNum + 1]
      /\ RescanTypeOK /\ HandInv /\ LockInv /\ PassedInv /\ InHand(w) /\ Passed(w) /\ Covers(w)
  BY DEF RescanInv, RescanTypeOK, HandInv, PassedInv, CoverInv
<1>1. calm /\ (WorkerStep(w) \/ BlockFails(w) \/ Restart(w))
  BY <1>0, CalmSteps
<1>2. n \in due /\ ~Behind(n)
  BY <1>0, DueShrinks DEF PassedInv, DueAhead
<1>3. n \in NumbersOf(queue) \/ \E v \in Worker : n \in Held(v)
  BY <1>1, <1>2 DEF RescanInv, CoverInv, NothingLost
<1>4. SUFFICES ASSUME n \in NumbersOf(queue) \/ n \in Held(w)
               PROVE  n \in NumbersOf(queue') \/ \E v \in Worker : n \in Held(v)'
  BY <1>0, <1>3, OthersHold
<1>e. todo[w] = <<>> => n \notin NumbersOf(ToSet(todo[w]))
  BY NoNumbers
<1>5. CASE ReadQueue(w) \/ (\E r \in Ranges : ReadFirst(w, r)) \/ QueueEmpty(w)
  <2>1. /\ pc[w] \in {"idle", "pop"} /\ queue' = queue /\ todo[w] = <<>>
    BY <1>0, <1>5 DEF ReadQueue, ReadFirst, QueueEmpty, At, InHand, redisKeys
  <2>2. n \notin Held(w)
    BY <1>e, <2>1, HeldFacts
  <2> QED BY <1>4, <2>1, <2>2
<1>6. CASE ClearQueue(w)
  <2>1. pc[w] = "clear" /\ pc'[w] = "refill" /\ todo' = todo
    BY <1>0, <1>6 DEF ClearQueue, At, Goto
  <2>2. n \in NumbersOf(queue) => n \in NumbersOf(ToSet(todo[w]))
    BY <1>0, <1>1, <2>1 DEF Covers, At
  <2> QED BY <1>4, <2>1, <2>2, HeldFacts
<1>7. CASE Refill(w)
  <2>1. /\ pc[w] = "refill" /\ queue' = queue \cup {Head(todo[w])} /\ todo'[w] = Tail(todo[w])
        /\ todo[w] # <<>> /\ todo[w] \in Seq(Ranges)
    BY <1>0, <1>7 DEF Refill, Pushed, At, InHand
  <2>2. n \in Held(w) => n \in NumbersOf(ToSet(todo[w]))
    BY <2>1, HeldFacts
  <2>3. n \in NumbersOf(ToSet(todo[w])) => n \in Numbers(Head(todo[w])) \/ n \in NumbersOf(ToSet(todo'[w]))
    BY <2>1, HeadTailFacts
  <2>4. n \in NumbersOf(queue') <=> n \in NumbersOf(queue) \/ n \in Numbers(Head(todo[w]))
    BY <2>1, QueueNumbers
  <2> QED BY <1>4, <2>2, <2>3, <2>4, HeldFacts
<1>8. CASE TakeFirst(w)
  <2>1. /\ pc[w] = "take" /\ pc'[w] = "lock" /\ queue' = queue \ {job[w]} /\ job[w] \in Ranges
        /\ chunks'[w] = Split(job[w]) /\ todo[w] = <<>>
    BY <1>0, <1>8 DEF TakeFirst, At, Goto, InHand
  <2>2. n \in Held(w) => n \in Numbers(job[w])
    BY <1>e, <2>1, HeldFacts
  <2>3. n \in NumbersOf(queue) => n \in NumbersOf(queue') \/ n \in Numbers(job[w])
    BY <2>1, QueueNumbers
  <2>4. n \in Numbers(job[w]) => n \in NumbersOf(ToSet(chunks'[w]))
    BY <2>1, SplitSound, NumbersOfSeq
  <2> QED BY <1>4, <2>1, <2>2, <2>3, <2>4, HeldFacts
<1>9. CASE AcquireLock(w)
  <2>1. /\ pc[w] = "lock" /\ pc'[w] = "resume" /\ queue' = queue /\ UNCHANGED <<chunks, todo>>
    BY <1>0, <1>9 DEF AcquireLock, At, Goto
  <2> QED BY <1>4, <2>1, HeldFacts
<1>10. CASE ChunkLocked(w)
  <2>1. /\ pc[w] = "lock" /\ queue' = queue /\ chunks[w] # <<>> /\ todo[w] = <<>> /\ ChunkDone(w)
        /\ Chunk(w) \in locks /\ Chunk(w) \in Ranges /\ chunks[w] \in Seq(Ranges)
    BY <1>0, <1>10, HandFacts DEF ChunkLocked, At, InHand, redisKeys
  <2>2. n \in Held(w) => n \in Numbers(Chunk(w)) \/ n \in NumbersOf(ToSet(Tail(chunks[w])))
    BY <1>e, <2>1, HeldFacts, HeadTailFacts DEF Chunk
  <2>3. CASE n \in Numbers(Chunk(w))
    <3>1. PICK v \in Worker : Holds(v, Chunk(w))
      BY <1>0, <1>1, <2>1 DEF LockInv
    <3>2. v # w
      BY <2>1, <3>1 DEF Holds
    <3>3. n \in Held(v)
      BY <1>2, <2>1, <2>3, <3>1, HolderServes
    <3> QED BY <1>0, <3>2, <3>3, OthersHold
  <2>4. CASE n \in NumbersOf(ToSet(Tail(chunks[w])))
    <3>1. Tail(chunks[w]) # <<>>
      BY <2>4, NoNumbers
    <3>2. pc'[w] = "lock" /\ chunks'[w] = Tail(chunks[w])
      BY <1>0, <2>1, <3>1, ChunkDoneEffect
    <3> QED BY <2>4, <3>2, HeldFacts
  <2> QED BY <1>4, <2>1, <2>2, <2>3, <2>4
<1>11. CASE GetProgress(w)
  <2>1. /\ pc[w] = "resume" /\ pc'[w] = "block" /\ queue' = queue /\ UNCHANGED <<chunks, todo>>
        /\ num'[w] = progress[Chunk(w)] /\ todo[w] = <<>> /\ chunks[w] # <<>>
        /\ Chunk(w) \in Ranges /\ chunks[w] \in Seq(Ranges)
    BY <1>0, <1>11, HandFacts DEF GetProgress, At, Goto, InHand, redisKeys
  <2>2. n \in Held(w) => n \in Numbers(Chunk(w)) \/ n \in NumbersOf(ToSet(Tail(chunks[w])))
    BY <1>e, <2>1, HeldFacts, HeadTailFacts DEF Chunk
  <2>3. n \in Numbers(Chunk(w)) => n \in num'[w] .. Head(chunks'[w]).to
    <3> SUFFICES ASSUME n \in Numbers(Chunk(w)) PROVE n \in num'[w] .. Head(chunks'[w]).to
      OBVIOUS
    <3>1. /\ n \in Nat /\ Chunk(w).from <= n /\ n <= Chunk(w).to /\ Chunk(w).to \in Nat
          /\ n \in Num /\ Chunk(w).from \in Nat
      BY <2>1, RangeFacts DEF Numbers, Num
    <3>2. progress[Chunk(w)] \in Nat /\ ~(n < progress[Chunk(w)])
      BY <1>0, <1>2, <2>1 DEF Behind
    <3> QED BY <2>1, <3>1, <3>2 DEF Chunk
  <2> QED BY <1>4, <2>1, <2>2, <2>3, HeldFacts
<1>12. CASE ProcessBlock(w)
  <2>1. /\ pc[w] = "block" /\ pc'[w] = "progress" /\ queue' = queue /\ UNCHANGED <<chunks, todo, num>>
    BY <1>0, <1>12 DEF ProcessBlock, At, Goto, redisKeys
  <2> QED BY <1>4, <2>1, HeldFacts DEF Chunk
<1>13. CASE SetProgress(w)
  <2>1. /\ pc[w] = "progress" /\ pc'[w] = "block" /\ queue' = queue /\ UNCHANGED <<chunks, todo>>
        /\ num'[w] = num[w] + 1 /\ num[w] \in Nat /\ n \notin PassedBy(w)
        /\ Chunk(w) \in Ranges /\ Chunk(w).from <= num[w]
    BY <1>0, <1>2, <1>13, HandFacts DEF SetProgress, At, Goto, InHand, Behind
  <2>2. n \in num[w] .. Chunk(w).to => n \in num'[w] .. Head(chunks'[w]).to
    <3> SUFFICES ASSUME n \in num[w] .. Chunk(w).to PROVE n \in num'[w] .. Head(chunks'[w]).to
      OBVIOUS
    <3>1. n \in Numbers(Chunk(w)) /\ Chunk(w).to \in Nat /\ n \in Nat
      BY <2>1, RangeFacts DEF Numbers
    <3>2. ~(n <= num[w])
      BY <2>1, <3>1, PassedByFacts
    <3> QED BY <2>1, <3>1, <3>2 DEF Chunk
  <2> QED BY <1>4, <2>1, <2>2, HeldFacts
<1>14. CASE FinishChunk(w)
  <2>1. /\ pc[w] = "block" /\ pc'[w] = "unlock" /\ queue' = queue /\ UNCHANGED <<chunks, todo>>
        /\ num[w] > Chunk(w).to /\ num[w] \in Nat /\ Chunk(w) \in Ranges
    BY <1>0, <1>14, HandFacts DEF FinishChunk, At, Goto, redisKeys
  <2>2. n \notin num[w] .. Chunk(w).to
    BY <2>1, RangeFacts
  <2> QED BY <1>4, <2>1, <2>2, HeldFacts
<1>15. CASE BlockFails(w)
  <2>1. /\ pc[w] = "block" /\ queue' = queue /\ todo'[w] = RequeueList(w) /\ todo[w] = <<>>
        /\ Chunk(w) \in Ranges /\ Chunk(w).from <= num[w] /\ num[w] \in Nat
        /\ chunks[w] \in Seq(Ranges) /\ chunks[w] # <<>> /\ job[w] \in Ranges
    BY <1>0, <1>15, HandFacts DEF BlockFails, At, Goto, InHand, redisKeys
  <2>2. n \in num[w] .. Chunk(w).to => n \in Numbers(Chunk(w))
    BY <2>1, RangeFacts DEF Numbers
  <2>3. n \in Held(w) => n \in NumbersOf(ToSet(chunks[w]))
    BY <1>e, <2>1, <2>2, HeldFacts, HeadTailFacts DEF Chunk
  <2>4. n \in NumbersOf(ToSet(chunks[w])) => n \in NumbersOf(ToSet(todo'[w]))
    BY <2>1, RequeueFacts DEF RequeueList
  <2> QED BY <1>4, <2>1, <2>3, <2>4, HeldFacts
<1>16. CASE PushRemaining(w)
  <2>1. /\ pc[w] = "remain" /\ queue \subseteq queue' /\ todo' = todo
    BY <1>0, <1>16 DEF PushRemaining, Pushed, At
  <2>2. n \in NumbersOf(queue) => n \in NumbersOf(queue')
    BY <2>1, QueueNumbers
  <2> QED BY <1>4, <2>1, <2>2, HeldFacts
<1>17. CASE ReleaseLock(w)
  <2>1. /\ pc[w] = "unlock" /\ pc'[w] = "forget" /\ queue' = queue /\ UNCHANGED <<chunks, todo>>
    BY <1>0, <1>17 DEF ReleaseLock, At, Goto
  <2> QED BY <1>4, <2>1, HeldFacts
<1>18. CASE ClearProgress(w)
  <2>1. /\ pc[w] = "forget" /\ queue' = queue /\ chunks[w] # <<>> /\ ChunkReturns(w)
        /\ chunks[w] \in Seq(Ranges)
    BY <1>0, <1>18 DEF ClearProgress, At, InHand
  <2>2. n \in Held(w) => n \in NumbersOf(ToSet(todo[w])) \/ n \in NumbersOf(ToSet(Tail(chunks[w])))
    BY <2>1, HeldFacts
  <2>3. CASE todo[w] = <<>>
    <3>1. n \in Held(w) => n \in NumbersOf(ToSet(Tail(chunks[w]))) /\ Tail(chunks[w]) # <<>>
      BY <1>e, <2>2, <2>3, NoNumbers
    <3>2. Tail(chunks[w]) # <<>> => pc'[w] = "lock" /\ chunks'[w] = Tail(chunks[w])
      BY <1>0, <2>1, <2>3, ChunkReturnsEffect
    <3> QED BY <1>4, <2>1, <3>1, <3>2, HeldFacts
  <2>4. CASE todo[w] # <<>>
    <3>1. todo' = todo
      BY <1>0, <2>1, <2>4, ChunkReturnsEffect
    <3>2. n \in NumbersOf(ToSet(Tail(chunks[w]))) => n \in NumbersOf(ToSet(todo[w]))
      BY <1>0, <2>1, <2>4, HeadTailFacts DEF Covers
    <3> QED BY <1>4, <2>1, <2>2, <3>1, <3>2, HeldFacts
  <2> QED BY <2>3, <2>4
<1>19. CASE Requeue(w)
  <2>1. /\ pc[w] = "requeue" /\ queue' = queue \cup {Head(todo[w])} /\ PushedOne(w)
        /\ todo[w] # <<>> /\ todo[w] \in Seq(Ranges)
    BY <1>0, <1>19 DEF Requeue, Pushed, At, InHand
  <2>2. todo'[w] = Tail(todo[w])
    BY <1>0, <2>1, PushedOneEffect
  <2>3. n \in Held(w) => n \in Numbers(Head(todo[w])) \/ n \in NumbersOf(ToSet(todo'[w]))
    BY <2>1, <2>2, HeldFacts, HeadTailFacts
  <2>4. n \in NumbersOf(queue') <=> n \in NumbersOf(queue) \/ n \in Numbers(Head(todo[w]))
    BY <2>1, QueueNumbers
  <2> QED BY <1>4, <2>3, <2>4, HeldFacts
<1>20. CASE Restart(w)
  <2>1. pc[w] = "down" /\ queue' = queue /\ todo' = todo
    BY <1>0, <1>20 DEF Restart, At, redisKeys
  <2> QED BY <1>4, <2>1, HeldFacts
<1> QED BY <1>1, <1>5, <1>6, <1>7, <1>8, <1>9, <1>10, <1>11, <1>12, <1>13, <1>14, <1>15, <1>16, <1>17,
          <1>18, <1>19, <1>20 DEF WorkerStep

-----------------------------------------------------------------------------
(* The invariant *)

(* It holds at the start.                                                   *)
LEMMA RescanInvInit == Init => RescanInv
<1> SUFFICES ASSUME Init PROVE RescanInv
  OBVIOUS
<1>1. RescanTypeOK
  <2>1. <<>> \in Seq(Ranges) /\ \A r \in Ranges : r.from \in 0 .. MaxNum + 1
    BY RangeFacts
  <2> QED BY <2>1, RangeFacts DEF Init, RescanTypeOK, PC
<1>2. \A w \in Worker : pc[w] = "idle" /\ todo[w] = <<>> /\ redis[w]
  BY DEF Init
<1>3. HandInv /\ (\A w \in Worker : Passed(w) /\ Covers(w))
  BY <1>2 DEF HandInv, InHand, Passed, Covers, At
<1>4. PassedInv
  <2>1. \A r \in Ranges : progress[r] = r.from /\ r.from \in Nat
    BY RangeFacts DEF Init
  <2>2. \A n \in Num : n \in Nat
    BY RangeFacts DEF Num
  <2>3. DueAhead
    BY DEF Init, DueAhead
  <2> QED BY <1>3, <2>1, <2>2, <2>3 DEF PassedInv, ProgressHonest
<1>5. LockInv
  <2>1. \A w \in Worker : \A r \in Ranges : ~Holds(w, r)
    BY <1>2 DEF Holds
  <2> QED BY <1>2, <2>1 DEF LockInv, ChunkExclusive, Init
<1>6. CoverInv
  BY <1>3 DEF CoverInv, NothingLost, Init
<1> QED BY <1>1, <1>3, <1>4, <1>5, <1>6 DEF RescanInv

(* A worker keeps it.                                                       *)
LEMMA MovesInv ==
  ASSUME RescanInv, NEW w \in Worker, Moves(w)
  PROVE  RescanInv'
<1>0. RescanTypeOK /\ HandInv /\ PassedInv /\ LockInv /\ CoverInv
  BY DEF RescanInv
<1>1. RescanTypeOK' /\ LockInv'
  BY <1>0, MovesTypes, MovesLock
<1>2. ASSUME NEW v \in Worker PROVE InHand(v)' /\ Passed(v)' /\ Covers(v)'
  <2>1. CASE v = w
    BY <1>0, <2>1, MovesHand, MovesPassed, MovesCovers
  <2>2. CASE v # w
    <3>1. /\ pc'[v] = pc[v] /\ chunks'[v] = chunks[v] /\ num'[v] = num[v] /\ todo'[v] = todo[v]
          /\ saved \subseteq saved'
      BY <1>0, <2>2, OthersRest, SavedGrows
    <3>2. InHand(v) /\ Passed(v)
      BY <1>0 DEF HandInv, PassedInv
    <3>3. InHand(v)'
      BY <3>1, <3>2 DEF InHand, Chunk
    <3>4. Passed(v)'
      BY <3>1, <3>2 DEF Passed, Chunk, At
    <3> QED BY <2>2, <3>3, <3>4, OthersCover
  <2> QED BY <2>1, <2>2
<1>3. HandInv'
  BY <1>2 DEF HandInv
<1>4. PassedInv'
  BY <1>0, <1>2, MovesProgress, MovesDue DEF PassedInv
<1>5. CoverInv'
  BY <1>2, MovesKeep DEF CoverInv
<1> QED BY <1>1, <1>3, <1>4, <1>5 DEF RescanInv

(* The operator keeps it: a push while a worker merges is on record.        *)
LEMMA RequestInv ==
  ASSUME RescanInv, NEW r \in Requests, Request(r)
  PROVE  RescanInv'
<1>0. RescanTypeOK /\ HandInv /\ PassedInv /\ LockInv /\ CoverInv /\ r \in Ranges
  BY RescanAssumption DEF RescanInv
<1>1. /\ queue' = queue \cup {r} /\ calm' = (calm /\ \A w \in Worker : ~At(w, "clear"))
      /\ owed' = owed \cup Numbers(r) /\ due' = due \cup {n \in Numbers(r) : ~Behind(n)}
      /\ requests' = requests + 1
      /\ UNCHANGED <<locks, progress, pc, job, chunks, num, todo, redis, saved, troubles>>
  BY DEF Request, Pushed, workers
<1>2. Numbers(r) \subseteq Num
  BY <1>0, RangeFacts DEF Numbers, Num
<1>3. RescanTypeOK'
  <2>1. calm' \in BOOLEAN
    BY <1>1
  <2> QED BY <1>0, <1>1, <1>2, <2>1 DEF RescanTypeOK
<1>4. HandInv'
  BY <1>0, <1>1 DEF HandInv, InHand, Chunk
<1>5. PassedInv'
  <2>1. \A n : Behind(n)' <=> Behind(n)
    BY <1>1 DEF Behind, PassedBy, Chunk, At
  <2>2. DueAhead'
    BY <1>0, <1>1, <2>1 DEF PassedInv, DueAhead
  <2> QED BY <1>0, <1>1, <2>2 DEF PassedInv, ProgressHonest, Passed, Chunk, At
<1>6. LockInv'
  BY <1>0, <1>1 DEF LockInv, ChunkExclusive, Holds, Chunk
<1>7. \A w \in Worker : Covers(w)'
  BY <1>0, <1>1 DEF CoverInv, Covers, At
<1>8. NothingLost'
  <2> SUFFICES ASSUME calm', NEW n \in due'
               PROVE  n \in NumbersOf(queue') \/ \E w \in Worker : n \in Held(w)'
    BY DEF NothingLost
  <2>1. n \in NumbersOf(queue') <=> n \in NumbersOf(queue) \/ n \in Numbers(r)
    BY <1>1, QueueNumbers
  <2>2. \A w \in Worker : Held(w)' = Held(w)
    BY <1>1 DEF Held, At, Chunk
  <2>3. CASE n \in due
    <3>1. calm
      BY <1>1
    <3>2. n \in NumbersOf(queue) \/ \E w \in Worker : n \in Held(w)
      BY <1>0, <2>3, <3>1 DEF CoverInv, NothingLost
    <3> QED BY <2>1, <2>2, <3>2
  <2> QED BY <1>1, <2>1, <2>3
<1> QED BY <1>3, <1>4, <1>5, <1>6, <1>7, <1>8 DEF RescanInv, CoverInv

(* A TTL that ends keeps it.                                                *)
LEMMA ExpiryInv ==
  ASSUME RescanInv, NEW r \in Ranges, LockExpires(r) \/ ProgressExpires(r)
  PROVE  RescanInv'
<1>0. RescanTypeOK /\ HandInv /\ PassedInv /\ LockInv /\ CoverInv
  BY DEF RescanInv
<1>1. /\ UNCHANGED <<queue, pc, job, chunks, num, todo, redis, owed, saved, due>>
      /\ calm' => calm
  BY DEF LockExpires, ProgressExpires, workers, history
<1>2. locks' \subseteq locks /\ calm' \in BOOLEAN /\ requests' \in Nat /\ troubles' \in Nat
  <2>1. \A t : Happens(t) => requests' \in Nat /\ troubles' \in Nat
    BY <1>0 DEF Happens, RescanTypeOK
  <2>2. UNCHANGED counts => requests' \in Nat /\ troubles' \in Nat
    BY <1>0 DEF counts, RescanTypeOK
  <2>4. calm' \in BOOLEAN
    <3>1. calm' = calm \/ calm' = FALSE
      BY Zenon DEF LockExpires, ProgressExpires
    <3> QED BY <1>0, <3>1, Zenon DEF RescanTypeOK
  <2>5. requests' \in Nat /\ troubles' \in Nat
    BY <2>1, <2>2, Zenon DEF LockExpires, ProgressExpires
  <2>6. locks' \subseteq locks
    BY DEF LockExpires, ProgressExpires
  <2> QED BY <2>4, <2>5, <2>6
<1>3. /\ progress' \in [Ranges -> 0 .. MaxNum + 1]
      /\ \A q \in Ranges : progress'[q] = progress[q] \/ progress'[q] = q.from
  <2>1. progress \in [Ranges -> 0 .. MaxNum + 1] /\ r.from \in 0 .. MaxNum + 1
    <3>1. r.from \in Nat /\ r.to \in Nat /\ r.from <= r.to /\ r.to <= MaxNum /\ MaxNum \in Nat
      BY RangeFacts
    <3>2. r.from \in 0 .. MaxNum + 1
      BY <3>1
    <3> QED BY <1>0, <3>2 DEF RescanTypeOK
  <2>2. progress' = progress \/ progress' = [progress EXCEPT ![r] = r.from]
    BY DEF LockExpires, ProgressExpires
  <2> QED BY <2>1, <2>2
<1>4. RescanTypeOK'
  BY <1>0, <1>1, <1>2, <1>3 DEF RescanTypeOK
<1>5. HandInv'
  BY <1>0, <1>1 DEF HandInv, InHand, Chunk
<1>6. PassedInv'
  <2>1. \A w \in Worker : Passed(w)'
    BY <1>0, <1>1 DEF PassedInv, Passed, Chunk, At
  <2>2. \A q \in Ranges : q.from \in Nat
    BY RangeFacts
  <2>3. \A n \in Num : n \in Nat
    BY RangeFacts DEF Num
  <2>4. ProgressHonest' /\ \A q \in Ranges : q.from <= progress'[q]
    BY <1>0, <1>1, <1>3, <2>2, <2>3 DEF PassedInv, ProgressHonest
  <2>5. DueAhead'
    <3> SUFFICES ASSUME NEW n \in due
                 PROVE  /\ \A q \in Ranges : n \in Numbers(q) => ~(n < progress'[q])
                        /\ \A w \in Worker : n \notin PassedBy(w)'
      BY <1>1 DEF DueAhead, Behind
    <3>1. /\ n \in Nat /\ \A q \in Ranges : n \in Numbers(q) => ~(n < progress[q])
          /\ \A w \in Worker : n \notin PassedBy(w)
      BY <1>0, <2>3 DEF RescanTypeOK, PassedInv, DueAhead, Behind
    <3>2. \A w \in Worker : PassedBy(w)' = PassedBy(w)
      BY <1>1 DEF PassedBy, Chunk, At
    <3>3. \A q \in Ranges : n \in Numbers(q) => ~(n < q.from)
      BY <2>2, <3>1, RangeFacts DEF Numbers
    <3> QED BY <1>3, <3>1, <3>2, <3>3
  <2> QED BY <2>1, <2>4, <2>5 DEF PassedInv
<1>7. LockInv'
  <2> SUFFICES ASSUME calm' PROVE LockInv'
    BY DEF LockInv, ChunkExclusive
  <2>1. \A w \in Worker : \A q \in Ranges : Holds(w, q)' <=> Holds(w, q)
    BY <1>1 DEF Holds, Chunk
  <2>2. locks' = locks
    <3>1. CASE LockExpires(r)
      <4>1. r \in locks /\ ~\E w \in Worker : Holds(w, r)
        BY <3>1 DEF LockExpires
      <4> QED BY <1>0, <1>1, <4>1 DEF LockInv
    <3>2. CASE ProgressExpires(r)
      BY <3>2 DEF ProgressExpires
    <3> QED BY <3>1, <3>2
  <2> QED BY <1>0, <1>1, <2>1, <2>2 DEF LockInv, ChunkExclusive
<1>8. CoverInv'
  <2>1. \A w \in Worker : Held(w)' = Held(w) /\ Covers(w)'
    BY <1>0, <1>1 DEF CoverInv, Covers, Held, At, Chunk
  <2> QED BY <1>0, <1>1, <2>1 DEF CoverInv, NothingLost
<1> QED BY <1>4, <1>5, <1>6, <1>7, <1>8 DEF RescanInv

(* Every step keeps it.                                                     *)
LEMMA RescanInvNext == RescanInv /\ [Next]_vars => RescanInv'
<1> SUFFICES ASSUME RescanInv, [Next]_vars PROVE RescanInv'
  OBVIOUS
<1>1. CASE \E r \in Requests : Request(r)
  BY <1>1, RequestInv
<1>2. CASE \E w \in Worker : WorkerStep(w) \/ WorkerFault(w) \/ Exit(w) \/ Restart(w)
  BY <1>2, MovesInv DEF Moves
<1>3. CASE \E r \in Ranges : LockExpires(r) \/ ProgressExpires(r)
  BY <1>3, ExpiryInv
<1>4. CASE UNCHANGED vars
  BY <1>4 DEF vars, redisKeys, workers, history, counts, RescanInv, RescanTypeOK, HandInv, InHand,
     PassedInv, ProgressHonest, Passed, DueAhead, Behind, PassedBy, LockInv, ChunkExclusive, Holds,
     CoverInv, Covers, NothingLost, Held, At, Chunk
<1> QED BY <1>1, <1>2, <1>3, <1>4 DEF Next

(* The inductive invariant of the rescan workers, from which the properties *)
(* below follow: what a worker has in hand, what it has passed, which       *)
(* chunks are locked and what is still to be done.                          *)
THEOREM RescanInvariance == Spec => []RescanInv
<1>1. Init => RescanInv
  BY RescanInvInit
<1>2. RescanInv /\ [Next]_vars => RescanInv'
  BY RescanInvNext
<1> QED BY <1>1, <1>2, PTL DEF Spec

(* The queue, the keys and the workers keep their types: every range that   *)
(* is pushed, split, merged or left over is a range of block numbers, and a *)
(* worker never reaches for a chunk or a range that it has not.             *)
THEOREM RescanTypesHold == Spec => []RescanTypeOK
<1>1. RescanInv => RescanTypeOK
  BY DEF RescanInv
<1> QED BY <1>1, RescanInvariance, PTL

(* MergeRanges and Range.Split are sound on every queue that occurs.        *)
THEOREM RangesAreSound == Spec => []RangesSound
<1>1. RescanInv => RangesSound
  BY RangesSoundOfRanges DEF RescanInv, RescanTypeOK
<1> QED BY <1>1, RescanInvariance, PTL

(* A progress key never promises more than was stored, whatever fails.      *)
THEOREM ProgressIsHonest == Spec => []ProgressHonest
<1>1. RescanInv => ProgressHonest
  BY DEF RescanInv, PassedInv
<1> QED BY <1>1, RescanInvariance, PTL

(* No two workers are in the same chunk unless a lock was lost.             *)
THEOREM ChunksAreExclusive == Spec => []ChunkExclusive
<1>1. RescanInv => ChunkExclusive
  BY DEF RescanInv, LockInv
<1> QED BY <1>1, RescanInvariance, PTL

(* A number asked for, a second time no less than the first, and not stored *)
(* since is in the queue or with a worker, unless a worker had just passed  *)
(* it when it was asked for or one of the recorded disturbances came in     *)
(* between.                                                                 *)
THEOREM NothingIsLost == Spec => []NothingLost
<1>1. RescanInv => NothingLost
  BY DEF RescanInv, CoverInv
<1> QED BY <1>1, RescanInvariance, PTL

=============================================================================
