------------------------------- MODULE Rescan -------------------------------
(***************************************************************************)
(* The rescan workers of one chain (internal/indexing/rescan) and the      *)
(* Redis keys they share (internal/infra/redis/client.go).  An operator    *)
(* pushes ranges of block numbers; the workers, one per process, take them *)
(* off the queue, lock them chunk by chunk and store their blocks again.   *)
(* A step is one Redis command or one block.  pc names the next one.       *)
(***************************************************************************)
EXTENDS Naturals, Sequences, FiniteSets, SequencesExt

CONSTANTS
  Worker,       \* the worker of each process
  MaxNum,       \* the highest block number
  ChunkSize,    \* WorkerConfig.ChunkSize (100)
  Requests,     \* the ranges the operator may push
  MaxRequests,  \* bound: pushes by the operator
  Troubles,     \* what may go wrong: some of Trouble
  MaxTroubles   \* bound: how often

Num == 0 .. MaxNum
Ranges == {r \in [from : Num, to : Num] : r.from <= r.to}
NoRange == [from |-> 0, to |-> 0]

(* A block that cannot be fetched or stored, a Redis command that returns   *)
(* an error, a key whose TTL ends while a worker needs it, a process that   *)
(* stops or dies.                                                           *)
Trouble == {"block", "redis", "expiry", "stop"}

ASSUME RescanAssumption ==
  /\ MaxNum \in Nat /\ ChunkSize \in Nat \ {0}
  /\ Requests \subseteq Ranges
  /\ MaxRequests \in Nat
  /\ Troubles \subseteq Trouble /\ MaxTroubles \in Nat

-----------------------------------------------------------------------------
(* Ranges (ranges.go). *)

Numbers(r) == r.from .. r.to
NumbersOf(S) == UNION {Numbers(r) : r \in S}

(* Mutant: the last number of the range is left out.                        *)
SplitGap(r) ==
  [i \in 1 .. (r.to - r.from) \div ChunkSize + 1 |->
     LET first == r.from + (i - 1) * ChunkSize
         last == first + ChunkSize - 1
     IN [from |-> first, to |-> IF last < r.to THEN last ELSE r.to - 1]]

(* Range.Split *)
Split(r) ==
  [i \in 1 .. (r.to - r.from) \div ChunkSize + 1 |->
     LET first == r.from + (i - 1) * ChunkSize
         last == first + ChunkSize - 1
     IN [from |-> first, to |-> IF last < r.to THEN last ELSE r.to]]

(* Range.Overlaps: they overlap or are adjacent.                            *)
Overlaps(r, q) == r.from <= q.to + 1 /\ q.from <= r.to + 1

(* Range.Merge *)
Hull(r, q) ==
  [from |-> IF q.from < r.from THEN q.from ELSE r.from,
   to |-> IF q.to > r.to THEN q.to ELSE r.to]

Absorb(merged, r) ==
  IF merged # <<>> /\ Overlaps(Last(merged), r)
  THEN Append(Front(merged), Hull(Last(merged), r))
  ELSE Append(merged, r)

LatestStart(S) == CHOOSE r \in S : \A q \in S : q.from <= r.from

(* Mutant: two ranges that merge leave only the later one.                  *)
MergeRangesKeepsLast(S) ==
  MapThenFoldSet(LAMBDA r, merged :
                   IF merged # <<>> /\ Overlaps(Last(merged), r)
                   THEN Append(Front(merged), [Last(merged) EXCEPT !.to = r.to])
                   ELSE Append(merged, r),
                 <<>>, LAMBDA r : r, LatestStart, S)

(* MergeRanges: the ranges in the order of their starts, each absorbed by   *)
(* the last merged one or appended.                                         *)
MergeRanges(S) ==
  MapThenFoldSet(LAMBDA r, merged : Absorb(merged, r),
                 <<>>, LAMBDA r : r, LatestStart, S)

-----------------------------------------------------------------------------
VARIABLES
  queue,      \* the sorted set missing_blocks:<chain>
  locks,      \* chunks with a processing:<chain>:<from>-<to> key
  progress,   \* progress[r]: processed:<chain>:<r>, r.from where no key is
  pc,         \* pc[w]: the next command of worker w
  job,        \* job[w]: the range it popped
  chunks,     \* chunks[w]: the chunks of it that remain, the current one first
  num,        \* num[w]: blockNum
  todo,       \* todo[w]: ranges it has yet to push
  redis,      \* redis[w]: whether its process still has its Redis client
  owed,       \* history: numbers asked for and not stored since
  saved,      \* history: numbers that some worker has stored
  due,        \* history: owed numbers that nobody had passed when asked for
  calm,       \* history: no disturbance that may cost a range so far
  requests,   \* pushes by the operator so far
  troubles    \* troubles so far

redisKeys == <<queue, locks, progress>>
workers == <<pc, job, chunks, num, todo, redis>>
history == <<owed, saved, due>>
counts == <<requests, troubles>>
vars == <<redisKeys, workers, history, calm, counts>>

PC == {"idle", "clear", "refill", "pop", "take", "lock", "resume", "block",
       "progress", "remain", "unlock", "forget", "requeue", "down"}

Happens(t) ==
  /\ t \in Troubles /\ troubles < MaxTroubles
  /\ troubles' = troubles + 1
  /\ UNCHANGED requests

Init ==
  /\ queue = {} /\ locks = {} /\ progress = [r \in Ranges |-> r.from]
  /\ pc = [w \in Worker |-> "idle"]
  /\ job = [w \in Worker |-> NoRange]
  /\ chunks = [w \in Worker |-> <<>>]
  /\ num = [w \in Worker |-> 0]
  /\ todo = [w \in Worker |-> <<>>]
  /\ redis = [w \in Worker |-> TRUE]
  /\ owed = {} /\ saved = {} /\ due = {} /\ calm = TRUE
  /\ requests = 0 /\ troubles = 0

At(w, l) == pc[w] = l
Goto(w, l) == pc' = [pc EXCEPT ![w] = l]
Chunk(w) == Head(chunks[w])

(* The loop of Run starts over.                                             *)
NextRound(w) ==
  /\ Goto(w, "idle")
  /\ job' = [job EXCEPT ![w] = NoRange]
  /\ chunks' = [chunks EXCEPT ![w] = <<>>]
  /\ num' = [num EXCEPT ![w] = 0]
  /\ todo' = [todo EXCEPT ![w] = <<>>]

(* A range that is pushed after another worker read the queue and before it *)
(* clears it goes down with the queue.                                      *)
Pushed(r) ==
  /\ queue' = queue \cup {r}
  /\ calm' = (calm /\ \A w \in Worker : ~At(w, "clear"))

(* The numbers of its chunk that worker w has passed and will not return to *)
(* for this range.                                                          *)
PassedBy(w) ==
  CASE At(w, "block") -> {n \in Numbers(Chunk(w)) : n < num[w]}
    [] At(w, "progress") -> {n \in Numbers(Chunk(w)) : n <= num[w]}
    [] At(w, "unlock") /\ todo[w] = <<>> -> Numbers(Chunk(w))
    [] OTHER -> {}

(* A number that a worker has passed or a progress key says is done: until  *)
(* the lock or the key goes, a request for it is dropped.                   *)
Behind(n) ==
  \/ \E r \in Ranges : n \in Numbers(r) /\ n < progress[r]
  \/ \E w \in Worker : n \in PassedBy(w)

-----------------------------------------------------------------------------
(* The operator: redis-cli ZADD (docs/troubleshooting.md). *)
Request(r) ==
  /\ requests < MaxRequests /\ requests' = requests + 1
  /\ Pushed(r)
  /\ owed' = owed \cup Numbers(r)
  /\ due' = due \cup {n \in Numbers(r) : ~Behind(n)}
  /\ UNCHANGED <<locks, progress, workers, saved, troubles>>

-----------------------------------------------------------------------------
(* mergeQueueRanges: read, clear, push again. *)

ReadQueue(w) ==
  /\ At(w, "idle") /\ redis[w]
  /\ LET merged == MergeRanges(queue) IN
     IF Len(merged) < Cardinality(queue)
     THEN Goto(w, "clear") /\ todo' = [todo EXCEPT ![w] = merged]
     ELSE Goto(w, "pop") /\ UNCHANGED todo
  /\ UNCHANGED <<redisKeys, job, chunks, num, redis, history, calm, counts>>

ClearQueue(w) ==
  /\ At(w, "clear") /\ redis[w]
  /\ queue' = {}
  /\ Goto(w, "refill")
  /\ UNCHANGED <<locks, progress, job, chunks, num, todo, redis, history, calm, counts>>

Refill(w) ==
  /\ At(w, "refill") /\ redis[w]
  /\ Pushed(Head(todo[w]))
  /\ todo' = [todo EXCEPT ![w] = Tail(@)]
  /\ Goto(w, IF Len(todo[w]) = 1 THEN "pop" ELSE "refill")
  /\ UNCHANGED <<locks, progress, job, chunks, num, redis, history, counts>>

-----------------------------------------------------------------------------
(* PopRange: ZRANGE, then ZREM. *)

(* The queue holds ranges that parse.  A member that does not, pushed by    *)
(* hand, would make PopRange return before ZREM and stay the first one.     *)
IsFirst(r) == r \in queue /\ \A q \in queue : r.from <= q.from

ReadFirst(w, r) ==
  /\ At(w, "pop") /\ redis[w] /\ IsFirst(r)
  /\ job' = [job EXCEPT ![w] = r]
  /\ Goto(w, "take")
  /\ UNCHANGED <<redisKeys, chunks, num, todo, redis, history, calm, counts>>

QueueEmpty(w) ==
  /\ At(w, "pop") /\ redis[w] /\ queue = {}
  /\ NextRound(w)
  /\ UNCHANGED <<redisKeys, redis, history, calm, counts>>

(* ZREM, whether or not the member is still there; then processRange splits *)
(* the range.                                                               *)
TakeFirst(w) ==
  /\ At(w, "take") /\ redis[w]
  /\ queue' = queue \ {job[w]}
  /\ chunks' = [chunks EXCEPT ![w] = Split(job[w])]
  /\ Goto(w, "lock")
  /\ UNCHANGED <<locks, progress, job, num, todo, redis, history, calm, counts>>

-----------------------------------------------------------------------------
(* processRange, processChunk. *)

ChunkDone(w) ==
  IF Len(chunks[w]) = 1
  THEN NextRound(w)
  ELSE /\ chunks' = [chunks EXCEPT ![w] = Tail(@)]
       /\ Goto(w, "lock")
       /\ UNCHANGED <<job, num, todo>>

(* Mutant: the lock is taken whether or not another worker holds it.        *)
AcquireLockAlways(w) ==
  /\ At(w, "lock") /\ redis[w]
  /\ locks' = locks \cup {Chunk(w)}
  /\ Goto(w, "resume")
  /\ UNCHANGED <<queue, progress, job, chunks, num, todo, redis, history, calm, counts>>

AcquireLock(w) ==
  /\ At(w, "lock") /\ redis[w] /\ Chunk(w) \notin locks
  /\ locks' = locks \cup {Chunk(w)}
  /\ Goto(w, "resume")
  /\ UNCHANGED <<queue, progress, job, chunks, num, todo, redis, history, calm, counts>>

(* SETNX finds the key: the chunk is left to whoever set it.                *)
ChunkLocked(w) ==
  /\ At(w, "lock") /\ redis[w] /\ Chunk(w) \in locks
  /\ ChunkDone(w)
  /\ UNCHANGED <<redisKeys, redis, history, calm, counts>>

(* GetProgress.  The key may be one that another worker left behind: its    *)
(* lock goes before its progress.                                           *)
GetProgress(w) ==
  /\ At(w, "resume") /\ redis[w]
  /\ num' = [num EXCEPT ![w] = progress[Chunk(w)]]
  /\ Goto(w, "block")
  /\ UNCHANGED <<redisKeys, job, chunks, todo, redis, history, calm, counts>>

(* processBlock: fetch, save the block, save its transactions.              *)
ProcessBlock(w) ==
  /\ At(w, "block") /\ num[w] <= Chunk(w).to
  /\ saved' = saved \cup {num[w]}
  /\ owed' = owed \ {num[w]}
  /\ due' = due \ {num[w]}
  /\ Goto(w, "progress")
  /\ UNCHANGED <<redisKeys, job, chunks, num, todo, redis, calm, counts>>

(* Mutant: the progress is one block ahead.                                 *)
SetProgressAhead(w) ==
  /\ At(w, "progress") /\ redis[w]
  /\ progress' = [progress EXCEPT ![Chunk(w)] = num[w] + 2]
  /\ num' = [num EXCEPT ![w] = @ + 1]
  /\ Goto(w, "block")
  /\ UNCHANGED <<queue, locks, job, chunks, todo, redis, history, calm, counts>>

(* SetProgress and, at every tenth number, RefreshLock, which extends the   *)
(* TTL of the key if there is one.                                          *)
SetProgress(w) ==
  /\ At(w, "progress") /\ redis[w]
  /\ progress' = [progress EXCEPT ![Chunk(w)] = num[w] + 1]
  /\ num' = [num EXCEPT ![w] = @ + 1]
  /\ Goto(w, "block")
  /\ UNCHANGED <<queue, locks, job, chunks, todo, redis, history, calm, counts>>

FinishChunk(w) ==
  /\ At(w, "block") /\ num[w] > Chunk(w).to
  /\ Goto(w, "unlock")
  /\ UNCHANGED <<redisKeys, job, chunks, num, todo, redis, history, calm, counts>>

(* What processRange and Run push after an error, in that order.            *)
RequeueList(w) == Append(Reverse(chunks[w]), job[w])

(* processBlock fails.                                                      *)
BlockFails(w) ==
  /\ At(w, "block") /\ num[w] <= Chunk(w).to
  /\ Happens("block")
  /\ todo' = [todo EXCEPT ![w] = RequeueList(w)]
  /\ Goto(w, "remain")
  /\ UNCHANGED <<redisKeys, job, chunks, num, redis, history, calm>>

PushRemaining(w) ==
  /\ At(w, "remain") /\ redis[w]
  /\ Pushed([from |-> num[w], to |-> Chunk(w).to])
  /\ Goto(w, "unlock")
  /\ UNCHANGED <<locks, progress, job, chunks, num, todo, redis, history, counts>>

(* ReleaseLock deletes the key, whoever set it.                             *)
ReleaseLock(w) ==
  /\ At(w, "unlock") /\ redis[w]
  /\ locks' = locks \ {Chunk(w)}
  /\ Goto(w, "forget")
  /\ UNCHANGED <<queue, progress, job, chunks, num, todo, redis, history, calm, counts>>

ChunkReturns(w) ==
  IF todo[w] = <<>>
  THEN ChunkDone(w)
  ELSE Goto(w, "requeue") /\ UNCHANGED <<job, chunks, num, todo>>

ClearProgress(w) ==
  /\ At(w, "forget") /\ redis[w]
  /\ progress' = [progress EXCEPT ![Chunk(w)] = Chunk(w).from]
  /\ ChunkReturns(w)
  /\ UNCHANGED <<queue, locks, redis, history, calm, counts>>

PushedOne(w) ==
  IF Len(todo[w]) = 1
  THEN NextRound(w)
  ELSE todo' = [todo EXCEPT ![w] = Tail(@)] /\ UNCHANGED <<pc, job, chunks, num>>

(* Mutant: the range is not pushed again.                                   *)
RequeueNothing(w) ==
  /\ At(w, "requeue") /\ redis[w]
  /\ PushedOne(w)
  /\ UNCHANGED <<redisKeys, redis, history, calm, counts>>

Requeue(w) ==
  /\ At(w, "requeue") /\ redis[w]
  /\ Pushed(Head(todo[w]))
  /\ PushedOne(w)
  /\ UNCHANGED <<locks, progress, redis, history, counts>>

-----------------------------------------------------------------------------
(* A Redis command returns an error, because the client is closed or the    *)
(* command is lost.  A lost command may have taken effect.                  *)

RedisError(w) ==
  IF redis[w]
  THEN Happens("redis") /\ calm' = FALSE
  ELSE UNCHANGED <<counts, calm>>

MaybeQueue(w, q) == queue' \in {queue} \cup {x \in {q} : redis[w]}

(* mergeQueueRanges gives up; the loop goes on to PopRange.                 *)
MergeFails(w) ==
  /\ pc[w] \in {"idle", "clear", "refill"}
  /\ RedisError(w)
  /\ CASE At(w, "idle") -> UNCHANGED queue
       [] At(w, "clear") -> MaybeQueue(w, {})
       [] At(w, "refill") -> MaybeQueue(w, queue \cup {Head(todo[w])})
  /\ todo' = [todo EXCEPT ![w] = <<>>]
  /\ Goto(w, "pop")
  /\ UNCHANGED <<locks, progress, job, chunks, num, redis, history>>

(* PopRange fails.  ZREM may have removed the member all the same.          *)
PopFails(w) ==
  /\ pc[w] \in {"pop", "take"}
  /\ RedisError(w)
  /\ IF At(w, "take") THEN MaybeQueue(w, queue \ {job[w]}) ELSE UNCHANGED queue
  /\ NextRound(w)
  /\ UNCHANGED <<locks, progress, redis, history>>

(* processChunk fails before its deferred calls are set up.  SETNX may have *)
(* set the key all the same.                                                *)
LockFails(w) ==
  /\ At(w, "lock")
  /\ RedisError(w)
  /\ locks' \in {locks} \cup {x \in {locks \cup {Chunk(w)}} : redis[w]}
  /\ todo' = [todo EXCEPT ![w] = RequeueList(w)]
  /\ Goto(w, "requeue")
  /\ UNCHANGED <<queue, progress, job, chunks, num, redis, history>>

GetProgressFails(w) ==
  /\ At(w, "resume")
  /\ RedisError(w)
  /\ todo' = [todo EXCEPT ![w] = RequeueList(w)]
  /\ Goto(w, "unlock")
  /\ UNCHANGED <<redisKeys, job, chunks, num, redis, history>>

(* The error is logged and the worker goes on as if there were none.  Where *)
(* the command took effect all the same, this is the step without an error. *)
IgnoredFailure(w) ==
  /\ RedisError(w)
  /\ \/ /\ At(w, "progress") /\ Goto(w, "block")
        /\ num' = [num EXCEPT ![w] = @ + 1] /\ UNCHANGED <<job, chunks, todo>>
     \/ At(w, "remain") /\ Goto(w, "unlock") /\ UNCHANGED <<job, chunks, num, todo>>
     \/ At(w, "unlock") /\ Goto(w, "forget") /\ UNCHANGED <<job, chunks, num, todo>>
     \/ At(w, "forget") /\ ChunkReturns(w)
     \/ At(w, "requeue") /\ PushedOne(w)
  /\ UNCHANGED <<redisKeys, redis, history>>

-----------------------------------------------------------------------------
(* TTLs and the life of the process. *)

Holds(w, r) ==
  pc[w] \in {"resume", "block", "progress", "remain", "unlock"} /\ Chunk(w) = r

(* The holder is slow, or there is none any more.                           *)
LockExpires(r) ==
  /\ r \in locks
  /\ IF \E w \in Worker : Holds(w, r)
     THEN Happens("expiry") /\ calm' = FALSE
     ELSE UNCHANGED <<counts, calm>>
  /\ locks' = locks \ {r}
  /\ UNCHANGED <<queue, progress, workers, history>>

ProgressExpires(r) ==
  /\ progress[r] # r.from
  /\ IF \E w \in Worker : Holds(w, r) THEN Happens("expiry") ELSE UNCHANGED counts
  /\ progress' = [progress EXCEPT ![r] = r.from]
  /\ UNCHANGED <<queue, locks, workers, history, calm>>

(* Watcher.Stop closes the Redis client and then waits for the workers,     *)
(* whose context ends only after Stop has returned.                         *)
Stop(w) ==
  /\ ~At(w, "down") /\ redis[w]
  /\ Happens("stop") /\ calm' = FALSE
  /\ redis' = [redis EXCEPT ![w] = FALSE]
  /\ UNCHANGED <<redisKeys, pc, job, chunks, num, todo, history>>

(* Stop runs into its deadline and the process ends, or it crashes.         *)
Exit(w) ==
  /\ ~At(w, "down")
  /\ IF redis[w]
     THEN Happens("stop") /\ calm' = FALSE
     ELSE UNCHANGED <<counts, calm>>
  /\ pc' = [pc EXCEPT ![w] = "down"]
  /\ job' = [job EXCEPT ![w] = NoRange]
  /\ chunks' = [chunks EXCEPT ![w] = <<>>]
  /\ num' = [num EXCEPT ![w] = 0]
  /\ todo' = [todo EXCEPT ![w] = <<>>]
  /\ redis' = [redis EXCEPT ![w] = FALSE]
  /\ UNCHANGED <<redisKeys, history>>

Restart(w) ==
  /\ At(w, "down")
  /\ Goto(w, "idle")
  /\ redis' = [redis EXCEPT ![w] = TRUE]
  /\ UNCHANGED <<redisKeys, job, chunks, num, todo, history, calm, counts>>

-----------------------------------------------------------------------------
(* What a worker does when no call fails. *)
WorkerStep(w) ==
  \/ ReadQueue(w) \/ ClearQueue(w) \/ Refill(w)
  \/ (\E r \in Ranges : ReadFirst(w, r)) \/ QueueEmpty(w) \/ TakeFirst(w)
  \/ AcquireLock(w) \/ ChunkLocked(w) \/ GetProgress(w)
  \/ ProcessBlock(w) \/ SetProgress(w) \/ FinishChunk(w)
  \/ PushRemaining(w) \/ ReleaseLock(w) \/ ClearProgress(w) \/ Requeue(w)

WorkerFault(w) ==
  \/ BlockFails(w) \/ MergeFails(w) \/ PopFails(w) \/ LockFails(w)
  \/ GetProgressFails(w) \/ IgnoredFailure(w)
  \/ Stop(w)

Next ==
  \/ \E r \in Requests : Request(r)
  \/ \E w \in Worker : WorkerStep(w) \/ WorkerFault(w) \/ Exit(w) \/ Restart(w)
  \/ \E r \in Ranges : LockExpires(r) \/ ProgressExpires(r)

(* Workers run, processes end once they are told to and are started again,  *)
(* and a key without a holder reaches the end of its TTL.                   *)
Fairness ==
  /\ \A w \in Worker : WF_vars(WorkerStep(w))
  /\ WF_vars(\E w \in Worker : (Exit(w) /\ ~redis[w]) \/ Restart(w))
  /\ WF_vars(\E r \in Ranges : LockExpires(r) /\ UNCHANGED counts)

Spec == Init /\ [][Next]_vars /\ Fairness

-----------------------------------------------------------------------------
(* Properties *)

(* Every variable keeps its type.                                           *)
RescanTypeOK ==
  /\ queue \subseteq Ranges /\ locks \subseteq Ranges
  /\ progress \in [Ranges -> 0 .. MaxNum + 1]
  /\ pc \in [Worker -> PC] /\ job \in [Worker -> Ranges]
  /\ chunks \in [Worker -> Seq(Ranges)] /\ todo \in [Worker -> Seq(Ranges)]
  /\ num \in [Worker -> 0 .. MaxNum + 1]
  /\ redis \in [Worker -> BOOLEAN] /\ calm \in BOOLEAN
  /\ owed \subseteq Num /\ saved \subseteq Num /\ due \subseteq Num
  /\ requests \in Nat /\ troubles \in Nat

(* A progress key never promises more than was done: every number below it  *)
(* has been stored, whichever worker wrote the key, lost its lock, died or  *)
(* took over.  GetProgress relies on it when it skips those numbers.        *)
ProgressHonest ==
  \A r \in Ranges : \A n \in Num : r.from <= n /\ n < progress[r] => n \in saved

(* The numbers that worker w will still store or push again.                *)
Held(w) ==
  NumbersOf(ToSet(todo[w])) \cup
    CASE At(w, "take") -> Numbers(job[w])
      [] pc[w] \in {"lock", "resume"} -> NumbersOf(ToSet(chunks[w]))
      [] pc[w] \in {"block", "progress"} ->
           (num[w] .. Chunk(w).to) \cup NumbersOf(ToSet(Tail(chunks[w])))
      [] pc[w] \in {"unlock", "forget"} -> NumbersOf(ToSet(Tail(chunks[w])))
      [] OTHER -> {}

(* A number that was asked for, for the first time or again, and not stored *)
(* since is in the queue or in the hands of a worker: merging, splitting,   *)
(* two workers that pop the same range, a chunk that is locked and a block  *)
(* that fails do not lose it.  Two things are left out.  A request for what *)
(* a worker had just passed is ServedAgain's.  What may lose a range is on  *)
(* record in calm: a failing Redis command, a lock that expires under its   *)
(* holder, a process that ends, and a push between the read and the clear   *)
(* of another worker's merge, which deletes it unread.                      *)
NothingLost ==
  calm => due \subseteq NumbersOf(queue) \cup UNION {Held(w) : w \in Worker}

(* MergeRanges keeps the numbers of the queue and leaves ranges that are    *)
(* apart and in order; the chunks of a queued range are its numbers, each   *)
(* once, in chunks of at most ChunkSize.                                    *)
RangesSound ==
  LET merged == MergeRanges(queue) IN
  /\ NumbersOf(ToSet(merged)) = NumbersOf(queue)
  /\ \A i, j \in DOMAIN merged : i < j => merged[i].to + 1 < merged[j].from
  /\ \A r \in queue :
       /\ NumbersOf(ToSet(Split(r))) = Numbers(r)
       /\ \A i, j \in DOMAIN Split(r) : i < j => Split(r)[i].to < Split(r)[j].from
       /\ \A i \in DOMAIN Split(r) : Cardinality(Numbers(Split(r)[i])) <= ChunkSize

(* No two workers are in the same chunk unless a lock was lost.             *)
ChunkExclusive ==
  calm => \A r \in Ranges : \A v, w \in Worker : Holds(v, r) /\ Holds(w, r) => v = w

(* In the end every such number is stored after it was asked for, a second  *)
(* request no less than the first, unless one of the disturbances in calm   *)
(* came in between: failing blocks are retried until they succeed, and      *)
(* nobody waits for a lock.                                                 *)
Served == <>[](calm => due = {})

-----------------------------------------------------------------------------
(* The inductive invariant: why the properties hold. *)

(* A worker has a chunk in hand while it works on one, with a number of it, *)
(* and ranges to push where it pushes, and only there.                      *)
InHand(w) ==
  /\ pc[w] \in {"lock", "resume", "block", "progress", "remain", "unlock", "forget"}
       => chunks[w] # <<>>
  /\ pc[w] \in {"clear", "refill", "remain", "requeue"} => todo[w] # <<>>
  /\ pc[w] \in {"idle", "pop", "take", "lock", "resume", "block", "progress", "down"}
       => todo[w] = <<>>
  /\ pc[w] \in {"block", "progress", "remain"} => Chunk(w).from <= num[w]
  /\ pc[w] \in {"progress", "remain"} => num[w] <= Chunk(w).to

HandInv == \A w \in Worker : InHand(w)

(* A worker has stored, or found stored, what it has passed, and a chunk    *)
(* that it leaves without an error altogether.  Nobody passes a number that *)
(* is due.                                                                  *)
Passed(w) ==
  /\ pc[w] \in {"block", "progress"} =>
       \A n \in Num : Chunk(w).from <= n /\ n < num[w] => n \in saved
  /\ At(w, "progress") => num[w] \in saved
  /\ pc[w] \in {"unlock", "forget"} /\ todo[w] = <<>> => Numbers(Chunk(w)) \subseteq saved

DueAhead == \A n \in due : ~Behind(n)

PassedInv ==
  /\ ProgressHonest
  /\ \A r \in Ranges : r.from <= progress[r]
  /\ \A w \in Worker : Passed(w)
  /\ DueAhead

(* While nothing disturbs, the chunks that are locked are the chunks that   *)
(* are held.                                                                *)
LockInv ==
  /\ ChunkExclusive
  /\ calm => /\ \A w \in Worker : redis[w]
             /\ \A r \in Ranges : r \in locks <=> \E w \in Worker : Holds(w, r)

(* After an error a worker pushes every chunk it had left; while it merges, *)
(* it will push everything that it clears.                                  *)
Covers(w) ==
  /\ pc[w] \in {"remain", "unlock", "forget"} /\ todo[w] # <<>> =>
       NumbersOf(ToSet(chunks[w])) \subseteq NumbersOf(ToSet(todo[w]))
  /\ calm /\ At(w, "clear") => NumbersOf(queue) \subseteq NumbersOf(ToSet(todo[w]))

CoverInv == NothingLost /\ \A w \in Worker : Covers(w)

RescanInv == RescanTypeOK /\ HandInv /\ PassedInv /\ LockInv /\ CoverInv

-----------------------------------------------------------------------------
(* What the documentation says and the code does not do. *)

(* "The rescan.Worker will automatically pick up this range, split it into  *)
(* chunks, and fetch the missing data in the background"                    *)
(* (docs/troubleshooting.md): a number asked for is stored in the end.      *)
AlwaysServed == \A n \in Num : n \in owed ~> n \notin owed

(* "If you just need to re-fetch/re-process a specific range of blocks      *)
(* [...], use the Rescan Worker via Redis" (docs/troubleshooting.md): where *)
(* nothing fails or expires and no process ends, every number asked for is  *)
(* stored after the request, also one that had been stored before.          *)
ServedAgain == <>[](calm => owed = {})

=============================================================================
