----------------------------- MODULE UnionPool -----------------------------
(***************************************************************************)
(* ChunkedUnionScoreCKKSWithConcurrency and runUnionComparatorsWith        *)
(* (bridge.go): the comparators of a union are fused on one context, one   *)
(* after the other or by a pool of goroutines: a feeder hands indices over *)
(* an unbuffered channel, closes it, waits for the workers and closes the  *)
(* buffered results, which the caller drains before the context is closed. *)
(***************************************************************************)
EXTENDS Naturals, Integers, Sequences, FiniteSets

CONSTANTS MaxComparators, MaxConcurrency   \* bounds on the two arguments

VARIABLES
  comparators,  \* len(comparators)
  conc,         \* the concurrency asked for, then clamped
  poolStage,    \* the caller: start, insert, run, or returned ok / err
  unionCtx,     \* the context: none, open or closed
  keysIn,       \* the eval keys are in the context
  nextJob,      \* the comparator the feeder (or the loop) hands out next
  fed,          \* jobs is closed
  lane,         \* lane[w]: the worker's comparator and step
  poolResults,  \* the results channel; closed is its end
  closed,
  stored,       \* out[i]: comparator i's chunks are stored
  firstErr

askVars == <<comparators, conc>>
jobVars == <<nextJob, fed>>
sinkVars == <<closed, stored, firstErr>>
poolVars == <<askVars, poolStage, unionCtx, keysIn, jobVars, lane, poolResults, sinkVars>>

Waiting == [i |-> 0, step |-> "wait"]
Left == [i |-> 0, step |-> "gone"]
Ends(how) == poolStage' = how

clampUnionConcurrency(concurrency, count) ==
  IF concurrency <= 0 THEN 1 ELSE IF concurrency > count THEN count ELSE concurrency

PoolInit ==
  /\ comparators \in 0 .. MaxComparators /\ conc \in -1 .. MaxConcurrency
  /\ poolStage = "start" /\ unionCtx = "none" /\ keysIn = FALSE
  /\ nextJob = 1 /\ fed = FALSE /\ lane = <<>>
  /\ poolResults = <<>> /\ closed = FALSE /\ stored = {} /\ firstErr = 0

\* NewCryptoContext may fail; more than one lane needs the keys entered first.
PoolStart ==
  /\ poolStage = "start"
  /\ \/ Ends("err") /\ UNCHANGED <<conc, unionCtx, lane>>
     \/ /\ comparators > 0
        /\ conc' = clampUnionConcurrency(conc, comparators)
        /\ lane' = [w \in 1 .. conc' |-> Waiting]
        /\ unionCtx' = "open"
        /\ poolStage' = IF conc' > 1 THEN "insert" ELSE "run"
  /\ UNCHANGED <<comparators, keysIn, jobVars, poolResults, sinkVars>>

insertUnionEvalKeysStep ==
  /\ poolStage = "insert"
  /\ \/ keysIn' = TRUE /\ poolStage' = "run"
     \/ keysIn' \in BOOLEAN /\ Ends("err")
  /\ UNCHANGED <<askVars, unionCtx, jobVars, lane, poolResults, sinkVars>>

\* Mutant: every lane brings its keys.
neverPreinserted == FALSE

usePreinsertedEvalKeys == conc > 1

\* jobs <- i meets a worker that waits; the one lane of the sequential form
\* takes them itself.
Feed(w) ==
  /\ poolStage = "run" /\ ~fed /\ nextJob <= comparators /\ lane[w] = Waiting
  /\ conc = 1 => poolResults = <<>> /\ firstErr = 0
  /\ lane' = [lane EXCEPT ![w] = [i |-> nextJob,
                                  step |-> IF usePreinsertedEvalKeys THEN "eval" ELSE "clear"]]
  /\ nextJob' = nextJob + 1
  /\ UNCHANGED <<askVars, poolStage, unionCtx, keysIn, fed, poolResults, sinkVars>>

\* A fusion that brings its keys clears the table's and enters its own.
LaneClear(w) ==
  /\ lane[w].step = "clear"
  /\ keysIn' = FALSE
  /\ lane' = [lane EXCEPT ![w].step = "put"]
  /\ UNCHANGED <<askVars, poolStage, unionCtx, jobVars, poolResults, sinkVars>>
LanePut(w) ==
  /\ lane[w].step = "put"
  /\ keysIn' = TRUE
  /\ lane' = [lane EXCEPT ![w].step = "eval"]
  /\ UNCHANGED <<askVars, poolStage, unionCtx, jobVars, poolResults, sinkVars>>

\* The fusion fails or yields chunks; the result goes into the channel, which
\* has room for every comparator's.
LaneResult(w) ==
  /\ lane[w].step = "eval" /\ Len(poolResults) < comparators
  /\ \E ok \in BOOLEAN : poolResults' = Append(poolResults, [i |-> lane[w].i, ok |-> ok])
  /\ lane' = [lane EXCEPT ![w] = Waiting]
  /\ UNCHANGED <<askVars, poolStage, unionCtx, keysIn, jobVars, sinkVars>>

\* Mutant: jobs is closed after the workers have left.
CloseJobsAfter ==
  /\ poolStage = "run" /\ ~fed /\ \A w \in DOMAIN lane : lane[w] = Left
  /\ fed' = TRUE
  /\ UNCHANGED <<askVars, poolStage, unionCtx, keysIn, nextJob, lane, poolResults, sinkVars>>

\* close(jobs) once all are handed out (the loop of the sequential form ends
\* there, or at its first error); workers leave; close(results) after the last.
CloseJobs ==
  /\ poolStage = "run" /\ ~fed /\ (nextJob > comparators \/ (conc = 1 /\ firstErr # 0))
  /\ fed' = TRUE
  /\ UNCHANGED <<askVars, poolStage, unionCtx, keysIn, nextJob, lane, poolResults, sinkVars>>
LaneLeave(w) ==
  /\ fed /\ lane[w] = Waiting
  /\ lane' = [lane EXCEPT ![w] = Left]
  /\ UNCHANGED <<askVars, poolStage, unionCtx, keysIn, jobVars, poolResults, sinkVars>>
CloseResults ==
  /\ fed /\ ~closed /\ \A w \in DOMAIN lane : lane[w] = Left
  /\ closed' = TRUE
  /\ UNCHANGED <<askVars, poolStage, unionCtx, keysIn, jobVars, lane, poolResults, stored, firstErr>>

\* The first error is kept, the chunks of the others are stored by index.
Collect ==
  /\ poolStage = "run" /\ poolResults # <<>>
  /\ LET res == Head(poolResults) IN
     IF ~res.ok /\ firstErr = 0 THEN firstErr' = res.i /\ UNCHANGED stored
     ELSE stored' = stored \cup {res.i} /\ UNCHANGED firstErr
  /\ poolResults' = Tail(poolResults)
  /\ UNCHANGED <<askVars, poolStage, unionCtx, keysIn, jobVars, lane, closed>>

PoolReturn ==
  /\ poolStage = "run" /\ closed /\ poolResults = <<>>
  /\ Ends(IF firstErr # 0 THEN "err" ELSE "ok")
  /\ UNCHANGED <<askVars, unionCtx, keysIn, jobVars, lane, poolResults, sinkVars>>

\* defer ctx.Close()
CloseContext ==
  /\ poolStage \in {"ok", "err"} /\ unionCtx = "open"
  /\ unionCtx' = "closed" /\ keysIn' = FALSE
  /\ UNCHANGED <<askVars, poolStage, jobVars, lane, poolResults, sinkVars>>

PoolNext ==
  \/ PoolStart \/ insertUnionEvalKeysStep \/ CloseJobs \/ CloseResults \/ Collect
  \/ PoolReturn \/ CloseContext
  \/ \E w \in DOMAIN lane :
       Feed(w) \/ LaneClear(w) \/ LanePut(w) \/ LaneResult(w) \/ LaneLeave(w)

\* A lane works on an open context and finds the keys there when it evaluates,
\* whichever lanes run at once ("required for concurrency > 1 so lanes don't race
\* on per-call clear/insert", bridge.go:4236), also when another lane's error ends
\* the call and its deferred Close frees the context.
LanesServed ==
  \A w \in DOMAIN lane :
    /\ lane[w].step \in {"clear", "put", "eval"} => unionCtx = "open"
    /\ lane[w].step = "eval" => keysIn

\* Every call returns, with its context closed and, if it succeeded, with the
\* chunks of every comparator: no lane, feeder or caller waits forever on a
\* channel, whichever comparators fail.
UnionReturns ==
  []<>(/\ poolStage \in {"ok", "err"} /\ unionCtx # "open"
       /\ poolStage = "ok" => stored = 1 .. comparators)
=============================================================================
