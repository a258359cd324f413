------------------------ MODULE BitBakeRunnerProofs ------------------------
(***************************************************************************)
(* Proofs, for every set of commands, every budget and every output limit, *)
(* of the safety of BitBakeRunner: the budgets, the end of each command    *)
(* and its place in the statistics, and the completeness of what run       *)
(* returns and keeps in its cache.                                         *)
(***************************************************************************)
EXTENDS BitBakeRunner, FiniteSetTheorems, TLAPS

(* A command is terminated for a reason.                                   *)
ReasonInv == pc \in {"grace", "reap"} => why # "none"

(* A recipe query that is under way is scheduled and not yet completed.    *)
ScheduleInv == pc # "idle" /\ command.recipe => stats.completed < stats.scheduled

(* The child of a finished call is gone, and so is one whose exit status   *)
(* try_wait has returned.                                                  *)
ChildInv ==
  /\ pc \in {"idle", "spawn"} => child \in {"none", "reaped"} /\ seen = "none"
  /\ pc = "join" => seen # "none"
  /\ seen # "none" => child = "reaped"

(* The counters agree with the outcomes at every moment: run records an    *)
(* outcome where it returns it.                                            *)
Balanced ==
  /\ stats.by["succeeded"] = calls["ok"]
  /\ stats.by["failed"] = calls["spawn"] + calls["non-zero"]
  /\ stats.by["timed_out"] = calls["timeout"] + calls["total-deadline"]
  /\ stats.by["cancelled"] = calls["cancelled"]
  /\ stats.by["limit_terminated"] =
       calls["command-budget"] + calls["recipe-query-budget"]
         + calls["stdout-limit"] + calls["stderr-limit"]
  /\ stats.cache_hits = calls["hit"]

(* A reader ends when nobody can write any more, and run joins readers     *)
(* that have all made their last store.                                    *)
PipeInv ==
  /\ \A s \in Streams : reader[s] = "ended" => got[s] = sent[s] /\ ~ PipeOpen
  /\ pc = "join" => \A s \in Streams : done(s)

(* Only bytes above a limit are missing from a cached output.              *)
Complete(output) == output.missing \subseteq output.overflowed

OutputInv ==
  /\ \A e \in cache : Complete(e.output)
  /\ result.kind \in {"ok", "hit"} => Complete(result.output)

(* The command under way is not in the cache.                              *)
CacheInv ==
  /\ IsFiniteSet(cache)
  /\ CacheHoldsSuccesses
  /\ pc # "idle" /\ command.cacheable => \A e \in cache : e.key # command.key

RunnerInv == /\ TypeOK /\ ReasonInv /\ BudgetsHeld /\ ScheduleInv /\ ChildInv
             /\ Balanced /\ PipeInv /\ OutputInv /\ CacheInv

USE DEF Streams, Limits, Timeouts, Recorded, Outcomes, Counters, runnerVars,
        childVars, pipeVars, clockVars

----------------------------------------------------------------------------
(* The operators                                                           *)

(* A call begins when no other is under way.                               *)
LEMMA CallsAreSequential == MayCall => pc = "idle"
  BY DEF MayCall

(* record_failure knows the counter of every recorded outcome.             *)
LEMMA CounterOfKind ==
  ASSUME NEW kind \in Recorded
  PROVE  /\ Counter(kind) \in Counters
         /\ Counter(kind) =
              IF kind \in Timeouts THEN "timed_out"
              ELSE IF kind = "cancelled" THEN "cancelled"
              ELSE IF kind \in Limits THEN "limit_terminated" ELSE "failed"
  BY DEF Counter

(* Counting in the statistics keeps their type.                            *)
LEMMA StatsFields ==
  ASSUME stats \in StatsType
  PROVE  /\ stats.total_commands \in Nat /\ stats.scheduled \in Nat
         /\ stats.completed \in Nat /\ stats.cache_hits \in Nat
         /\ stats.by \in [Counters -> Nat]
  BY DEF StatsType

(* Counting in the statistics keeps their type.                            *)
LEMMA StatsCounted ==
  ASSUME stats \in StatsType, NEW n \in Nat, NEW m \in Nat, NEW c \in Counters
  PROVE  /\ [stats EXCEPT !.total_commands = n, !.scheduled = m] \in StatsType
         /\ [stats EXCEPT !.scheduled = n, !.completed = m] \in StatsType
         /\ [stats EXCEPT !.cache_hits = n] \in StatsType
         /\ [stats EXCEPT !.completed = n, !.by[c] = @ + 1] \in StatsType
         /\ [stats EXCEPT !.by[c] = @ + 1] \in StatsType
<1> DEFINE by == [stats.by EXCEPT ![c] = @ + 1]
<1>1. by \in [Counters -> Nat]
  BY StatsFields
<1> QED
  BY <1>1 DEF StatsType

(* What each call counts.                                                  *)
LEMMA HitCounts ==
  ASSUME TypeOK, NEW c, CacheHit(c)
  PROVE  /\ stats'.total_commands = stats.total_commands
         /\ stats'.scheduled = stats.scheduled /\ stats'.completed = stats.completed
         /\ stats'.cache_hits = stats.cache_hits + 1 /\ stats'.by = stats.by
  BY DEF CacheHit, TypeOK, StatsType

(* A launch counts one command and, for a recipe, one scheduled query.     *)
LEMMA LaunchCounts ==
  ASSUME TypeOK, NEW c, Launch(c)
  PROVE  /\ stats'.total_commands = stats.total_commands + 1
         /\ stats'.scheduled = IF c.recipe THEN stats.scheduled + 1
                               ELSE stats.scheduled
         /\ stats'.completed = stats.completed
         /\ stats'.cache_hits = stats.cache_hits /\ stats'.by = stats.by
  BY DEF Launch, TypeOK, StatsType

(* Recorded queries count as scheduled and as completed.                   *)
LEMMA QueriesCounted ==
  ASSUME TypeOK, NEW count, RecordRecipeQueries(count),
         ~ count > MaxRecipeQueries - stats.scheduled
  PROVE  /\ stats'.total_commands = stats.total_commands
         /\ stats'.scheduled = stats.scheduled + count
         /\ stats'.completed = stats.completed + count
         /\ stats'.cache_hits = stats.cache_hits /\ stats'.by = stats.by
  BY DEF RecordRecipeQueries, TypeOK, StatsType

(* record_failure changes one counter.                                     *)
LEMMA RecordCounts ==
  ASSUME TypeOK, NEW kind, RecordFailure(kind)
  PROVE  /\ stats'.total_commands = stats.total_commands
         /\ stats'.scheduled = stats.scheduled /\ stats'.completed = stats.completed
         /\ stats'.cache_hits = stats.cache_hits
         /\ stats'.by = [stats.by EXCEPT ![Counter(kind)] = @ + 1]
  BY DEF RecordFailure, TypeOK, StatsType

(* So do the two outcomes of a command that ended by itself.               *)
LEMMA JoinCounts ==
  ASSUME TypeOK, Join
  PROVE  /\ stats'.total_commands = stats.total_commands
         /\ stats'.scheduled = stats.scheduled
         /\ stats'.completed = IF command.recipe THEN stats.completed + 1
                               ELSE stats.completed
         /\ stats'.cache_hits = stats.cache_hits
         /\ stats'.by = [stats.by EXCEPT ![IF seen = "success" THEN "succeeded"
                                           ELSE "failed"] = @ + 1]
<1>1. Counter("non-zero") = "failed"
  BY CounterOfKind
<1> QED
  BY <1>1 DEF Join, TypeOK, StatsType

(* What may be launched is within the budgets; what may not is recorded.   *)
LEMMA Allowed ==
  ASSUME TypeOK, NEW c
  PROVE  /\ Refusal(c) = "none" =>
              /\ stats.total_commands < MaxCommands
              /\ c.recipe => stats.scheduled < MaxRecipeQueries
         /\ Refusal(c) # "none" => Refusal(c) \in Recorded
<1>1. stats.total_commands \in Nat /\ stats.scheduled \in Nat
  BY StatsFields DEF TypeOK
<1> QED
  BY <1>1, LimitsAssumption DEF Refusal

(* Every output reported is a set of streams for each of its fields.       *)
LEMMA OutputTyped == Output \in OutputType /\ NoOutput \in OutputType
  BY DEF Output, NoOutput, OutputType

(* The calls of the runner that change neither a process nor a pipe.       *)
LEMMA RunnerSteps ==
  ASSUME [Next]_vars
  PROVE  \/ UNCHANGED vars
         \/ \E c \in Invocations : Refuse(c) \/ CacheHit(c) \/ Launch(c)
         \/ \E count \in 1..2 : RecordRecipeQueries(count)
         \/ Progress
         \/ \E s \in Streams : Reader(s) \/ Write(s)
         \/ ChildExit \/ HeirExit \/ Cancel \/ CommandTimeout \/ TotalTimeout
  BY DEF Next, Call, Group

(* The readers, the group, the canceller and the clock leave the runner    *)
(* alone.                                                                  *)
Surroundings == \/ \E s \in Streams : Reader(s) \/ Write(s)
                \/ ChildExit \/ HeirExit \/ Cancel \/ CommandTimeout \/ TotalTimeout

(* Readers, the child and the clock change nothing of the runner itself.   *)
LEMMA RunnerUndisturbed == Surroundings => UNCHANGED <<pc, runnerVars>>
  BY DEF Surroundings, Reader, ReadChunk, ReadOverflow, StoreDone, ReadEof,
     ReadError, Write, ChildExit, HeirExit, Cancel, CommandTimeout, TotalTimeout

----------------------------------------------------------------------------
(* The type invariant                                                      *)

(* run returns a typed result.                                             *)
LEMMA ReturnTyped ==
  ASSUME TypeOK, NEW kind \in Outcomes, NEW output \in OutputType,
         Return(kind, output),
         stats' \in StatsType,
         cache' \subseteq [key : {c.key : c \in Invocations}, output : OutputType],
         child' \in {"none", "running", "zombie", "reaped"}
  PROVE  TypeOK'
<1>1. result' \in [kind : Outcomes \cup {"none"}, output : OutputType]
  BY DEF Return
<1>2. calls' \in [Outcomes -> Nat]
  BY DEF Return, TypeOK
<1>3. /\ sent' \in [Streams -> Nat] /\ got' \in [Streams -> 0..Limit]
      /\ reader' \in [Streams -> ReaderState]
  BY LimitsAssumption DEF Return, ReaderState
<1>4. cancelled' \in BOOLEAN /\ late' \in BOOLEAN /\ overdue' \in BOOLEAN
  BY DEF Return, TypeOK
<1>5. /\ pc' = "idle" /\ command' = NoCommand /\ retries' = 0 /\ seen' = "none"
      /\ why' = "none" /\ heir' = "none" /\ signal' = "none"
  BY DEF Return
<1> QED
  BY <1>1, <1>2, <1>3, <1>4, <1>5 DEF TypeOK, BusyRetries

(* A recorded failure keeps the type of the statistics.                    *)
LEMMA RecordTyped ==
  ASSUME TypeOK, NEW kind \in Recorded, RecordFailure(kind)
  PROVE  stats' \in StatsType
<1>1. Counter(kind) \in Counters
  BY CounterOfKind
<1> QED
  BY <1>1, StatsCounted DEF TypeOK, RecordFailure

(* The steps that begin a call keep the types.                             *)
LEMMA CallTyped ==
  ASSUME TypeOK,
         \/ \E c \in Invocations : Refuse(c) \/ CacheHit(c) \/ Launch(c)
         \/ \E count \in 1..2 : RecordRecipeQueries(count)
  PROVE  TypeOK'
<1>1. ASSUME NEW c \in Invocations, Refuse(c) PROVE TypeOK'
  <2>1. Refusal(c) \in Recorded
    BY <1>1, Allowed DEF Refuse
  <2> QED
    BY <1>1, <2>1, RecordTyped, ReturnTyped, OutputTyped DEF Refuse, TypeOK
<1>2. ASSUME NEW c \in Invocations, CacheHit(c) PROVE TypeOK'
  <2>1. PICK e \in Hits(c) : Return("hit", e.output)
    BY <1>2 DEF CacheHit
  <2>2. e.output \in OutputType
    BY DEF Hits, TypeOK
  <2>3. stats' \in StatsType
    <3>1. stats.cache_hits + 1 \in Nat
      BY StatsFields DEF TypeOK
    <3>2. stats' = [stats EXCEPT !.cache_hits = stats.cache_hits + 1]
      BY <1>2 DEF CacheHit
    <3>3. "failed" \in Counters
      OBVIOUS
    <3> QED
      BY <3>1, <3>2, <3>3, StatsCounted DEF TypeOK
  <2> QED
    BY <1>2, <2>1, <2>2, <2>3, ReturnTyped DEF CacheHit, TypeOK
<1>3. ASSUME NEW c \in Invocations, Launch(c) PROVE TypeOK'
  <2>1. stats' \in StatsType
    <3> DEFINE m == IF c.recipe THEN stats.scheduled + 1 ELSE stats.scheduled
    <3>1. stats.total_commands + 1 \in Nat /\ m \in Nat
      BY StatsFields DEF TypeOK
    <3>2. stats' = [stats EXCEPT !.total_commands = stats.total_commands + 1,
                                 !.scheduled = m]
      BY <1>3 DEF Launch
    <3> HIDE DEF m
    <3> QED
      BY <3>1, <3>2, StatsCounted DEF TypeOK
  <2>2. result' \in [kind : Outcomes \cup {"none"}, output : OutputType]
    BY <1>3, OutputTyped DEF Launch, NoResult
  <2>3. /\ pc' = "spawn" /\ command' \in Invocations
        /\ UNCHANGED <<retries, seen, why, cache, calls, childVars, pipeVars,
                       clockVars>>
    BY <1>3 DEF Launch
  <2> QED
    BY <2>1, <2>2, <2>3 DEF TypeOK
<1>4. ASSUME NEW count \in 1..2, RecordRecipeQueries(count) PROVE TypeOK'
  <2>1. CASE count > MaxRecipeQueries - stats.scheduled
    BY <1>4, <2>1, RecordTyped, ReturnTyped, OutputTyped
    DEF RecordRecipeQueries, TypeOK
  <2>2. CASE ~ count > MaxRecipeQueries - stats.scheduled
    <3>1. stats' \in StatsType
      <4>1. stats.scheduled + count \in Nat /\ stats.completed + count \in Nat
        BY StatsFields DEF TypeOK
      <4>2. stats' = [stats EXCEPT !.scheduled = stats.scheduled + count,
                                   !.completed = stats.completed + count]
        BY <1>4, <2>2 DEF RecordRecipeQueries
      <4> QED
        BY <4>1, <4>2, StatsCounted DEF TypeOK
    <3> QED
      BY <1>4, <2>2, <3>1 DEF RecordRecipeQueries, TypeOK
  <2> QED
    BY <2>1, <2>2
<1> QED
  BY <1>1, <1>2, <1>3, <1>4

(* The steps of a running command keep the types.                          *)
LEMMA ProgressTyped ==
  ASSUME TypeOK, ReasonInv, Progress
  PROVE  TypeOK'
<1>1. CASE SpawnBusy \/ Spawn
  BY <1>1 DEF SpawnBusy, Spawn, TypeOK, BusyRetries, ReaderState
<1>2. CASE Poll \/ CheckExit \/ GraceOver \/ \E s \in Streams : CheckFlag(s)
  BY <1>2 DEF Poll, CheckExit, GraceOver, CheckFlag, Terminate, LimitOf, TypeOK
<1>3. CASE SpawnFails
  BY <1>3, RecordTyped, ReturnTyped, OutputTyped DEF SpawnFails, TypeOK
<1>4. CASE GraceReap \/ Reap
  <2>1. why \in Recorded
    BY <1>4 DEF TypeOK, ReasonInv, GraceReap, Reap
  <2> QED
    BY <1>4, <2>1, RecordTyped, ReturnTyped, OutputTyped DEF GraceReap, Reap, TypeOK
<1>5. CASE PollFails \/ JoinFails
  BY <1>5, ReturnTyped, OutputTyped DEF PollFails, JoinFails, TypeOK
<1>6. CASE Join
  <2>1. stats' \in StatsType
    <3>1. Counter("non-zero") \in Counters
      BY CounterOfKind
    <3> DEFINE counter == IF seen = "success" THEN "succeeded" ELSE Counter("non-zero")
    <3>2. counter \in Counters
      BY <3>1
    <3> DEFINE n == IF command.recipe THEN stats.completed + 1 ELSE stats.completed
    <3>3. n \in Nat
      BY StatsFields DEF TypeOK
    <3>4. stats' = [stats EXCEPT !.completed = n, !.by[counter] = @ + 1]
      BY <1>6 DEF Join
    <3> HIDE DEF counter, n
    <3> QED
      BY <3>2, <3>3, <3>4, StatsCounted DEF TypeOK
  <2>2. cache' \subseteq [key : {c.key : c \in Invocations}, output : OutputType]
    <3>1. command.cacheable => command \in Invocations
      BY DEF TypeOK, NoCommand
    <3> QED
      BY <1>6, <3>1, OutputTyped DEF Join, TypeOK
  <2> QED
    BY <1>6, <2>1, <2>2, ReturnTyped, OutputTyped DEF Join, TypeOK
<1> QED
  BY <1>1, <1>2, <1>3, <1>4, <1>5, <1>6 DEF Progress

(* The steps of the surroundings keep the types.                           *)
LEMMA SurroundingsTyped ==
  ASSUME TypeOK, Surroundings
  PROVE  TypeOK'
<1>1. ASSUME NEW s \in Streams, ReadChunk(s) PROVE TypeOK'
  <2>1. PICK count \in 1..(sent[s] - got[s]) :
          count <= Limit - got[s] /\ got' = [got EXCEPT ![s] = @ + count]
    BY <1>1 DEF ReadChunk
  <2>2. got[s] + count \in 0..Limit
    BY <2>1, LimitsAssumption DEF TypeOK
  <2>3. got' \in [Streams -> 0..Limit]
    BY <2>1, <2>2 DEF TypeOK
  <2> QED
    BY <1>1, <2>3 DEF ReadChunk, TypeOK
<1>2. ASSUME NEW s \in Streams, ReadOverflow(s) PROVE TypeOK'
  BY <1>2, LimitsAssumption DEF ReadOverflow, TypeOK, ReaderState
<1>3. ASSUME NEW s \in Streams, StoreDone(s) \/ ReadEof(s) PROVE TypeOK'
  BY <1>3 DEF StoreDone, ReadEof, TypeOK, ReaderState
<1>4. ASSUME NEW s \in Streams, ReadError(s) PROVE TypeOK'
  BY <1>4, LimitsAssumption DEF ReadError, TypeOK, ReaderState
<1>5. ASSUME NEW s \in Streams, Write(s) PROVE TypeOK'
  BY <1>5 DEF Write, TypeOK
<1>6. CASE ChildExit \/ HeirExit
  BY <1>6 DEF ChildExit, HeirExit, TypeOK
<1>7. CASE Cancel \/ CommandTimeout \/ TotalTimeout
  <2>1. UNCHANGED <<pc, runnerVars, childVars, pipeVars>>
    BY <1>7 DEF Cancel, CommandTimeout, TotalTimeout
  <2>2. /\ cancelled' = cancelled \/ cancelled' = TRUE
        /\ late' = late \/ late' = TRUE
        /\ overdue' = overdue \/ overdue' = TRUE
    BY <1>7 DEF Cancel, CommandTimeout, TotalTimeout
  <2>3. cancelled' \in BOOLEAN /\ late' \in BOOLEAN /\ overdue' \in BOOLEAN
    BY <2>2 DEF TypeOK
  <2> QED
    BY <2>1, <2>3 DEF TypeOK
<1> QED
  BY <1>1, <1>2, <1>3, <1>4, <1>5, <1>6, <1>7 DEF Surroundings, Reader

(* Every step keeps the types.                                             *)
LEMMA TypeKept ==
  ASSUME TypeOK, ReasonInv, [Next]_vars
  PROVE  TypeOK'
<1>1. CASE UNCHANGED vars
  BY <1>1 DEF vars, TypeOK
<1> QED
  BY <1>1, RunnerSteps, CallTyped, ProgressTyped, SurroundingsTyped DEF Surroundings

----------------------------------------------------------------------------
(* The rest of the invariant, one part at a time                           *)

(* Only terminate_child ends a command, and it has been told why.          *)
LEMMA ReasonKept ==
  ASSUME ReasonInv, [Next]_vars
  PROVE  ReasonInv'
<1>1. CASE UNCHANGED vars \/ Surroundings
  BY <1>1, RunnerUndisturbed DEF vars, ReasonInv
<1>2. ASSUME NEW c \in Invocations, Refuse(c) \/ CacheHit(c) \/ Launch(c)
      PROVE  ReasonInv'
  BY <1>2 DEF Refuse, CacheHit, Launch, Return, ReasonInv
<1>3. ASSUME NEW count \in 1..2, RecordRecipeQueries(count) PROVE ReasonInv'
  BY <1>3 DEF RecordRecipeQueries, Return, ReasonInv
<1>4. CASE Progress
  BY <1>4
  DEF Progress, SpawnBusy, SpawnFails, Spawn, Poll, PollFails, CheckExit,
      CheckFlag, GraceReap, GraceOver, Reap, JoinFails, Join, Terminate, LimitOf,
      Return, ReasonInv
<1> QED
  BY <1>1, <1>2, <1>3, <1>4, RunnerSteps DEF Surroundings

(* The budgets: a command is counted before it runs, a query completes     *)
(* once.                                                                   *)
LEMMA BudgetsKept ==
  ASSUME TypeOK, BudgetsHeld, ScheduleInv, [Next]_vars
  PROVE  BudgetsHeld' /\ ScheduleInv'
<1> USE StatsFields, LimitsAssumption
<1>1. CASE UNCHANGED vars \/ Surroundings
  BY <1>1, RunnerUndisturbed DEF vars, BudgetsHeld, ScheduleInv
<1>2. ASSUME NEW c \in Invocations, Refuse(c) \/ CacheHit(c)
      PROVE  BudgetsHeld' /\ ScheduleInv'
  <2>1. pc' = "idle" /\ stats'.total_commands = stats.total_commands
        /\ stats'.scheduled = stats.scheduled /\ stats'.completed = stats.completed
    BY <1>2, RecordCounts, HitCounts DEF Refuse, CacheHit, Return
  <2> QED
    BY <2>1 DEF BudgetsHeld, ScheduleInv
<1>3. ASSUME NEW c \in Invocations, Launch(c) PROVE BudgetsHeld' /\ ScheduleInv'
  <2>1. /\ stats.total_commands < MaxCommands
        /\ c.recipe => stats.scheduled < MaxRecipeQueries
    BY <1>3, Allowed DEF Launch
  <2> QED
    <3>1. command' = c
      BY <1>3 DEF Launch
    <3>2. /\ stats.total_commands \in Nat /\ stats.scheduled \in Nat
          /\ stats.completed \in Nat
      BY DEF TypeOK
    <3> QED
      BY <1>3, <2>1, <3>1, <3>2, LaunchCounts DEF BudgetsHeld, ScheduleInv
<1>4. ASSUME NEW count \in 1..2, RecordRecipeQueries(count)
      PROVE  BudgetsHeld' /\ ScheduleInv'
  <2>1. CASE count > MaxRecipeQueries - stats.scheduled
    BY <1>4, <2>1, RecordCounts
    DEF RecordRecipeQueries, Return, BudgetsHeld, ScheduleInv
  <2>2. CASE ~ count > MaxRecipeQueries - stats.scheduled
    <3>1. pc = "idle" /\ UNCHANGED pc
      BY <1>4, <2>2, CallsAreSequential DEF RecordRecipeQueries
    <3>2. stats.scheduled \in Nat /\ stats.completed \in Nat
      BY DEF TypeOK
    <3> QED
      BY <1>4, <2>2, <3>1, <3>2, QueriesCounted DEF BudgetsHeld, ScheduleInv
  <2> QED
    BY <2>1, <2>2
<1>5. CASE Progress
  <2>1. CASE Join
    BY <2>1, JoinCounts DEF Join, Return, BudgetsHeld, ScheduleInv, TypeOK
  <2>2. CASE SpawnFails \/ GraceReap \/ Reap \/ PollFails \/ JoinFails
    <3>1. pc' = "idle" /\ stats'.total_commands = stats.total_commands
          /\ stats'.scheduled = stats.scheduled /\ stats'.completed = stats.completed
      BY <2>2, RecordCounts
      DEF SpawnFails, GraceReap, Reap, PollFails, JoinFails, Return
    <3> QED
      BY <3>1 DEF BudgetsHeld, ScheduleInv
  <2>3. CASE SpawnBusy \/ Spawn \/ Poll \/ CheckExit \/ GraceOver
             \/ \E s \in Streams : CheckFlag(s)
    <3>1. UNCHANGED <<stats, command>> /\ pc # "idle"
      BY <2>3
      DEF SpawnBusy, Spawn, Poll, CheckExit, GraceOver, CheckFlag
    <3> QED
      BY <3>1 DEF BudgetsHeld, ScheduleInv
  <2> QED
    BY <1>5, <2>1, <2>2, <2>3 DEF Progress
<1> QED
  BY <1>1, <1>2, <1>3, <1>4, <1>5, RunnerSteps DEF Surroundings

(* run never returns with its child alive.                                 *)
LEMMA ChildKept ==
  ASSUME ChildInv, [Next]_vars
  PROVE  ChildInv'
<1>1. CASE UNCHANGED vars
  BY <1>1 DEF vars, ChildInv
<1>2. CASE Surroundings
  BY <1>2
  DEF Surroundings, Reader, ReadChunk, ReadOverflow, StoreDone, ReadEof, ReadError,
      Write, ChildExit, HeirExit, Cancel, CommandTimeout, TotalTimeout, ChildInv
<1>3. ASSUME NEW c \in Invocations, Refuse(c) \/ CacheHit(c) \/ Launch(c)
      PROVE  ChildInv'
  BY <1>3, CallsAreSequential DEF Refuse, CacheHit, Launch, Return, ChildInv
<1>4. ASSUME NEW count \in 1..2, RecordRecipeQueries(count) PROVE ChildInv'
  BY <1>4, CallsAreSequential DEF RecordRecipeQueries, Return, ChildInv
<1>5. CASE Progress
  BY <1>5
  DEF Progress, SpawnBusy, SpawnFails, Spawn, Poll, PollFails, CheckExit, Finished,
      CheckFlag, GraceReap, GraceOver, Reap, JoinFails, Join, Terminate, LimitOf,
      Return, ChildInv
<1> QED
  BY <1>1, <1>2, <1>3, <1>4, <1>5, RunnerSteps DEF Surroundings

(* What run records is what it returns.                                    *)
LEMMA RecordedAndReturned ==
  ASSUME TypeOK, Balanced, NEW kind \in Recorded, NEW output,
         RecordFailure(kind), Return(kind, output)
  PROVE  Balanced'
<1>1. calls' = [calls EXCEPT ![kind] = @ + 1]
  BY DEF Return
<1>2. calls \in [Outcomes -> Nat] /\ stats.by \in [Counters -> Nat]
  BY StatsFields DEF TypeOK
<1>3. /\ stats'.by = [stats.by EXCEPT ![Counter(kind)] = @ + 1]
      /\ stats'.cache_hits = stats.cache_hits
  BY RecordCounts
<1>4. CASE kind \in Timeouts
  <2>1. stats'.by = [stats.by EXCEPT !["timed_out"] = @ + 1]
    BY <1>3, <1>4, CounterOfKind
  <2>2. CASE kind = "timeout"
    BY <1>1, <1>2, <1>3, <2>1, <2>2 DEF Balanced
  <2>3. CASE kind = "total-deadline"
    BY <1>1, <1>2, <1>3, <2>1, <2>3 DEF Balanced
  <2> QED
    BY <1>4, <2>2, <2>3
<1>5. CASE kind = "cancelled"
  BY <1>1, <1>2, <1>3, <1>5, CounterOfKind DEF Balanced
<1>6. CASE kind \in Limits
  BY <1>1, <1>2, <1>3, <1>6, CounterOfKind DEF Balanced
<1>7. CASE kind \in {"spawn", "non-zero"}
  BY <1>1, <1>2, <1>3, <1>7, CounterOfKind DEF Balanced
<1> QED
  BY <1>4, <1>5, <1>6, <1>7

(* Every end of a call adds one to the counter of its kind alone.          *)
LEMMA BalanceKept ==
  ASSUME TypeOK, ReasonInv, Balanced, [Next]_vars
  PROVE  Balanced'
<1> USE StatsFields
<1>1. CASE UNCHANGED vars \/ Surroundings
  BY <1>1, RunnerUndisturbed DEF vars, Balanced
<1>2. ASSUME NEW c \in Invocations, Refuse(c) PROVE Balanced'
  BY <1>2, RecordedAndReturned, Allowed DEF Refuse
<1>3. ASSUME NEW c \in Invocations, CacheHit(c) PROVE Balanced'
  <2>1. /\ calls' = [calls EXCEPT !["hit"] = @ + 1]
        /\ stats'.by = stats.by /\ stats'.cache_hits = stats.cache_hits + 1
    BY <1>3, HitCounts DEF CacheHit, Return
  <2> QED
    BY <2>1 DEF Balanced, TypeOK
<1>4. ASSUME NEW c \in Invocations, Launch(c) PROVE Balanced'
  BY <1>4, LaunchCounts DEF Launch, Balanced, TypeOK
<1>5. ASSUME NEW count \in 1..2, RecordRecipeQueries(count) PROVE Balanced'
  <2>1. CASE count > MaxRecipeQueries - stats.scheduled
    BY <1>5, <2>1, RecordedAndReturned DEF RecordRecipeQueries
  <2>2. CASE ~ count > MaxRecipeQueries - stats.scheduled
    BY <1>5, <2>2, QueriesCounted DEF RecordRecipeQueries, Balanced, TypeOK
  <2> QED
    BY <2>1, <2>2
<1>6. CASE SpawnFails \/ GraceReap \/ Reap
  <2>1. GraceReap \/ Reap => why \in Recorded
    BY DEF GraceReap, Reap, ReasonInv, TypeOK
  <2> QED
    BY <1>6, <2>1, RecordedAndReturned DEF SpawnFails, GraceReap, Reap
<1>7. CASE PollFails \/ JoinFails
  <2>1. /\ UNCHANGED stats
        /\ \/ calls' = [calls EXCEPT !["wait"] = @ + 1]
           \/ calls' = [calls EXCEPT !["read"] = @ + 1]
    BY <1>7 DEF PollFails, JoinFails, Return
  <2> QED
    BY <2>1 DEF Balanced, TypeOK
<1>8. CASE Join
  <2>1. calls' = [calls EXCEPT ![IF seen = "success" THEN "ok" ELSE "non-zero"]
                    = @ + 1]
    BY <1>8 DEF Join, Return
  <2> QED
    BY <1>8, <2>1, JoinCounts DEF Balanced, TypeOK
<1>9. CASE SpawnBusy \/ Spawn \/ Poll \/ CheckExit \/ GraceOver
           \/ \E s \in Streams : CheckFlag(s)
  <2>1. UNCHANGED <<stats, calls>>
    BY <1>9 DEF SpawnBusy, Spawn, Poll, CheckExit, GraceOver, CheckFlag
  <2> QED
    BY <2>1 DEF Balanced
<1> QED
  BY <1>1, <1>2, <1>3, <1>4, <1>5, <1>6, <1>7, <1>8, <1>9, RunnerSteps
  DEF Surroundings, Progress

(* A pipe that has ended is not written any more.                          *)
LEMMA PipeKept ==
  ASSUME TypeOK, PipeInv, ChildInv, [Next]_vars
  PROVE  PipeInv'
<1> USE DEF PipeInv, PipeOpen, done
<1>1. CASE UNCHANGED vars
  BY <1>1 DEF vars
<1>2. ASSUME NEW s \in Streams, Reader(s) PROVE PipeInv'
  BY <1>2 DEF Reader, ReadChunk, ReadOverflow, StoreDone, ReadEof, ReadError, TypeOK
<1>3. ASSUME NEW s \in Streams, Write(s) PROVE PipeInv'
  BY <1>3 DEF Write, TypeOK
<1>4. CASE ChildExit \/ HeirExit \/ Cancel \/ CommandTimeout \/ TotalTimeout
  BY <1>4 DEF ChildExit, HeirExit, Cancel, CommandTimeout, TotalTimeout
<1>5. ASSUME NEW c \in Invocations, Refuse(c) \/ CacheHit(c) \/ Launch(c)
      PROVE  PipeInv'
  BY <1>5 DEF Refuse, CacheHit, Launch, Return
<1>6. ASSUME NEW count \in 1..2, RecordRecipeQueries(count) PROVE PipeInv'
  BY <1>6, CallsAreSequential DEF RecordRecipeQueries, Return
<1>7. CASE Progress
  BY <1>7
  DEF Progress, SpawnBusy, SpawnFails, Spawn, Poll, PollFails, CheckExit, Finished,
      CheckFlag, GraceReap, GraceOver, Reap, JoinFails, Join, Terminate, Return
<1> QED
  BY <1>1, <1>2, <1>3, <1>4, <1>5, <1>6, <1>7, RunnerSteps

(* An output that lacks bytes below the limit is never returned: the       *)
(* readers are joined when every pipe was read to its end or over its      *)
(* limit.                                                                  *)
LEMMA JoinedOutput ==
  ASSUME TypeOK, PipeInv, Join
  PROVE  Complete(Output)
<1>1. \A s \in Streams : flag(s) \/ got[s] = sent[s]
  BY DEF Join, PipeInv, done, flag
<1>2. \A s \in Streams : ~ got[s] < sent[s] \/ flag(s)
  <2> SUFFICES ASSUME NEW s \in Streams, got[s] = sent[s] PROVE ~ got[s] < sent[s]
    BY <1>1
  <2> QED
    BY DEF TypeOK
<1> QED
  BY <1>2 DEF Complete, Output

(* Only output that is complete or was reported cut is returned or cached. *)
LEMMA OutputKept ==
  ASSUME TypeOK, PipeInv, OutputInv, [Next]_vars
  PROVE  OutputInv'
<1>1. CASE UNCHANGED vars \/ Surroundings
  BY <1>1, RunnerUndisturbed DEF vars, OutputInv
<1>2. ASSUME NEW c \in Invocations, Refuse(c) PROVE OutputInv'
  <2>1. Refusal(c) \in Recorded
    BY <1>2, Allowed DEF Refuse
  <2> QED
    BY <1>2, <2>1 DEF Refuse, Return, OutputInv
<1>3. ASSUME NEW c \in Invocations, CacheHit(c) PROVE OutputInv'
  <2>1. PICK e \in cache : Return("hit", e.output) /\ UNCHANGED cache
    BY <1>3 DEF CacheHit, Hits
  <2> QED
    BY <2>1 DEF Return, OutputInv
<1>4. ASSUME NEW c \in Invocations, Launch(c) PROVE OutputInv'
  BY <1>4 DEF Launch, NoResult, OutputInv
<1>5. ASSUME NEW count \in 1..2, RecordRecipeQueries(count) PROVE OutputInv'
  BY <1>5 DEF RecordRecipeQueries, Return, OutputInv
<1>6. CASE Join
  <2>1. cache' \subseteq cache \cup {[key |-> command.key, output |-> Output]}
    BY <1>6 DEF Join
  <2>2. result'.output = Output
    BY <1>6 DEF Join, Return
  <2> QED
    BY <1>6, <2>1, <2>2, JoinedOutput DEF OutputInv
<1>7. CASE GraceReap \/ Reap
  BY <1>7 DEF GraceReap, Reap, Return, OutputInv, TypeOK
<1>8. CASE SpawnFails \/ PollFails \/ JoinFails
  BY <1>8 DEF SpawnFails, PollFails, JoinFails, Return, OutputInv
<1>9. CASE SpawnBusy \/ Spawn \/ Poll \/ CheckExit \/ GraceOver
           \/ \E s \in Streams : CheckFlag(s)
  <2>1. UNCHANGED <<cache, result>>
    BY <1>9 DEF SpawnBusy, Spawn, Poll, CheckExit, GraceOver, CheckFlag
  <2> QED
    BY <2>1 DEF OutputInv
<1> QED
  BY <1>1, <1>2, <1>3, <1>4, <1>5, <1>6, <1>7, <1>8, <1>9, RunnerSteps
  DEF Surroundings, Progress

(* A command is run when it is not in the cache and cached when it         *)
(* succeeds.                                                               *)
LEMMA CacheKept ==
  ASSUME TypeOK, CacheInv, [Next]_vars
  PROVE  CacheInv'
<1> USE DEF CacheInv, CacheHoldsSuccesses
<1>1. CASE UNCHANGED vars \/ Surroundings
  BY <1>1, RunnerUndisturbed DEF vars
<1>2. Cardinality(cache) \in Nat /\ calls["ok"] \in Nat
  BY FS_CardinalityType DEF TypeOK
<1>3. ASSUME UNCHANGED cache, pc' = "idle", NEW kind \in Outcomes,
             calls' = [calls EXCEPT ![kind] = @ + 1]
      PROVE  CacheInv'
  <2>1. calls'["ok"] \in {calls["ok"], calls["ok"] + 1}
    BY <1>3 DEF TypeOK
  <2> QED
    BY <1>2, <1>3, <2>1
<1>4. ASSUME NEW c \in Invocations, Refuse(c) \/ CacheHit(c) PROVE CacheInv'
  <2>1. Refusal(c) # "none" => Refusal(c) \in Recorded
    BY Allowed
  <2> QED
    BY <1>3, <1>4, <2>1 DEF Refuse, CacheHit, Return
<1>5. ASSUME NEW c \in Invocations, Launch(c) PROVE CacheInv'
  BY <1>5 DEF Launch, Hits
<1>6. ASSUME NEW count \in 1..2, RecordRecipeQueries(count) PROVE CacheInv'
  BY <1>3, <1>6, CallsAreSequential DEF RecordRecipeQueries, Return
<1>7. CASE SpawnFails \/ PollFails \/ JoinFails
  BY <1>3, <1>7 DEF SpawnFails, PollFails, JoinFails, Return
<1>8. CASE GraceReap \/ Reap
  <2>1. UNCHANGED cache /\ pc' = "idle" /\ calls' = [calls EXCEPT ![why] = @ + 1]
    BY <1>8 DEF GraceReap, Reap, Return
  <2>2. calls'["ok"] = calls["ok"]
    BY <2>1 DEF TypeOK
  <2> QED
    BY <2>1, <2>2
<1>9. CASE Join
  <2> DEFINE entry == [key |-> command.key, output |-> Output]
             outcome == IF seen = "success" THEN "ok" ELSE "non-zero"
  <2>1. /\ pc' = "idle" /\ calls' = [calls EXCEPT ![outcome] = @ + 1]
        /\ pc = "join"
    BY <1>9 DEF Join, Return
  <2>2. CASE seen = "success" /\ command.cacheable
    <3>1. cache' = cache \cup {entry} /\ calls'["ok"] = calls["ok"] + 1
      BY <1>9, <2>1, <2>2 DEF Join, TypeOK
    <3>2. \A e \in cache : e.key # entry.key
      BY <2>1, <2>2
    <3>3. /\ IsFiniteSet(cache')
          /\ Cardinality(cache') \in {Cardinality(cache), Cardinality(cache) + 1}
      BY <3>1, FS_AddElement
    <3> HIDE DEF entry
    <3>4. \A e1, e2 \in cache' : e1.key = e2.key => e1 = e2
      BY <3>1, <3>2
    <3>5. Cardinality(cache') <= calls'["ok"]
      BY <1>2, <3>1, <3>3
    <3> QED
      BY <2>1, <3>3, <3>4, <3>5
  <2>3. CASE ~ (seen = "success" /\ command.cacheable)
    <3>1. UNCHANGED cache
      BY <1>9, <2>3 DEF Join
    <3> QED
      BY <1>3, <2>1, <3>1
  <2> QED
    BY <2>2, <2>3
<1>10. CASE SpawnBusy \/ Spawn \/ Poll \/ CheckExit \/ GraceOver
            \/ \E s \in Streams : CheckFlag(s)
  <2>1. UNCHANGED <<cache, calls, command>> /\ pc # "idle"
    BY <1>10 DEF SpawnBusy, Spawn, Poll, CheckExit, GraceOver, CheckFlag
  <2> QED
    BY <2>1
<1> QED
  BY <1>1, <1>4, <1>5, <1>6, <1>7, <1>8, <1>9, <1>10, RunnerSteps
  DEF Surroundings, Progress

----------------------------------------------------------------------------
(* The invariant holds before the first call.                              *)
LEMMA InitiallyIdle == Init => RunnerInv
<1> SUFFICES ASSUME Init PROVE RunnerInv
  OBVIOUS
<1> USE DEF Init
<1>1. stats \in StatsType /\ BudgetsHeld /\ Balanced
  BY LimitsAssumption DEF StatsType, BudgetsHeld, Balanced
<1>2. result \in [kind : Outcomes \cup {"none"}, output : OutputType]
  BY OutputTyped DEF NoResult
<1>3. TypeOK
  <2>1. /\ sent \in [Streams -> Nat] /\ got \in [Streams -> 0..Limit]
        /\ reader \in [Streams -> ReaderState] /\ calls \in [Outcomes -> Nat]
    BY LimitsAssumption DEF ReaderState
  <2>2. command \in Invocations \cup {NoCommand} /\ retries \in 0..BusyRetries
    BY DEF BusyRetries
  <2> QED
    BY <1>1, <1>2, <2>1, <2>2 DEF TypeOK
<1>4. ReasonInv /\ ScheduleInv /\ ChildInv
  BY DEF ReasonInv, ScheduleInv, ChildInv
<1>5. PipeInv /\ OutputInv
  BY DEF PipeInv, OutputInv, NoResult
<1>6. CacheInv
  BY FS_EmptySet DEF CacheInv, CacheHoldsSuccesses
<1> QED
  BY <1>1, <1>3, <1>4, <1>5, <1>6 DEF RunnerInv

(* The invariant holds in every state of every behaviour.                  *)
THEOREM RunnerInvariance == Spec => []RunnerInv
<1>1. RunnerInv /\ [Next]_vars => RunnerInv'
  BY TypeKept, ReasonKept, BudgetsKept, ChildKept, BalanceKept, PipeKept,
     OutputKept, CacheKept DEF RunnerInv
<1> QED
  BY InitiallyIdle, <1>1, PTL DEF Spec

(* The state stays well typed; in particular no reader holds more than the *)
(* limit.                                                                  *)
THEOREM RunnerTyped == Spec => []TypeOK
  BY RunnerInvariance, PTL DEF RunnerInv

(* The budgets hold over the whole operation.                              *)
THEOREM BudgetsNeverExceeded == Spec => []BudgetsHeld
  BY RunnerInvariance, PTL DEF RunnerInv

(* Every way out of run reaps the child and records one outcome.           *)
THEOREM EveryCommandEndsOnce == Spec => []EndedOnce
<1>1. RunnerInv => EndedOnce
  BY DEF RunnerInv, EndedOnce, ChildReaped, ChildInv, Accounting, Balanced
<1> QED
  BY RunnerInvariance, <1>1, PTL

(* A success is never returned with a truncated output that does not say   *)
(* so, neither fresh nor from the cache.                                   *)
THEOREM SuccessesAreComplete == Spec => []OutputComplete
<1>1. RunnerInv => OutputComplete
  BY DEF RunnerInv, OutputInv, OutputComplete, Complete
<1> QED
  BY RunnerInvariance, <1>1, PTL

(* The cache has one entry for a key, and no more entries than successes.  *)
THEOREM CacheIsEarned == Spec => []CacheHoldsSuccesses
  BY RunnerInvariance, PTL DEF RunnerInv, CacheInv
=============================================================================
