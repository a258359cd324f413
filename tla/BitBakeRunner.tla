--------------------------- MODULE BitBakeRunner ---------------------------
(***************************************************************************)
(* The bounded subprocess boundary of src/bitbake.rs.  One operation owns  *)
(* a BitBakeRunner and calls run for one command after another.  run       *)
(* spawns the command as the leader of a process group, two threads drain  *)
(* its pipes, and a poll loop watches the child, the cancellation token,   *)
(* the readers' flags and two deadlines; terminate_child ends the group.   *)
(*                                                                         *)
(* The runner, the two readers, the child, a descendant that inherits the  *)
(* pipes, the canceller and the clock are processes of their own.  Each    *)
(* atomic load of the poll loop and each store of a reader is a step.      *)
(***************************************************************************)
EXTENDS Naturals, FiniteSets

CONSTANTS
  Invocations,         \* the commands a caller may ask for
  MaxCommands,         \* limits.max_commands
  MaxRecipeQueries,    \* limits.max_recipe_queries
  Limit,               \* max_stdout_bytes and max_stderr_bytes, in units
  MaxSent,             \* bound: units a group writes to each of the pipes
  MaxCalls             \* bound: calls of run and record_recipe_queries

Streams == {"stdout", "stderr"}

BusyRetries == 3       \* EXECUTABLE_BUSY_RETRIES

ASSUME LimitsAssumption ==
  /\ MaxCommands \in Nat \ {0} /\ MaxRecipeQueries \in Nat \ {0}
  /\ Limit \in Nat \ {0} /\ MaxSent \in [Streams -> Nat] /\ MaxCalls \in Nat

(* A recipe query is never cacheable: only Version and Parse are.          *)
ASSUME InvocationsAssumption ==
  \A c \in Invocations : /\ c.cacheable \in BOOLEAN /\ c.recipe \in BOOLEAN
                         /\ ~ (c.cacheable /\ c.recipe)

VARIABLES
  pc,         \* where run is
  command,    \* the invocation run is executing
  retries,    \* spawn attempts that met a busy executable
  seen,       \* the exit status try_wait has returned: "none" before it has
  why,        \* the error run ends with once the child is terminated
  stats,      \* BitBakeExecutionStats
  cache,      \* the outputs kept per InvocationKey
  result,     \* what the last call returned
  calls,      \* calls so far, and how often each outcome was returned
  child,      \* the direct child
  heir,       \* a descendant in the child's group that inherited the pipes
  signal,     \* the strongest signal sent to the group
  sent,       \* units written to each pipe
  got,        \* units each reader holds
  reader,     \* what each reader thread has done, and stored in its flags
  cancelled,  \* the cancellation token
  late,       \* the command timeout has passed
  overdue     \* the operation's total timeout has passed

runnerVars == <<command, retries, seen, why, stats, cache, result, calls>>
childVars  == <<child, heir, signal>>
pipeVars   == <<sent, got, reader>>
clockVars  == <<cancelled, late, overdue>>
vars == <<pc, runnerVars, childVars, pipeVars, clockVars>>

----------------------------------------------------------------------------
Limits    == {"command-budget", "recipe-query-budget", "stdout-limit", "stderr-limit"}
Timeouts  == {"timeout", "total-deadline"}
Recorded  == Limits \cup Timeouts \cup {"cancelled", "spawn", "non-zero"}
Outcomes  == Recorded \cup {"ok", "hit", "wait", "read"}
Counters  == {"succeeded", "failed", "timed_out", "cancelled", "limit_terminated"}

(* record_failure: the counter of each kind of failure.                    *)
Counter(kind) == CASE kind \in Timeouts      -> "timed_out"
                   [] kind = "cancelled"     -> "cancelled"
                   [] kind \in Limits        -> "limit_terminated"
                   [] OTHER                  -> "failed"

(* A reader reads; on overflow it stores its flag, and as its last act it  *)
(* stores its done flag: "cut" after an overflow, "ended" at the end of    *)
(* the pipe, "failed" after a read error.                                  *)
ReaderState == {"none", "read", "overflow", "cut", "ended", "failed"}
flag(s) == reader[s] \in {"overflow", "cut"}
done(s) == reader[s] \in {"cut", "ended", "failed"}

NoOutput == [missing |-> {}, overflowed |-> {}]
NoResult == [kind |-> "none", output |-> NoOutput]
NoCommand == [key |-> "none", cacheable |-> FALSE, recipe |-> FALSE]

Init ==
  /\ pc = "idle" /\ command = NoCommand /\ retries = 0
  /\ seen = "none" /\ why = "none"
  /\ stats = [total_commands |-> 0, scheduled |-> 0, completed |-> 0, cache_hits |-> 0,
              by |-> [c \in Counters |-> 0]]
  /\ cache = {}
  /\ result = NoResult
  /\ calls = [o \in Outcomes |-> 0]
  /\ child = "none" /\ heir = "none"
  /\ signal = "none"
  /\ sent = [s \in Streams |-> 0] /\ got = [s \in Streams |-> 0]
  /\ reader = [s \in Streams |-> "none"]
  /\ cancelled = FALSE /\ late = FALSE /\ overdue = FALSE

CallCount == LET C[S \in SUBSET Outcomes] ==
                   IF S = {} THEN 0
                   ELSE LET o == CHOOSE o \in S : TRUE IN calls[o] + C[S \ {o}]
             IN  C[Outcomes]

----------------------------------------------------------------------------
(* What run returns, and what it leaves behind                             *)

(* The bytes a caller gets: everything written, or less.                   *)
Output == [missing    |-> {s \in Streams : got[s] < sent[s]},
           overflowed |-> {s \in Streams : flag(s)}]

(* run returns: the Child, the flags and the join handles are dropped.     *)
Return(kind, output) ==
  /\ pc' = "idle" /\ command' = NoCommand /\ seen' = "none" /\ why' = "none"
  /\ retries' = 0
  /\ result' = [kind |-> kind, output |-> output]
  /\ calls' = [calls EXCEPT ![kind] = @ + 1]
  /\ heir' = "none" /\ signal' = "none"
  /\ sent' = [s \in Streams |-> 0] /\ got' = [s \in Streams |-> 0]
  /\ reader' = [s \in Streams |-> "none"]
  /\ late' = FALSE
  /\ UNCHANGED <<cancelled, overdue>>

RecordFailure(kind) == stats' = [stats EXCEPT !.by[Counter(kind)] = @ + 1]

----------------------------------------------------------------------------
(* run, up to the spawn                                                    *)

MayCall == pc = "idle" /\ CallCount < MaxCalls

(* The checks before a launch, in the code's order.                        *)
Refusal(c) ==
  CASE cancelled                                            -> "cancelled"
    [] overdue /\ ~ cancelled                               -> "total-deadline"
    [] /\ ~ cancelled /\ ~ overdue
       /\ stats.total_commands >= MaxCommands               -> "command-budget"
    [] /\ ~ cancelled /\ ~ overdue
       /\ stats.total_commands < MaxCommands
       /\ c.recipe /\ stats.scheduled >= MaxRecipeQueries   -> "recipe-query-budget"
    [] OTHER                                                -> "none"

Refuse(c) ==
  /\ MayCall /\ Refusal(c) # "none"
  /\ RecordFailure(Refusal(c))
  /\ Return(Refusal(c), NoOutput)
  /\ UNCHANGED <<cache, child>>

Hits(c) == {e \in cache : c.cacheable /\ e.key = c.key}

CacheHit(c) ==
  /\ MayCall /\ Refusal(c) = "none"
  /\ \E e \in Hits(c) : Return("hit", e.output)
  /\ stats' = [stats EXCEPT !.cache_hits = @ + 1]
  /\ UNCHANGED <<cache, child>>

Launch(c) ==
  /\ MayCall /\ Refusal(c) = "none" /\ Hits(c) = {}
  /\ command' = c
  /\ result' = NoResult
  /\ stats' = [stats EXCEPT !.total_commands = @ + 1,
                            !.scheduled = IF c.recipe THEN @ + 1 ELSE @]
  /\ pc' = "spawn"
  /\ UNCHANGED <<retries, seen, why, cache, calls, childVars, pipeVars, clockVars>>

(* retry_executable_busy                                                   *)
SpawnBusy ==
  /\ pc = "spawn" /\ retries < BusyRetries
  /\ retries' = retries + 1
  /\ UNCHANGED <<pc, command, seen, why, stats, cache, result, calls, childVars,
                 pipeVars, clockVars>>

SpawnFails ==
  /\ pc = "spawn"
  /\ RecordFailure("spawn")
  /\ Return("spawn", NoOutput)
  /\ UNCHANGED <<cache, child>>

Spawn ==
  /\ pc = "spawn"
  /\ child' = "running"
  /\ heir' \in {"none", "running"}
  /\ reader' = [s \in Streams |-> "read"]
  /\ retries' = 0
  /\ pc' = "poll"
  /\ UNCHANGED <<command, seen, why, stats, cache, result, calls, signal, sent,
                 got, clockVars>>

----------------------------------------------------------------------------
(* The poll loop                                                           *)

(* terminate_child begins: SIGTERM to the group.                           *)
Terminate(kind) ==
  /\ why' = kind
  /\ signal' = "term"
  /\ pc' = "grace"

(* try_wait reaps a child that has exited; then the token is read.         *)
Poll ==
  /\ pc = "poll"
  /\ IF child = "zombie"
     THEN child' = "reaped" /\ seen' \in {"success", "failure"}
     ELSE UNCHANGED <<child, seen>>
  /\ IF cancelled THEN Terminate("cancelled")
                  ELSE pc' = "stdout" /\ UNCHANGED <<why, signal>>
  /\ UNCHANGED <<command, retries, stats, cache, result, calls, heir, pipeVars, clockVars>>

(* try_wait fails: the kernel discarded the exit status because SIGCHLD is *)
(* ignored.  `?` returns without a record.                                 *)
PollFails ==
  /\ pc = "poll" /\ child = "zombie"
  /\ child' = "reaped"
  /\ Return("wait", NoOutput)
  /\ UNCHANGED <<stats, cache>>

LimitOf(s) == IF s = "stdout" THEN "stdout-limit" ELSE "stderr-limit"

CheckFlag(s) ==
  /\ pc = s
  /\ IF flag(s) THEN Terminate(LimitOf(s))
     ELSE /\ pc' = IF s = "stdout" THEN "stderr" ELSE "exit"
          /\ UNCHANGED <<why, signal>>
  /\ UNCHANGED <<command, retries, seen, stats, cache, result, calls, child, heir, pipeVars, clockVars>>

Finished == seen # "none" /\ \A s \in Streams : done(s)

(* Seeded fault: the deadlines stop counting once the child has exited.    *)
CheckExitDeadChild ==
  /\ pc = "exit"
  /\ IF Finished THEN pc' = "join" /\ UNCHANGED <<why, signal>>
     ELSE IF late /\ seen = "none" THEN Terminate("timeout")
     ELSE pc' = "poll" /\ UNCHANGED <<why, signal>>
  /\ UNCHANGED <<command, retries, seen, stats, cache, result, calls, child, heir, pipeVars, clockVars>>

CheckExit ==
  /\ pc = "exit"
  /\ IF Finished THEN pc' = "join" /\ UNCHANGED <<why, signal>>
     ELSE IF late THEN Terminate("timeout")
     ELSE IF overdue THEN Terminate("total-deadline")
     ELSE pc' = "poll" /\ UNCHANGED <<why, signal>>
  /\ UNCHANGED <<command, retries, seen, stats, cache, result, calls, child, heir, pipeVars, clockVars>>

(* terminate_child: poll for the direct child during the grace period.     *)
GraceReap ==
  /\ pc = "grace" /\ child \in {"zombie", "reaped"}
  /\ child' = "reaped"
  /\ RecordFailure(why)
  /\ Return(why, NoOutput)
  /\ UNCHANGED cache

GraceOver ==
  /\ pc = "grace" /\ child = "running"
  /\ signal' = "kill"
  /\ pc' = "reap"
  /\ UNCHANGED <<runnerVars, child, heir, pipeVars, clockVars>>

(* Seeded fault: the outcome of a killed command is not recorded.          *)
ReapUnrecorded ==
  /\ pc = "reap" /\ child = "zombie"
  /\ child' = "reaped"
  /\ Return(why, NoOutput)
  /\ UNCHANGED <<stats, cache>>

Reap ==
  /\ pc = "reap" /\ child = "zombie"
  /\ child' = "reaped"
  /\ RecordFailure(why)
  /\ Return(why, NoOutput)
  /\ UNCHANGED cache

(* A reader returned an error: `?` returns without a record.               *)
JoinFails ==
  /\ pc = "join" /\ \E s \in Streams : reader[s] = "failed"
  /\ Return("read", NoOutput)
  /\ UNCHANGED <<stats, cache, child>>

(* Seeded fault: the output of a failing command is cached.                *)
JoinCachingAll ==
  /\ pc = "join" /\ \A s \in Streams : reader[s] # "failed"
  /\ stats' = [stats EXCEPT
       !.completed = IF command.recipe THEN @ + 1 ELSE @,
       !.by[IF seen = "success" THEN "succeeded" ELSE Counter("non-zero")] = @ + 1]
  /\ cache' = IF command.cacheable
              THEN cache \cup {[key |-> command.key, output |-> Output]} ELSE cache
  /\ Return(IF seen = "success" THEN "ok" ELSE "non-zero", Output)
  /\ UNCHANGED child

Join ==
  /\ pc = "join" /\ \A s \in Streams : reader[s] # "failed"
  /\ stats' = [stats EXCEPT
       !.completed = IF command.recipe THEN @ + 1 ELSE @,
       !.by[IF seen = "success" THEN "succeeded" ELSE Counter("non-zero")] = @ + 1]
  /\ cache' = IF seen = "success" /\ command.cacheable
              THEN cache \cup {[key |-> command.key, output |-> Output]} ELSE cache
  /\ Return(IF seen = "success" THEN "ok" ELSE "non-zero", Output)
  /\ UNCHANGED child

(* Seeded fault: the count is compared with the limit, not with what is    *)
(* left of it.                                                             *)
RecordRecipeQueriesUnsubtracted(count) ==
  /\ MayCall
  /\ IF count > MaxRecipeQueries
     THEN /\ RecordFailure("recipe-query-budget")
          /\ Return("recipe-query-budget", NoOutput)
     ELSE /\ stats' = [stats EXCEPT !.scheduled = @ + count, !.completed = @ + count]
          /\ UNCHANGED <<pc, command, retries, seen, why, result, calls,
                         heir, signal, pipeVars, clockVars>>
  /\ UNCHANGED <<cache, child>>

(* record_recipe_queries: the recipes a Tinfoil batch answered.            *)
RecordRecipeQueries(count) ==
  /\ MayCall
  /\ IF count > MaxRecipeQueries - stats.scheduled
     THEN /\ RecordFailure("recipe-query-budget")
          /\ Return("recipe-query-budget", NoOutput)
     ELSE /\ stats' = [stats EXCEPT !.scheduled = @ + count, !.completed = @ + count]
          /\ UNCHANGED <<pc, command, retries, seen, why, result, calls,
                         heir, signal, pipeVars, clockVars>>
  /\ UNCHANGED <<cache, child>>

----------------------------------------------------------------------------
(* spawn_reader: one thread per pipe                                       *)

PipeOpen == child = "running" \/ heir = "running"

(* read returns data that fits.                                            *)
ReadChunk(s) ==
  /\ reader[s] = "read"
  /\ \E count \in 1..(sent[s] - got[s]) :
       /\ count <= Limit - got[s]
       /\ got' = [got EXCEPT ![s] = @ + count]
  /\ UNCHANGED <<pc, runnerVars, childVars, sent, reader, clockVars>>

(* read returns more than remains: the buffer is cut at the limit and the  *)
(* overflow flag stored.                                                   *)
ReadOverflow(s) ==
  /\ reader[s] = "read" /\ sent[s] > Limit
  /\ got' = [got EXCEPT ![s] = Limit]
  /\ reader' = [reader EXCEPT ![s] = "overflow"]
  /\ UNCHANGED <<pc, runnerVars, childVars, sent, clockVars>>

(* The thread's last store follows an overflow as a step of its own.       *)
StoreDone(s) ==
  /\ reader[s] = "overflow"
  /\ reader' = [reader EXCEPT ![s] = "cut"]
  /\ UNCHANGED <<pc, runnerVars, childVars, sent, got, clockVars>>

(* Seeded fault: an empty pipe counts as its end once the child is gone.   *)
ReadEofOfChild(s) ==
  /\ reader[s] = "read" /\ got[s] = sent[s] /\ child # "running"
  /\ reader' = [reader EXCEPT ![s] = "ended"]
  /\ UNCHANGED <<pc, runnerVars, childVars, sent, got, clockVars>>

ReadEof(s) ==
  /\ reader[s] = "read" /\ got[s] = sent[s] /\ ~ PipeOpen
  /\ reader' = [reader EXCEPT ![s] = "ended"]
  /\ UNCHANGED <<pc, runnerVars, childVars, sent, got, clockVars>>

(* read fails: what was read is dropped.                                   *)
ReadError(s) ==
  /\ reader[s] = "read"
  /\ reader' = [reader EXCEPT ![s] = "failed"]
  /\ sent' = [sent EXCEPT ![s] = 0] /\ got' = [got EXCEPT ![s] = 0]
  /\ UNCHANGED <<pc, runnerVars, childVars, clockVars>>

Reader(s) == \/ ReadChunk(s) \/ ReadOverflow(s) \/ StoreDone(s)
             \/ ReadEof(s) \/ ReadError(s)

----------------------------------------------------------------------------
(* The process group, the canceller and the clock                          *)

(* A pipe whose reader overflowed or failed is closed: what is written to  *)
(* it later is not looked at.                                              *)
Write(s) ==
  /\ PipeOpen /\ sent[s] < MaxSent[s] /\ reader[s] \in {"read", "ended"}
  /\ sent' = [sent EXCEPT ![s] = @ + 1]
  /\ UNCHANGED <<pc, runnerVars, childVars, got, reader, clockVars>>

ChildExit ==
  /\ child = "running"
  /\ child' = "zombie"
  /\ UNCHANGED <<pc, runnerVars, heir, signal, pipeVars, clockVars>>

HeirExit ==
  /\ heir = "running"
  /\ heir' = "gone"
  /\ UNCHANGED <<pc, runnerVars, child, signal, pipeVars, clockVars>>

Cancel ==
  /\ ~ cancelled
  /\ cancelled' = TRUE
  /\ UNCHANGED <<pc, runnerVars, childVars, pipeVars, late, overdue>>

CommandTimeout ==
  /\ pc \notin {"idle", "spawn"} /\ ~ late
  /\ late' = TRUE
  /\ UNCHANGED <<pc, runnerVars, childVars, pipeVars, cancelled, overdue>>

TotalTimeout ==
  /\ ~ overdue
  /\ overdue' = TRUE
  /\ UNCHANGED <<pc, runnerVars, childVars, pipeVars, cancelled, late>>

Group == ChildExit \/ HeirExit \/ \E s \in Streams : Write(s)

Call == \/ \E c \in Invocations : Refuse(c) \/ CacheHit(c) \/ Launch(c)
        \/ \E count \in 1..2 : RecordRecipeQueries(count)

Progress == \/ SpawnBusy \/ SpawnFails \/ Spawn
            \/ Poll \/ PollFails \/ CheckExit \/ \E s \in Streams : CheckFlag(s)
            \/ GraceReap \/ GraceOver \/ Reap \/ JoinFails \/ Join

Next == \/ Call \/ Progress
        \/ \E s \in Streams : Reader(s)
        \/ Group \/ Cancel \/ CommandTimeout \/ TotalTimeout

Spec == Init /\ [][Next]_vars

(* The runner's thread and the readers' are scheduled, time passes, and    *)
(* SIGKILL ends the child.  Nothing makes a command exit by itself.        *)
FairSpec ==
  /\ Spec
  /\ WF_vars(Progress)
  /\ WF_vars(CommandTimeout)
  /\ WF_vars(signal = "kill" /\ ChildExit)

----------------------------------------------------------------------------
(* Properties                                                              *)

OutputType == [missing : SUBSET Streams, overflowed : SUBSET Streams]
StatsType == [total_commands : Nat, scheduled : Nat, completed : Nat,
              cache_hits : Nat, by : [Counters -> Nat]]

(* Type invariant.                                                         *)
TypeOK ==
  /\ pc \in {"idle", "spawn", "poll", "stdout", "stderr", "exit", "grace", "reap", "join"}
  /\ command \in Invocations \cup {NoCommand}
  /\ retries \in 0..BusyRetries
  /\ seen \in {"none", "success", "failure"}
  /\ why \in Recorded \cup {"none"}
  /\ stats \in StatsType
  /\ cache \subseteq [key : {c.key : c \in Invocations}, output : OutputType]
  /\ result \in [kind : Outcomes \cup {"none"}, output : OutputType]
  /\ calls \in [Outcomes -> Nat]
  /\ child \in {"none", "running", "zombie", "reaped"}
  /\ heir \in {"none", "running", "gone"}
  /\ signal \in {"none", "term", "kill"}
  /\ sent \in [Streams -> Nat] /\ got \in [Streams -> 0..Limit]
  /\ reader \in [Streams -> ReaderState]
  /\ cancelled \in BOOLEAN /\ late \in BOOLEAN /\ overdue \in BOOLEAN

(* The command and recipe budgets hold over the whole operation, whichever *)
(* way queries are counted, and no query completes that was not scheduled. *)
BudgetsHeld ==
  /\ stats.total_commands <= MaxCommands
  /\ stats.scheduled <= MaxRecipeQueries
  /\ stats.completed <= stats.scheduled

(* Every returned outcome is in exactly one counter, whichever of the ways *)
(* out of run it took; a failed try_wait or read is in none.               *)
Accounting ==
  pc = "idle" =>
    /\ stats.by["succeeded"] = calls["ok"]
    /\ stats.by["failed"] = calls["spawn"] + calls["non-zero"]
    /\ stats.by["timed_out"] = calls["timeout"] + calls["total-deadline"]
    /\ stats.by["cancelled"] = calls["cancelled"]
    /\ stats.by["limit_terminated"] =
         calls["command-budget"] + calls["recipe-query-budget"]
           + calls["stdout-limit"] + calls["stderr-limit"]
    /\ stats.cache_hits = calls["hit"]

(* run never returns while its direct child runs or is a zombie, so at     *)
(* most one command of the operation is alive ("always reap below").       *)
ChildReaped == pc \in {"idle", "spawn"} => child \in {"none", "reaped"}

(* Each command ends in one way: reaped, and recorded once.                *)
EndedOnce == ChildReaped /\ Accounting

(* A successful result, from the command or from the cache, lacks bytes    *)
(* only of a stream that exceeded its limit: output of a descendant that   *)
(* outlives the command is waited for.                                     *)
OutputComplete ==
  result.kind \in {"ok", "hit"} => result.output.missing \subseteq result.output.overflowed

(* Only successful commands are cached, once each.                         *)
CacheHoldsSuccesses ==
  /\ Cardinality(cache) <= calls["ok"]
  /\ \A e1, e2 \in cache : e1.key = e2.key => e1 = e2

(* Every call returns, though the command, or a descendant holding its     *)
(* pipes, runs forever and ignores SIGTERM.                                *)
CallsReturn == pc # "idle" ~> pc = "idle"

(* bitbake.rs: "The exact bounded output of a successful invocation."      *)
OutputExact == result.kind \in {"ok", "hit"} => result.output.missing = {}
=============================================================================
