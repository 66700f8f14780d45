--------------------------- MODULE CommandRunner ---------------------------
(***************************************************************************)
(* core/commands.py run_commands and run_command_batch: the commands are    *)
(* cut into batches; the children of a batch are started one after the      *)
(* other, polled once a second until all have ended, and those with a       *)
(* positive exit status are collected; then the next batch starts.          *)
(* Ctrl-C or an exception while starting a child ends xpk and leaves its    *)
(* children running.                                                       *)
(***************************************************************************)
EXTENDS Naturals, FiniteSets

CONSTANTS
  N,     \* number of commands
  Batch  \* commands that run in parallel

ASSUME RunnerAssumption == N \in Nat /\ Batch \in Nat \ {0}

Commands == 1 .. N

(* A child is polled as None, 0, a positive status, or minus the signal.    *)
Statuses == {"zero", "positive", "signalled"}

VARIABLES
  status,   \* "waiting", "running" or one of Statuses, for each command
  first,    \* first command of the current batch
  pc,       \* "launch", "poll", "returned" or "gone"
  failures  \* all_failures, as the set of the commands in it

vars == <<status, first, pc, failures>>

Ended == {c \in Commands : status[c] \in Statuses}
-----------------------------------------------------------------------------
(* A definition whose comment starts with WRONG is a plausible mistake in   *)
(* the one after it; no specification uses it.                             *)

(* WRONG: one command too many, which the next batch starts with again.     *)
OverlappingChunk == {c \in Commands : first <= c /\ c <= first + Batch}

(* utils/objects.py chunks *)
Chunk == {c \in Commands : first <= c /\ c < first + Batch}

(* WRONG: what is left after the last full batch is dropped.                *)
FullBatchLeft == first + Batch <= N + 1

MoreBatches == first <= N

(* WRONG: a killed child is never counted as completed.                     *)
AllExited == \A c \in Chunk : status[c] \in {"zero", "positive"}

(* WRONG: the loop ends with the first child that ends.                     *)
SomeCompleted == \E c \in Chunk : status[c] \in Statuses

AllCompleted == \A c \in Chunk : status[c] \in Statuses

(* WRONG: the failures of the last batch replace those of earlier ones.     *)
OnlyTheseFailures == {c \in Chunk : status[c] = "positive"}

ExtendFailures == failures \cup {c \in Chunk : status[c] = "positive"}
-----------------------------------------------------------------------------
Init ==
  /\ status = [c \in Commands |-> "waiting"]
  /\ first = 1 /\ failures = {}
  /\ pc = "launch"

Launch(c) ==
  /\ pc = "launch"
  /\ c \in Chunk /\ status[c] = "waiting"
  /\ \A d \in Chunk : d < c => status[d] # "waiting"
  /\ status' = [status EXCEPT ![c] = "running"]
  /\ UNCHANGED <<first, pc, failures>>

AllLaunched ==
  /\ pc = "launch" /\ MoreBatches
  /\ \A c \in Chunk : status[c] # "waiting"
  /\ pc' = "poll"
  /\ UNCHANGED <<status, first, failures>>

(* The poll that finds every child ended; one that does not only sleeps.    *)
Collect ==
  /\ pc = "poll"
  /\ AllCompleted
  /\ failures' = ExtendFailures
  /\ first' = first + Batch
  /\ pc' = "launch"
  /\ UNCHANGED status

Return ==
  /\ pc = "launch" /\ ~ MoreBatches
  /\ pc' = "returned"
  /\ UNCHANGED <<status, first, failures>>

(* Also after xpk is gone: nobody ends its children.                        *)
ChildEnds(c) ==
  /\ status[c] = "running"
  /\ \E s \in Statuses : status' = [status EXCEPT ![c] = s]
  /\ UNCHANGED <<first, pc, failures>>

Vanish ==
  /\ pc \in {"launch", "poll"}
  /\ pc' = "gone"
  /\ UNCHANGED <<status, first, failures>>

XpkStep == AllLaunched \/ Collect \/ Return \/ \E c \in Commands : Launch(c)

Next == XpkStep \/ Vanish \/ \E c \in Commands : ChildEnds(c)

Spec == Init /\ [][Next]_vars

(* The operating system goes on with xpk, and every gcloud and kubectl      *)
(* command ends some day.                                                  *)
FairSpec ==
  Spec /\ WF_vars(XpkStep) /\ \A c \in Commands : WF_vars(ChildEnds(c))
-----------------------------------------------------------------------------
TypeOK ==
  /\ status \in [Commands -> {"waiting", "running"} \cup Statuses]
  /\ first \in Nat \ {0}
  /\ pc \in {"launch", "poll", "returned", "gone"}
  /\ failures \subseteq Commands

(* At most `batch` children run at a time, counting those an interrupted    *)
(* xpk left behind.                                                        *)
AtMostBatchRun == Cardinality({c \in Commands : status[c] = "running"}) <= Batch

(* No command starts before all commands of earlier batches have ended; the *)
(* second batch of deletions never overlaps the first.                     *)
BatchesInOrder ==
  \A c, d \in Commands :
    (c - 1) \div Batch < (d - 1) \div Batch /\ status[d] # "waiting"
      => c \in Ended

(* When run_commands returns, nothing of it is running any more and its     *)
(* result names all children of all batches with a positive status.        *)
ReportIsComplete ==
  pc = "returned" =>
    /\ Ended = Commands
    /\ failures = {c \in Commands : status[c] = "positive"}

(* The polling loop ends: the call returns unless xpk is ended.             *)
Returns == <>(pc \in {"returned", "gone"})

(* The abstract specification: batches cannot be told from outside.         *)
Outcome == [c \in Commands |-> IF c \in Ended THEN status[c] ELSE "open"]
Abstract == INSTANCE ParallelCommands
  WITH outcome <- Outcome,
       result <- CASE pc = "returned" -> "returned" [] pc = "gone" -> "gone"
                   [] OTHER -> "none",
       report <- IF pc = "returned" THEN failures ELSE {}
RunsAllCommands == Abstract!Spec
=============================================================================
