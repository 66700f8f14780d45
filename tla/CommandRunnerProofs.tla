------------------------ MODULE CommandRunnerProofs ------------------------
(***************************************************************************)
(* Proofs about CommandRunner for any number of commands and any batch      *)
(* size, and that it implements ParallelCommands.                          *)
(***************************************************************************)
EXTENDS CommandRunner, TLAPS, FiniteSetTheorems

(* Commands before the current batch have ended and those after it have not *)
(* been started; the failures are exactly those of the former.              *)
RunnerInv ==
  /\ TypeOK
  /\ pc = "returned" => first > N
  /\ \A c \in Commands : c < first => c \in Ended
  /\ \A c \in Commands : c >= first + Batch => status[c] = "waiting"
  /\ pc = "poll" => \A c \in Chunk : status[c] # "waiting"
  /\ failures = {c \in Commands : c < first /\ status[c] = "positive"}

(* RunnerInv holds at first.                                                 *)
LEMMA RunnerInit == Init => RunnerInv
<1> SUFFICES ASSUME Init PROVE RunnerInv
  OBVIOUS
<1>1. TypeOK
  BY RunnerAssumption DEF Init, TypeOK
<1>2. \A c \in Commands : ~ (c < first)
  BY RunnerAssumption DEF Init, Commands
<1> QED BY <1>1, <1>2 DEF Init, RunnerInv

(* Every step keeps RunnerInv.                                               *)
LEMMA RunnerNext == RunnerInv /\ [Next]_vars => RunnerInv'
<1> SUFFICES ASSUME RunnerInv, [Next]_vars PROVE RunnerInv'
  OBVIOUS
<1>a. /\ N \in Nat /\ Batch \in Nat \ {0} /\ first \in Nat \ {0}
      /\ \A c \in Commands : c \in Nat
      /\ TypeOK
  BY RunnerAssumption DEF RunnerInv, TypeOK, Commands
<1>1. ASSUME NEW c \in Commands, Launch(c) PROVE RunnerInv'
  <2>1. c >= first /\ c < first + Batch /\ UNCHANGED <<first, pc, failures>>
        /\ status' = [status EXCEPT ![c] = "running"] /\ pc = "launch"
        /\ status[c] = "waiting"
    BY <1>1, <1>a DEF Launch, Chunk
  <2>2. TypeOK'
    BY <1>a, <2>1 DEF TypeOK
  <2>3. \A d \in Commands : d # c => status'[d] = status[d]
    BY <1>a, <2>1 DEF TypeOK
  <2>4. \A d \in Commands : d < first => d # c
    BY <1>a, <2>1
  <2>5. \A d \in Commands : d >= first + Batch => d # c
    BY <1>a, <2>1
  <2>6. \A d \in Commands : d < first => d \in Ended'
    BY <2>3, <2>4 DEF RunnerInv, Ended
  <2>7. failures' = {d \in Commands : d < first' /\ status'[d] = "positive"}
    BY <2>1, <2>3, <2>4 DEF RunnerInv
  <2> QED BY <2>1, <2>2, <2>3, <2>5, <2>6, <2>7 DEF RunnerInv
<1>2. ASSUME AllLaunched PROVE RunnerInv'
  BY <1>2 DEF AllLaunched, MoreBatches, RunnerInv, TypeOK, Ended, Chunk
<1>3. ASSUME Collect PROVE RunnerInv'
  <2>1. /\ pc = "poll" /\ UNCHANGED status /\ first' = first + Batch
        /\ failures' = failures \cup {c \in Chunk : status[c] = "positive"}
        /\ pc' = "launch"
    BY <1>3 DEF Collect, ExtendFailures
  <2>2. TypeOK'
    BY <1>a, <2>1 DEF TypeOK, Chunk
  <2>3. \A c \in Commands : c < first' => c < first \/ c \in Chunk
    BY <1>a, <2>1 DEF Chunk
  <2>4. \A c \in Chunk : c \in Ended /\ c < first'
    BY <1>3, <2>1 DEF Collect, AllCompleted, Ended, Chunk
  <2>5. \A c \in Commands : c < first' => c \in Ended'
    BY <2>1, <2>3, <2>4 DEF RunnerInv, Ended
  <2>6. \A c \in Commands : c < first => c < first'
    BY <1>a, <2>1
  <2>7. failures' = {c \in Commands : c < first' /\ status'[c] = "positive"}
    BY <2>1, <2>3, <2>4, <2>6 DEF RunnerInv, Chunk
  <2>8. \A c \in Commands : c >= first' + Batch => c >= first + Batch
    BY <1>a, <2>1
  <2>9. \A c \in Commands : c >= first' + Batch => status'[c] = "waiting"
    BY <2>1, <2>8 DEF RunnerInv
  <2> QED BY <2>1, <2>2, <2>5, <2>7, <2>9 DEF RunnerInv
<1>4. ASSUME NEW c \in Commands, ChildEnds(c) PROVE RunnerInv'
  <2>1. PICK s \in Statuses : status' = [status EXCEPT ![c] = s]
    BY <1>4 DEF ChildEnds
  <2>2. status[c] = "running" /\ UNCHANGED <<first, pc, failures>>
    BY <1>4 DEF ChildEnds
  <2>3. TypeOK'
    BY <1>a, <2>1, <2>2 DEF TypeOK
  <2>4. c \notin Ended
    BY <2>2 DEF Ended, Statuses
  <2>5. ~ (c < first) /\ ~ (c >= first + Batch)
    BY <2>2, <2>4 DEF RunnerInv
  <2>6. \A d \in Commands : d # c => status'[d] = status[d]
    BY <1>a, <2>1 DEF TypeOK
  <2>7. status'[c] \in Statuses
    BY <1>a, <2>1 DEF TypeOK
  <2>8. \A d \in Commands : d < first => d \in Ended'
    BY <2>5, <2>6 DEF RunnerInv, Ended
  <2>9. failures' = {d \in Commands : d < first' /\ status'[d] = "positive"}
    BY <2>2, <2>5, <2>6 DEF RunnerInv
  <2>10. pc' = "poll" => \A d \in Chunk' : status'[d] # "waiting"
    BY <2>2, <2>6, <2>7 DEF RunnerInv, Chunk, Statuses
  <2> QED BY <2>2, <2>3, <2>5, <2>6, <2>8, <2>9, <2>10 DEF RunnerInv
<1>5. ASSUME Vanish PROVE RunnerInv'
  BY <1>5 DEF Vanish, RunnerInv, TypeOK, Ended, Chunk
<1>6. ASSUME UNCHANGED vars PROVE RunnerInv'
  BY <1>6 DEF vars, RunnerInv, TypeOK, Ended, Chunk
<1>7. ASSUME Return PROVE RunnerInv'
  BY <1>7, RunnerAssumption DEF Return, MoreBatches, RunnerInv, TypeOK, Ended
<1> QED BY <1>1, <1>2, <1>3, <1>4, <1>5, <1>6, <1>7 DEF Next, XpkStep

(* RunnerInv always holds.                                                   *)
LEMMA RunnerInvariant == Spec => []RunnerInv
BY RunnerInit, RunnerNext, PTL DEF Spec

(* Only the current batch runs, and a batch has at most Batch commands.     *)
THEOREM AtMostBatch == Spec => []AtMostBatchRun
<1>1. RunnerInv => AtMostBatchRun
  <2> SUFFICES ASSUME RunnerInv PROVE AtMostBatchRun
    OBVIOUS
  <2> DEFINE running == {c \in Commands : status[c] = "running"}
             interval == first .. (first + Batch - 1)
  <2>1. /\ Batch \in Nat \ {0} /\ first \in Nat \ {0}
        /\ \A c \in Commands : c \in Int
    BY RunnerAssumption DEF RunnerInv, TypeOK, Commands
  <2>2. \A c \in running : c >= first /\ c < first + Batch
    BY <2>1 DEF RunnerInv, Ended, Statuses
  <2>3. running \subseteq interval
    BY <2>1, <2>2
  <2>4. IsFiniteSet(interval) /\ Cardinality(interval) = Batch
    <3>1. first \in Int /\ first + Batch - 1 \in Int /\ ~ (first > first + Batch - 1)
      BY <2>1
    <3> QED BY <2>1, <3>1, FS_Interval
  <2>5. Cardinality(running) <= Cardinality(interval)
    BY <2>3, <2>4, FS_Subset
  <2> QED BY <2>4, <2>5 DEF AtMostBatchRun
<1> QED BY RunnerInvariant, <1>1, PTL

(* When the call returns, every command of every batch has ended and the    *)
(* result is exactly the commands that ended with a positive status.        *)
THEOREM CompleteReport == Spec => []ReportIsComplete
<1>1. RunnerInv => ReportIsComplete
  <2> SUFFICES ASSUME RunnerInv, pc = "returned"
               PROVE  Ended = Commands
                      /\ failures = {c \in Commands : status[c] = "positive"}
    BY DEF ReportIsComplete
  <2>1. \A c \in Commands : c < first
    BY RunnerAssumption DEF RunnerInv, TypeOK, Commands
  <2> QED BY <2>1 DEF RunnerInv, Ended
<1> QED BY RunnerInvariant, <1>1, PTL
-----------------------------------------------------------------------------
(* Batches begin at multiples of their size.                                *)
Aligned == \E k \in Nat : first = k * Batch + 1

(* The first batch starts at the first command.                              *)
LEMMA AlignedInit == Init => Aligned
<1> SUFFICES ASSUME Init PROVE Aligned
  OBVIOUS
<1>1. first = 0 * Batch + 1
  BY RunnerAssumption DEF Init
<1> QED BY <1>1 DEF Aligned

(* Every batch starts a multiple of Batch after the first.                   *)
LEMMA AlignedNext == Aligned /\ [Next]_vars => Aligned'
<1> SUFFICES ASSUME Aligned, [Next]_vars PROVE Aligned'
  OBVIOUS
<1>1. CASE UNCHANGED first
  BY <1>1, RunnerAssumption DEF Aligned
<1>2. CASE Collect
  <2>1. PICK k \in Nat : first = k * Batch + 1
    BY DEF Aligned
  <2>2. first' = (k + 1) * Batch + 1
    BY <1>2, <2>1, RunnerAssumption DEF Collect
  <2> QED BY <2>1, <2>2, RunnerAssumption DEF Aligned
<1> QED
  BY <1>1, <1>2
  DEF Next, XpkStep, AllLaunched, Return, Launch, Vanish, ChildEnds, vars

(* The batch of a command, compared without division.                       *)
LEMMA BatchNumber ==
  ASSUME NEW a \in Nat, NEW k \in Nat
  PROVE  a \div Batch < k <=> a < k * Batch
BY RunnerAssumption, SMTT(30)

(* Whatever the number of commands, and whenever children end or xpk does:  *)
(* no command of a batch starts before all those of earlier batches ended.  *)
THEOREM OrderedBatches == Spec => []BatchesInOrder
<1>1. RunnerInv /\ Aligned => BatchesInOrder
  <2> SUFFICES ASSUME RunnerInv, Aligned, NEW c \in Commands, NEW d \in Commands,
                      (c - 1) \div Batch < (d - 1) \div Batch,
                      status[d] # "waiting"
               PROVE  c \in Ended
    BY DEF BatchesInOrder
  <2>1. PICK k \in Nat : first = k * Batch + 1
    BY DEF Aligned
  <2>2. /\ Batch \in Nat \ {0} /\ first \in Nat \ {0}
        /\ c \in Nat \ {0} /\ d \in Nat \ {0}
    BY RunnerAssumption DEF RunnerInv, TypeOK, Commands
  <2>3. d < first + Batch
    BY <2>2 DEF RunnerInv
  <2>4. (d - 1) \div Batch < k + 1
    <3>1. d - 1 < (k + 1) * Batch
      BY <2>1, <2>2, <2>3
    <3>2. d - 1 \in Nat /\ k + 1 \in Nat
      BY <2>2
    <3> QED BY <3>1, <3>2, BatchNumber
  <2>5. (c - 1) \div Batch < k
    <3>1. (c - 1) \div Batch \in Int /\ (d - 1) \div Batch \in Int
      BY <2>2
    <3> QED BY <2>4, <3>1
  <2>6. c < first
    <3>1. c - 1 < k * Batch
      BY <2>2, <2>5, BatchNumber
    <3> QED BY <2>1, <2>2, <3>1
  <2> QED BY <2>6 DEF RunnerInv
<1> QED BY RunnerInvariant, AlignedInit, AlignedNext, <1>1, PTL DEF Spec
-----------------------------------------------------------------------------
(* Initial states map to initial states.                                     *)
LEMMA RefinementInit == Init => Abstract!Init
<1> SUFFICES ASSUME Init PROVE Abstract!Init
  OBVIOUS
<1>1. Ended = {} /\ pc = "launch"
  BY DEF Init, Ended, Statuses
<1> QED BY <1>1 DEF Abstract!Init, Outcome

(* Starting children and moving from batch to batch is invisible; a child's *)
(* end is End, the return from the last batch Return.                      *)
LEMMA RefinementNext ==
  RunnerInv /\ [Next]_vars => [Abstract!Next]_(Abstract!vars)
<1> SUFFICES ASSUME RunnerInv, [Next]_vars
             PROVE  Abstract!Next \/ UNCHANGED Abstract!vars
  OBVIOUS
<1> USE DEF Abstract!vars
<1>a. status \in [Commands -> {"waiting", "running"} \cup Statuses]
  BY DEF RunnerInv, TypeOK
<1>1. ASSUME NEW c \in Commands, Launch(c) PROVE UNCHANGED Abstract!vars
  <2>1. Ended' = Ended /\ \A d \in Ended : status'[d] = status[d]
    BY <1>1, <1>a DEF Launch, Ended, Statuses
  <2> QED BY <1>1, <2>1 DEF Launch, Outcome
<1>2. ASSUME AllLaunched \/ UNCHANGED vars PROVE UNCHANGED Abstract!vars
  BY <1>2 DEF AllLaunched, MoreBatches, vars, Outcome, Ended
<1>3. ASSUME Collect PROVE UNCHANGED Abstract!vars
  BY <1>3 DEF Collect, Outcome, Ended
<1>4. ASSUME NEW c \in Commands, ChildEnds(c) PROVE Abstract!End(c)
  <2>1. PICK s \in Statuses : status' = [status EXCEPT ![c] = s]
    BY <1>4 DEF ChildEnds
  <2>2. c \notin Ended /\ UNCHANGED <<pc, failures>>
    BY <1>4 DEF ChildEnds, Ended, Statuses
  <2>3. Ended' = Ended \cup {c} /\ status'[c] = s
        /\ \A d \in Commands : d # c => status'[d] = status[d]
    BY <1>a, <2>1 DEF Ended
  <2>4. Outcome' = [Outcome EXCEPT ![c] = s]
    BY <2>3 DEF Outcome
  <2>5. Outcome[c] = "open"
    BY <2>2 DEF Outcome
  <2>6. s \in Abstract!Statuses
    BY DEF Statuses, Abstract!Statuses
  <2> QED BY <2>2, <2>4, <2>5, <2>6 DEF Abstract!End
<1>5. ASSUME Return PROVE Abstract!Return
  <2>1. pc = "launch" /\ pc' = "returned" /\ UNCHANGED <<status, failures>>
    BY <1>5 DEF Return, MoreBatches
  <2>2. \A c \in Commands : c < first
    BY <1>5, RunnerAssumption DEF Return, MoreBatches, RunnerInv, TypeOK, Commands
  <2>3. Ended = Commands /\ failures = {c \in Commands : status[c] = "positive"}
    BY <2>2 DEF RunnerInv, Ended
  <2>4. \A c \in Commands : Outcome[c] = status[c] /\ status[c] \in Statuses
    BY <2>3 DEF Outcome, Ended
  <2>5. Outcome' = Outcome
    BY <2>1 DEF Outcome, Ended
  <2> QED BY <2>1, <2>3, <2>4, <2>5 DEF Abstract!Return, Statuses
<1>6. ASSUME Vanish PROVE Abstract!Vanish
  BY <1>6 DEF Vanish, Abstract!Vanish, Outcome, Ended
<1> QED
  BY <1>1, <1>2, <1>3, <1>4, <1>5, <1>6
  DEF Next, XpkStep, Abstract!Next

(* For any number of commands and any batch size, run_commands looks like   *)
(* one parallel run of all commands.                                       *)
THEOREM ImplementsParallelCommands == Spec => RunsAllCommands
BY RefinementInit, RefinementNext, RunnerInvariant, PTL
DEF Spec, RunsAllCommands, Abstract!Spec
=============================================================================
