-------------------------- MODULE WorkloadsProofs --------------------------
(***************************************************************************)
(* Proofs about Workloads for any processes, names, JobSets, command lines  *)
(* and number of faults.                                                   *)
(***************************************************************************)
EXTENDS Workloads, FiniteSetTheorems, TLAPS

Deleting == {"delete", "owners", "jobsets"}
Made(u) == life[u] # "unused"

(* Only JobSets that were made have a Workload object or an outcome, and    *)
(* they have a name.                                                       *)
MadeInv ==
  \A u \in Uids :
    /\ queue[u] # "none" \/ outcome[u] # "none" => Made(u)
    /\ Made(u) => name[u] \in Names

(* Which commands take which steps.                                        *)
KindInv(p) ==
  /\ pc[p] = "exists" => cmd[p].kind \in {"create", "wait"}
  /\ pc[p] \in {"list", "askAll"} => cmd[p].kind = "deleteAll"
  /\ pc[p] \in {"ask", "schedule"} => cmd[p].kind = "create"
  /\ pc[p] \in Deleting => cmd[p].kind # "wait"
  /\ pc[p] \in {"grep", "waiting", "status", "report"} => cmd[p].kind = "wait"

(* What a command line is about exists or existed, and has its name.        *)
SeenInv(p) ==
  /\ \A u \in seen[p] : Made(u)
  /\ pc[p] \in {"exists", "ask", "schedule"} \cup Deleting
     /\ cmd[p].kind # "deleteAll"
       => \A u \in seen[p] : name[u] = cmd[p].name

Targets(p) == IF cmd[p].kind = "deleteAll" THEN {name[u] : u \in seen[p]}
                                           ELSE {cmd[p].name}

(* Nothing is deleted before the user agreed, and then only what was shown. *)
ConsentInv(p) ==
  /\ pc[p] \in {"exists", "ask", "list", "askAll"} => agreed[p] = {}
  /\ pc[p] \in Deleting => Targets(p) \subseteq agreed[p]
  /\ pc[p] \in {"owners", "jobsets"}
       => \A n \in Names : todo[p][n] > 0 => n \in Targets(p)

(* What the commands that have ended have achieved.                        *)
GoneInv(p) ==
  /\ pc[p] \in {"owners", "jobsets"} /\ ~ bad[p]
       => \A u \in seen[p] : todo[p][name[u]] > 0 \/ ~ Stays(u)
  /\ pc[p] = "schedule" /\ agreed[p] # {} => \A u \in seen[p] : ~ Stays(u)

(* A successful wait has seen the workload complete.                       *)
DoneInv(p) ==
  pc[p] = "report"
    => \E u \in Uids : name[u] = cmd[p].name /\ outcome[u] = "Completed"

ProcInv(p) == /\ KindInv(p) /\ SeenInv(p) /\ ConsentInv(p) /\ GoneInv(p)
              /\ DoneInv(p)

WorkloadsInv == MadeInv /\ \A p \in Procs : ProcInv(p)
-----------------------------------------------------------------------------
ServerType ==
  /\ name \in [Uids -> Names \cup {NoName}]
  /\ life \in [Uids -> {"unused", "live", "gone"}]
  /\ outcome \in [Uids -> {"none", "Completed", "Failed"}]
  /\ owner \in [Uids -> {"none", "there", "deleted"}]
  /\ queue \in [Uids -> {"none", "gone"} \cup Listed]
  /\ \A u, v \in Uids :
       life[u] = "live" /\ life[v] = "live" /\ name[u] = name[v] => u = v

LocalType ==
  /\ pc \in [Procs -> Stopped \cup Running]
  /\ cmd \in [Procs -> Command]
  /\ seen \in [Procs -> SUBSET Uids]
  /\ agreed \in [Procs -> SUBSET (Names \cup {NoName})]
  /\ todo \in [Procs -> [Names -> Nat]]
  /\ bad \in [Procs -> BOOLEAN]

(* TypeOK in its three parts.                                                *)
LEMMA TypeParts ==
  /\ TypeOK => ServerType /\ LocalType /\ faults \in 0 .. MaxFaults
  /\ ServerType' /\ LocalType' /\ faults' \in 0 .. MaxFaults => TypeOK'
BY DEF TypeOK, ServerType, LocalType

(* The bound on failures is kept.                                            *)
LEMMA FaultType ==
  ASSUME faults \in 0 .. MaxFaults, Fault \/ UNCHANGED faults
  PROVE  faults' \in 0 .. MaxFaults
BY WorkloadsAssumption DEF Fault

(* Idle is a command.                                                        *)
LEMMA IdleIsCommand == Idle \in Command
BY WorkloadsAssumption DEF Idle, Command

(* The kinds of commands, and which of them name a workload.                 *)
LEMMA CommandFacts ==
  ASSUME NEW c \in Command
  PROVE  /\ c.kind \in {"create", "delete", "wait", "deleteAll"}
         /\ c.kind # "deleteAll" => c.name \in Names
BY DEF Command

(* The batch has a command for exactly the names to delete.                 *)
LEMMA CommandsFacts ==
  ASSUME TypeOK, NEW p \in Procs
  PROVE  /\ Commands(p) \in [Names -> Nat]
         /\ \A n \in Names : Commands(p)[n] > 0 <=> n \in Targets(p)
<1>1. CASE cmd[p].kind = "deleteAll"
  <2>1. ASSUME NEW n \in Names
        PROVE  LET S == {u \in seen[p] : name[u] = n}
               IN  Cardinality(S) \in Nat /\ (Cardinality(S) > 0 <=> S # {})
    <3> DEFINE S == {u \in seen[p] : name[u] = n}
    <3>1. S \in SUBSET Uids
      BY DEF TypeOK
    <3>2. IsFiniteSet(S)
      BY <3>1, FS_Subset, WorkloadsAssumption
    <3>3. Cardinality(S) \in Nat
      BY <3>2, FS_CardinalityType
    <3>4. Cardinality(S) = 0 <=> S = {}
      BY <3>2, FS_EmptySet
    <3> QED
      BY <3>3, <3>4
  <2>2. \A n \in Names : {u \in seen[p] : name[u] = n} # {}
                          <=> n \in {name[u] : u \in seen[p]}
    OBVIOUS
  <2> QED
    BY <1>1, <2>1, <2>2 DEF Commands, Targets
<1>2. CASE cmd[p].kind # "deleteAll"
  BY <1>2 DEF Commands, Targets
<1> QED
  BY <1>1, <1>2

(* A process that exits keeps its types.                                     *)
LEMMA ExitType ==
  ASSUME LocalType, NEW p \in Procs, NEW code \in Stopped, Exit(p, code)
  PROVE  LocalType'
BY IdleIsCommand DEF LocalType, Exit, Goto, Nothing

(* A process that goes on or exits keeps its types.                          *)
LEMMA FollowType ==
  ASSUME LocalType, NEW p \in Procs, NEW l \in Stopped \cup Running, Follow(p, l)
  PROVE  LocalType'
<1>1. CASE l \in Stopped
  BY <1>1, ExitType DEF Follow
<1>2. CASE l \notin Stopped
  BY <1>2 DEF Follow, LocalType, Goto, local
<1> QED
  BY <1>1, <1>2

(* Type correctness of one step of a process.                              *)
LEMMA XpkStepType ==
  ASSUME TypeOK, NEW p \in Procs, XpkStep(p) \/ Abort(p)
  PROVE  TypeOK'
<1> SUFFICES LocalType' /\ ServerType' /\ faults' \in 0 .. MaxFaults
  BY TypeParts
<1>1. LocalType /\ ServerType /\ faults \in 0 .. MaxFaults
  BY TypeParts
<1>2. "ok" \in Stopped /\ "failed" \in Stopped
  BY DEF Stopped
<1>3. UNCHANGED server => ServerType'
  BY <1>1 DEF ServerType, server
<1>4. CASE CheckExists(p)
  <2>1. CASE RowsOf(cmd[p].name) = {}
    <3>1. \E l \in {"failed", "schedule"} : Follow(p, l)
      BY <1>4, <2>1 DEF CheckExists
    <3> QED
      BY <1>1, <1>3, <1>4, <3>1, FollowType, FaultType
      DEF CheckExists, Stopped, Running
  <2>2. CASE RowsOf(cmd[p].name) # {}
    <3>1. RowsOf(cmd[p].name) \in SUBSET Uids
      BY DEF RowsOf, Rows
    <3>2. LocalType'
      BY <1>1, <1>4, <2>2, <3>1 DEF CheckExists, LocalType, Goto, Running
    <3> QED
      BY <1>1, <1>3, <1>4, <3>2 DEF CheckExists
  <2> QED
    BY <2>1, <2>2
<1>5. CASE AgreeToOverwrite(p)
  <2>1. cmd[p].name \in Names \cup {NoName}
    BY <1>1 DEF LocalType, Command
  <2>2. LocalType'
    BY <1>1, <1>5, <2>1 DEF AgreeToOverwrite, LocalType, Goto, Running
  <2> QED
    BY <1>1, <1>3, <1>5, <2>2 DEF AgreeToOverwrite
<1>6. CASE RefuseToOverwrite(p) \/ RefuseToDelete(p) \/ Reject(p)
           \/ Report(p) \/ ApplyToExisting(p)
  BY <1>1, <1>2, <1>3, <1>6, ExitType
  DEF RefuseToOverwrite, RefuseToDelete, Reject, Report, ApplyToExisting
<1>7. CASE List(p)
  <2>1. Filtered(cmd[p]) \in SUBSET Uids
    BY DEF Filtered, Rows
  <2>2. CASE Exit(p, "ok") /\ UNCHANGED <<server, faults>>
    BY <1>1, <1>2, <1>3, <2>2, ExitType
  <2>3. CASE ~ Exit(p, "ok")
    <3>1. LocalType'
      BY <1>1, <1>7, <2>1, <2>3 DEF List, LocalType, Goto, Running
    <3> QED
      BY <1>1, <1>3, <1>7, <3>1 DEF List
  <2> QED
    BY <1>7, <2>2, <2>3 DEF List
<1>8. CASE AgreeToDelete(p)
  <2>1. {name[u] : u \in seen[p]} \subseteq Names \cup {NoName}
    BY <1>1 DEF LocalType, ServerType
  <2>2. LocalType'
    BY <1>1, <1>8, <2>1 DEF AgreeToDelete, LocalType, Goto, Running
  <2> QED
    BY <1>1, <1>3, <1>8, <2>2 DEF AgreeToDelete
<1>9. CASE CheckPathways(p)
  <2>1. LocalType'
    BY <1>1, <1>9, CommandsFacts DEF CheckPathways, LocalType, Goto, Running
  <2> QED
    BY <1>1, <1>3, <1>9, <2>1, FaultType DEF CheckPathways
<1>10. ASSUME NEW n \in Names, DeleteOwner(p, n) \/ DeleteJobset(p, n)
       PROVE  LocalType' /\ ServerType' /\ faults' \in 0 .. MaxFaults
  <2>1. UNCHANGED <<pc, cmd, seen, agreed>> /\ (\E b \in BOOLEAN : Ended(p, n, b))
        /\ todo[p][n] > 0 /\ (Fault \/ UNCHANGED faults)
    BY <1>10 DEF DeleteOwner, DeleteJobset
  <2>2. LocalType'
    BY <1>1, <2>1 DEF LocalType, Ended
  <2>3. CASE DeleteOwner(p, n)
    <3>1. /\ owner' \in [Uids -> {"none", "there", "deleted"}]
          /\ UNCHANGED <<name, life, outcome, queue>>
      BY <1>1, <2>3 DEF DeleteOwner, ServerType
    <3> QED
      BY <1>1, <2>1, <2>2, <3>1, FaultType DEF ServerType
  <2>4. CASE DeleteJobset(p, n)
    <3>1. /\ life' \in [Uids -> {"unused", "live", "gone"}]
          /\ \A u \in Uids : life'[u] = "live" => life[u] = "live"
          /\ UNCHANGED <<name, owner, outcome, queue>>
      BY <1>1, <2>4 DEF DeleteJobset, ServerType
    <3> QED
      BY <1>1, <2>1, <2>2, <3>1, FaultType DEF ServerType
  <2> QED
    BY <1>10, <2>3, <2>4
<1>11. CASE OwnersDone(p)
  <2>1. Deleted(p) \in Stopped \cup Running
    BY DEF Deleted, Stopped, Running
  <2>2. CASE Follow(p, Deleted(p))
    BY <1>1, <1>3, <1>11, <2>1, <2>2, FollowType DEF OwnersDone
  <2>3. CASE ~ Follow(p, Deleted(p))
    <3>1. LocalType'
      BY <1>1, <1>11, <2>3, CommandsFacts
      DEF OwnersDone, LocalType, Goto, Running
    <3> QED
      BY <1>1, <1>3, <1>11, <3>1 DEF OwnersDone
  <2> QED
    BY <2>2, <2>3
<1>12. CASE JobsetsDone(p) \/ WaitEnds(p) \/ GetStatus(p)
  <2>1. \E l \in {"failed", "schedule", "ok", "status", "timedOut", "report",
                  "unsuccessful"} : Follow(p, l)
    BY <1>12 DEF JobsetsDone, WaitEnds, GetStatus, Deleted
  <2>2. UNCHANGED <<server, faults>>
    BY <1>12 DEF JobsetsDone, WaitEnds, GetStatus
  <2> QED
    BY <1>1, <1>3, <2>1, <2>2, FollowType DEF Stopped, Running
<1>13. CASE Create(p)
  <2>1. PICK u \in Free : /\ name' = [name EXCEPT ![u] = cmd[p].name]
                          /\ life' = [life EXCEPT ![u] = "live"]
    BY <1>13 DEF Create
  <2>2. cmd[p].name \in Names \cup {NoName}
    BY <1>1 DEF LocalType, Command
  <2>3. \A v \in Uids : life[v] = "live" => name[v] # cmd[p].name
    BY <1>13 DEF Create, Live
  <2>4. ServerType'
    BY <1>1, <1>13, <2>1, <2>2, <2>3 DEF Create, ServerType, Free
  <2> QED
    BY <1>1, <1>2, <1>13, <2>4, ExitType DEF Create
<1>14. CASE Grep(p)
  <2>1. CASE Exit(p, "failed")
    BY <1>1, <1>2, <1>3, <1>14, <2>1, ExitType DEF Grep
  <2>2. CASE ~ Exit(p, "failed")
    <3>1. PICK u \in Uids : /\ Goto(p, "waiting")
                            /\ seen' = [seen EXCEPT ![p] = {u}]
                            /\ UNCHANGED <<cmd, agreed, todo, bad>>
      BY <1>14, <2>2 DEF Grep, Rows
    <3>2. LocalType'
      BY <1>1, <3>1 DEF LocalType, Goto, Running
    <3> QED
      BY <1>1, <1>3, <1>14, <3>2 DEF Grep
  <2> QED
    BY <2>1, <2>2
<1>15. CASE Abort(p)
  BY <1>1, <1>2, <1>3, <1>15, ExitType, FaultType DEF Abort
<1> QED
  BY <1>4, <1>5, <1>6, <1>7, <1>8, <1>9, <1>10, <1>11, <1>12, <1>13, <1>14,
     <1>15 DEF XpkStep

(* Type correctness of the other steps, and of the whole behaviour.         *)
LEMMA ServerStepType ==
  ASSUME TypeOK, ServerStep
  PROVE  TypeOK'
<1> SUFFICES LocalType' /\ ServerType' /\ faults' \in 0 .. MaxFaults
  BY TypeParts
<1>1. LocalType /\ ServerType /\ faults \in 0 .. MaxFaults
  BY TypeParts
<1>2. UNCHANGED <<pc, local, faults>>
  BY DEF ServerStep
<1>3. LocalType'
  BY <1>1, <1>2 DEF LocalType, local
<1>4. PICK u \in Uids : \/ Enqueue(u) \/ Evict(u) \/ Admit(u) \/ JobEnds(u)
                       \/ MarkFinished(u) \/ Expire(u) \/ Collect(u)
  BY DEF ServerStep
<1>5. CASE Enqueue(u) \/ Evict(u) \/ Admit(u) \/ MarkFinished(u)
  BY <1>1, <1>2, <1>3, <1>5
  DEF Enqueue, Evict, Admit, MarkFinished, ServerType, Listed
<1>6. CASE JobEnds(u)
  BY <1>1, <1>2, <1>3, <1>6 DEF JobEnds, ServerType
<1>7. CASE Expire(u)
  BY <1>1, <1>2, <1>3, <1>7 DEF Expire, ServerType
<1>8. CASE Collect(u)
  BY <1>1, <1>2, <1>3, <1>8 DEF Collect, ServerType
<1> QED
  BY <1>4, <1>5, <1>6, <1>7, <1>8

(* A command that starts keeps TypeOK.                                       *)
LEMMA StartType ==
  ASSUME TypeOK, NEW p \in Procs, NEW c \in CommandLines, Start(p, c)
  PROVE  TypeOK'
<1> SUFFICES LocalType' /\ ServerType' /\ faults' \in 0 .. MaxFaults
  BY TypeParts
<1>1. LocalType /\ ServerType /\ faults \in 0 .. MaxFaults
  BY TypeParts
<1>2. c \in Command
  BY WorkloadsAssumption
<1>3. c.name \in Names \cup {NoName} /\ Live(c.name) \subseteq Uids
  BY <1>2 DEF Command, Live
<1>4. PICK l \in {"list", "delete", "exists"} : Goto(p, l)
  BY DEF Start
<1>5. pc' \in [Procs -> Stopped \cup Running]
  BY <1>1, <1>4 DEF LocalType, Goto, Running
<1>6. LocalType'
  BY <1>1, <1>2, <1>3, <1>5 DEF Start, LocalType
<1>7. ServerType' /\ faults' = faults
  BY <1>1 DEF Start, ServerType, server
<1> QED
  BY <1>1, <1>6, <1>7

(* TypeOK holds at first.                                                    *)
LEMMA InitType == Init => TypeOK
<1> SUFFICES ASSUME Init PROVE TypeOK
  OBVIOUS
<1>1. PICK old \in SUBSET Uids :
        /\ old # {} => Cardinality(old) = 1
        /\ name \in {f \in [Uids -> Names \cup {NoName}] :
                       \A u \in Uids : f[u] = NoName <=> u \notin old}
        /\ life = [u \in Uids |-> IF u \in old THEN "live" ELSE "unused"]
        /\ owner = [u \in Uids |-> IF u \in old THEN "there" ELSE "none"]
  BY DEF Init
<1>2. \A u, v \in old : u = v
  <2>1. CASE old # {}
    <3>1. IsFiniteSet(old) /\ Cardinality(old) = 1
      BY <1>1, <2>1, FS_Subset, WorkloadsAssumption
    <3>2. \E w : old = {w}
      BY <3>1, FS_Singleton
    <3> QED
      BY <3>2
  <2> QED
    BY <2>1
<1>3. ServerType
  BY <1>1, <1>2 DEF Init, ServerType
<1>4. LocalType
  BY IdleIsCommand DEF Init, LocalType, Stopped, Nothing
<1>5. faults \in 0 .. MaxFaults
  BY WorkloadsAssumption DEF Init
<1> QED
  BY <1>3, <1>4, <1>5 DEF TypeOK, ServerType, LocalType

(* Types, and one live JobSet per name: apply and delete go by name.        *)
THEOREM TypeCorrect == Spec => []TypeOK
<1>1. ASSUME TypeOK, [Next]_vars
      PROVE  TypeOK'
  <2>1. CASE \E p \in Procs : XpkStep(p) \/ Abort(p)
    BY <1>1, <2>1, XpkStepType
  <2>2. CASE \E p \in Procs, c \in CommandLines : Start(p, c)
    BY <1>1, <2>2, StartType
  <2>3. CASE ServerStep
    BY <1>1, <2>3, ServerStepType
  <2>4. CASE UNCHANGED vars
    BY <1>1, <2>4 DEF TypeOK, vars, server, local
  <2> QED
    BY <1>1, <2>1, <2>2, <2>3, <2>4 DEF Next
<1> QED
  BY <1>1, InitType, PTL DEF Spec
-----------------------------------------------------------------------------
(* What no step undoes: a JobSet stays made and keeps its name, one that is *)
(* gone or doomed does not come back, and one that completed has completed. *)
Keeps ==
  \A u \in Uids :
    /\ Made(u) => /\ Made(u)' /\ name'[u] = name[u]
                  /\ ~ Stays(u) => ~ Stays(u)'
    /\ outcome[u] = "Completed" => outcome'[u] = "Completed"

(* A step that leaves the server alone keeps what was made.                  *)
LEMMA ServerUnchanged ==
  ASSUME MadeInv, UNCHANGED server
  PROVE  Keeps /\ MadeInv'
BY DEF MadeInv, Keeps, server, Made, Stays

(* A step of the server forgets nothing that was made.                       *)
LEMMA ServerStepKeeps ==
  ASSUME TypeOK, MadeInv, ServerStep
  PROVE  Keeps /\ MadeInv'
<1>1. PICK u \in Uids : \/ Enqueue(u) \/ Evict(u) \/ Admit(u) \/ JobEnds(u)
                       \/ MarkFinished(u) \/ Expire(u) \/ Collect(u)
  BY DEF ServerStep
<1>2. ServerType
  BY TypeParts
<1>3. CASE Enqueue(u) \/ Evict(u) \/ Admit(u) \/ MarkFinished(u)
  BY <1>2, <1>3
  DEF Enqueue, Evict, Admit, MarkFinished, ServerType, Keeps, MadeInv, Made, Stays
<1>4. CASE JobEnds(u)
  BY <1>2, <1>4 DEF JobEnds, ServerType, Keeps, MadeInv, Made, Stays
<1>5. CASE Expire(u) \/ Collect(u)
  BY <1>2, <1>5
  DEF Expire, Collect, ServerType, Keeps, MadeInv, Made, Stays, Listed
<1> QED
  BY <1>1, <1>3, <1>4, <1>5

(* A step of xpk forgets nothing that was made.                              *)
LEMMA XpkStepKeeps ==
  ASSUME TypeOK, MadeInv, NEW p \in Procs, KindInv(p),
         XpkStep(p) \/ Abort(p)
  PROVE  Keeps /\ MadeInv'
<1>1. ServerType
  BY TypeParts
<1>2. CASE UNCHANGED server
  BY <1>2, ServerUnchanged
<1>3. ASSUME NEW n \in Names, DeleteOwner(p, n)
      PROVE  Keeps /\ MadeInv'
  BY <1>1, <1>3 DEF DeleteOwner, ServerType, Keeps, MadeInv, Made, Stays
<1>4. ASSUME NEW n \in Names, DeleteJobset(p, n)
      PROVE  Keeps /\ MadeInv'
  BY <1>1, <1>4 DEF DeleteJobset, ServerType, Keeps, MadeInv, Made, Stays, Live
<1>5. CASE Create(p)
  <2>1. PICK u \in Free : /\ name' = [name EXCEPT ![u] = cmd[p].name]
                          /\ life' = [life EXCEPT ![u] = "live"]
    BY <1>5 DEF Create
  <2>2. cmd[p] \in Command /\ cmd[p].kind = "create"
    BY <1>5 DEF TypeOK, Create, KindInv, At
  <2>3. cmd[p].name \in Names
    BY <2>2, CommandFacts
  <2> QED
    BY <1>1, <1>5, <2>1, <2>3
    DEF Create, ServerType, Keeps, MadeInv, Made, Stays, Free
<1>6. CASE ~ UNCHANGED server /\ XpkStep(p)
  <2>1. (\E n \in Names : DeleteOwner(p, n) \/ DeleteJobset(p, n)) \/ Create(p)
    BY <1>6 DEF XpkStep, CheckExists, AgreeToOverwrite, RefuseToOverwrite, List,
       AgreeToDelete, RefuseToDelete, CheckPathways, OwnersDone, JobsetsDone,
       Reject, ApplyToExisting, Grep, WaitEnds, GetStatus, Report
  <2> QED
    BY <2>1, <1>3, <1>4, <1>5
<1> QED
  BY <1>2, <1>6 DEF Abort

(* A step of one process leaves the variables of the others alone.          *)
Same(q) ==
  /\ pc'[q] = pc[q] /\ cmd'[q] = cmd[q] /\ seen'[q] = seen[q]
  /\ agreed'[q] = agreed[q] /\ todo'[q] = todo[q] /\ bad'[q] = bad[q]

(* A process that goes on or exits leaves the others alone.                  *)
LEMMA FollowSame ==
  ASSUME LocalType, NEW p \in Procs, NEW q \in Procs, p # q,
         NEW l, Follow(p, l) \/ Exit(p, l)
  PROVE  Same(q)
BY DEF LocalType, Follow, Exit, Goto, local, Same

(* A step of one process leaves the others alone.                            *)
LEMMA OthersSame ==
  ASSUME TypeOK, NEW p \in Procs, NEW q \in Procs, p # q,
         XpkStep(p) \/ Abort(p)
  PROVE  Same(q)
<1>1. LocalType
  BY TypeParts
<1>2. CASE CheckExists(p)
  BY <1>1, <1>2, FollowSame DEF CheckExists, LocalType, Goto, Same
<1>3. CASE AgreeToOverwrite(p) \/ AgreeToDelete(p)
  BY <1>1, <1>3 DEF AgreeToOverwrite, AgreeToDelete, LocalType, Goto, Same
<1>4. CASE RefuseToOverwrite(p) \/ RefuseToDelete(p) \/ Reject(p)
           \/ Report(p) \/ ApplyToExisting(p) \/ Create(p) \/ Abort(p)
  BY <1>1, <1>4, FollowSame DEF RefuseToOverwrite, RefuseToDelete, Reject,
     Report, ApplyToExisting, Create, Abort
<1>5. CASE List(p) \/ Grep(p)
  BY <1>1, <1>5, FollowSame DEF List, Grep, LocalType, Goto, Same
<1>6. CASE CheckPathways(p)
  BY <1>1, <1>6 DEF CheckPathways, LocalType, Goto, Same
<1>7. ASSUME NEW n \in Names, DeleteOwner(p, n) \/ DeleteJobset(p, n)
      PROVE  Same(q)
  <2>1. UNCHANGED <<pc, cmd, seen, agreed>> /\ (\E b \in BOOLEAN : Ended(p, n, b))
    BY <1>7 DEF DeleteOwner, DeleteJobset
  <2> QED
    BY <1>1, <2>1 DEF Ended, LocalType, Same
<1>8. CASE OwnersDone(p)
  BY <1>1, <1>8, FollowSame DEF OwnersDone, LocalType, Goto, Same
<1>9. CASE JobsetsDone(p) \/ WaitEnds(p) \/ GetStatus(p)
  BY <1>1, <1>9, FollowSame DEF JobsetsDone, WaitEnds, GetStatus
<1> QED
  BY <1>2, <1>3, <1>4, <1>5, <1>6, <1>7, <1>8, <1>9 DEF XpkStep

(* A process that starts leaves the others alone.                            *)
LEMMA StartSame ==
  ASSUME TypeOK, NEW p \in Procs, NEW q \in Procs, p # q,
         NEW c \in CommandLines, Start(p, c)
  PROVE  Same(q)
BY DEF TypeOK, Start, Goto, Same

(* What holds of a process that takes no step still holds after any step.   *)
LEMMA Frame ==
  ASSUME TypeOK, MadeInv, Keeps, NEW q \in Procs, ProcInv(q), Same(q)
  PROVE  ProcInv(q)'
<1>1. seen[q] \subseteq Uids
  BY DEF TypeOK
<1>2. /\ \A u \in seen[q] : Made(u) /\ name'[u] = name[u]
      /\ \A u \in seen[q] : Made(u)' /\ (~ Stays(u) => ~ Stays(u)')
  BY <1>1 DEF ProcInv, SeenInv, Keeps
<1>3. KindInv(q)'
  BY DEF ProcInv, KindInv, Same
<1>4. SeenInv(q)'
  BY <1>2 DEF ProcInv, SeenInv, Same
<1>5. Targets(q)' = Targets(q)
  BY <1>2 DEF Targets, Same
<1>6. ConsentInv(q)'
  BY <1>5 DEF ProcInv, ConsentInv, Same
<1>7. GoneInv(q)'
  BY <1>2 DEF ProcInv, GoneInv, Same
<1>8. DoneInv(q)'
  <2>1. \A u \in Uids : outcome[u] = "Completed"
                        => outcome'[u] = "Completed" /\ name'[u] = name[u]
    BY DEF Keeps, MadeInv
  <2> QED
    BY <2>1 DEF ProcInv, DoneInv, Same
<1> QED
  BY <1>3, <1>4, <1>6, <1>7, <1>8 DEF ProcInv
-----------------------------------------------------------------------------
(* What holds of a process after its own steps.                            *)
LEMMA ExitInv ==
  ASSUME LocalType, NEW p \in Procs, NEW code \in Stopped, Exit(p, code)
  PROVE  ProcInv(p)'
<1>1. pc'[p] = code /\ seen'[p] = {} /\ agreed'[p] = {}
  BY DEF Exit, Goto, LocalType
<1>2. code \notin Running /\ code \notin Deleting
  BY DEF Stopped, Running, Deleting
<1>3. KindInv(p)'
  BY <1>1, <1>2 DEF KindInv, Running, Deleting
<1>4. SeenInv(p)' /\ GoneInv(p)'
  BY <1>1 DEF SeenInv, GoneInv
<1>5. ConsentInv(p)' /\ DoneInv(p)'
  BY <1>1, <1>2 DEF ConsentInv, DoneInv, Running, Deleting
<1> QED
  BY <1>3, <1>4, <1>5 DEF ProcInv

(* The step to "delete": what the user agreed to is what will be deleted.   *)
LEMMA DeleteInv ==
  ASSUME TypeOK, NEW p \in Procs, SeenInv(p)',
         pc'[p] = "delete", cmd'[p].kind # "wait",
         Targets(p)' \subseteq agreed'[p]
  PROVE  ProcInv(p)'
<1>1. KindInv(p)' /\ GoneInv(p)' /\ DoneInv(p)'
  BY DEF KindInv, GoneInv, DoneInv, Deleting
<1>2. ConsentInv(p)'
  BY DEF ConsentInv, Deleting
<1> QED
  BY <1>1, <1>2 DEF ProcInv

(* The start of a batch: every JobSet in question has a command to come.    *)
LEMMA BatchInv ==
  ASSUME TypeOK, MadeInv, NEW p \in Procs, ProcInv(p), pc[p] \in Deleting,
         pc'[p] \in {"owners", "jobsets"}, todo'[p] = Commands(p),
         UNCHANGED <<server, cmd, seen, agreed>>
  PROVE  ProcInv(p)'
<1>1. UNCHANGED <<name, life, outcome, owner, queue>>
  BY DEF server
<1>2. KindInv(p)'
  BY DEF ProcInv, KindInv, Deleting
<1>3. SeenInv(p)'
  BY <1>1 DEF ProcInv, SeenInv, Made, Deleting
<1>4. Targets(p)' = Targets(p)
  BY <1>1 DEF Targets
<1>5. ConsentInv(p)'
  BY <1>4, CommandsFacts DEF ProcInv, ConsentInv, Deleting
<1>6. \A u \in seen[p] : name[u] \in Names /\ name[u] \in Targets(p)
  <2>1. seen[p] \subseteq Uids
    BY DEF TypeOK
  <2>2. \A u \in seen[p] : name[u] \in Names
    BY <2>1 DEF ProcInv, SeenInv, MadeInv
  <2>3. cmd[p].kind # "deleteAll" => \A u \in seen[p] : name[u] = cmd[p].name
    BY DEF ProcInv, SeenInv
  <2> QED
    BY <2>2, <2>3 DEF Targets
<1>7. \A u \in seen'[p] : todo'[p][name'[u]] > 0
  BY <1>1, <1>6, CommandsFacts
<1>8. GoneInv(p)'
  BY <1>7 DEF GoneInv
<1>9. DoneInv(p)'
  BY DEF DoneInv
<1> QED
  BY <1>2, <1>3, <1>5, <1>8, <1>9 DEF ProcInv

(* The end of a batch in which no command failed, or of nothing to delete.  *)
LEMMA ScheduleInv ==
  ASSUME TypeOK, NEW p \in Procs, ProcInv(p), cmd[p].kind = "create",
         pc[p] \in {"exists"} \cup Deleting, pc'[p] = "schedule",
         UNCHANGED <<server, local>>,
         agreed[p] # {} => \A u \in seen[p] : ~ Stays(u)
  PROVE  ProcInv(p)'
<1>1. UNCHANGED <<name, life, outcome, owner, queue, cmd, seen, agreed>>
  BY DEF server, local
<1>2. KindInv(p)' /\ ConsentInv(p)' /\ DoneInv(p)'
  BY <1>1 DEF KindInv, ConsentInv, DoneInv, Deleting
<1>3. SeenInv(p)'
  BY <1>1 DEF ProcInv, SeenInv, Made
<1>4. GoneInv(p)'
  BY <1>1 DEF GoneInv, Stays
<1> QED
  BY <1>2, <1>3, <1>4 DEF ProcInv

(* The steps of a waiting process, which deletes nothing.                   *)
LEMMA WaitInv ==
  ASSUME TypeOK, NEW p \in Procs,
         pc'[p] \in {"grep", "waiting", "status", "report"},
         cmd'[p].kind = "wait",
         \A u \in seen'[p] : Made(u)',
         DoneInv(p)'
  PROVE  ProcInv(p)'
<1>1. KindInv(p)' /\ ConsentInv(p)' /\ GoneInv(p)'
  BY DEF KindInv, ConsentInv, GoneInv, Deleting
<1>2. SeenInv(p)'
  BY DEF SeenInv, Deleting
<1> QED
  BY <1>1, <1>2 DEF ProcInv

(* No command is left for what the process has seen.                       *)
LEMMA BatchDone ==
  ASSUME TypeOK, MadeInv, NEW p \in Procs, ProcInv(p),
         pc[p] \in {"owners", "jobsets"}, todo[p] = Nothing, ~ bad[p]
  PROVE  \A u \in seen[p] : ~ Stays(u)
<1>1. \A u \in seen[p] : todo[p][name[u]] > 0 \/ ~ Stays(u)
  BY DEF ProcInv, GoneInv
<1>2. \A u \in seen[p] : name[u] \in Names
  BY DEF ProcInv, SeenInv, MadeInv, TypeOK
<1> QED
  BY <1>1, <1>2 DEF Nothing

(* A deletion of the batch keeps the invariant of its process.               *)
LEMMA BatchStepInv ==
  ASSUME TypeOK, MadeInv, Keeps, NEW p \in Procs, ProcInv(p), NEW n \in Names,
         DeleteOwner(p, n) \/ DeleteJobset(p, n)
  PROVE  ProcInv(p)'
<1>1. /\ pc[p] \in {"owners", "jobsets"} /\ todo[p][n] > 0
      /\ UNCHANGED <<name, outcome, pc, cmd, seen, agreed>>
  BY DEF DeleteOwner, DeleteJobset, At
<1>2. PICK b \in BOOLEAN : Ended(p, n, b)
  BY DEF DeleteOwner, DeleteJobset
<1>3. /\ todo'[p] = [todo[p] EXCEPT ![n] = @ - 1]
      /\ bad'[p] = (bad[p] \/ b)
  BY <1>2 DEF Ended, TypeOK
<1>4. ~ bad'[p] => ~ bad[p] /\ \A u \in Uids : name[u] = n => ~ Stays(u)'
  <2>1. SUFFICES ASSUME ~ bad'[p]
                 PROVE  ~ bad[p] /\ \A u \in Uids : name[u] = n => ~ Stays(u)'
    OBVIOUS
  <2>2. ~ bad[p]
    BY <1>3, <2>1
  <2>3. ~ Ended(p, n, TRUE)
    BY <2>1 DEF Ended, TypeOK
  <2>4. CASE DeleteOwner(p, n)
    <3> DEFINE there == {u \in Live(n) : owner[u] = "there"}
    <3>1. /\ owner' = [u \in Uids |-> IF u \in there THEN "deleted" ELSE owner[u]]
          /\ Ended(p, n, there = {}) /\ life' = life
      BY <2>3, <2>4 DEF DeleteOwner
    <3>2. there # {}
      BY <2>1, <3>1 DEF Ended, TypeOK
    <3>3. \A u \in Live(n) : u \in there
      BY <3>2 DEF Live, TypeOK
    <3> QED
      BY <2>2, <3>1, <3>3 DEF Live, Stays
  <2>5. CASE DeleteJobset(p, n)
    <3>1. life' = [u \in Uids |-> IF u \in Live(n) THEN "gone" ELSE life[u]]
      BY <2>3, <2>5 DEF DeleteJobset
    <3> QED
      BY <2>2, <3>1 DEF Live, Stays
  <2> QED
    BY <2>4, <2>5
<1>5. KindInv(p)' /\ DoneInv(p)'
  BY <1>1 DEF ProcInv, KindInv, DoneInv
<1>6. seen[p] \subseteq Uids /\ \A u \in seen[p] : Made(u)
  BY DEF ProcInv, SeenInv, TypeOK
<1>7. SeenInv(p)'
  BY <1>1, <1>6 DEF ProcInv, SeenInv, Keeps
<1>8. Targets(p)' = Targets(p)
  BY <1>1 DEF Targets
<1>9. todo[p] \in [Names -> Nat]
  BY DEF TypeOK
<1>10. \A m \in Names : todo'[p][m] > 0 => todo[p][m] > 0
  BY <1>3, <1>9
<1>11. ConsentInv(p)'
  BY <1>1, <1>8, <1>10 DEF ProcInv, ConsentInv
<1>12. GoneInv(p)'
  <2>1. SUFFICES ASSUME ~ bad'[p], NEW u \in seen[p]
                 PROVE  todo'[p][name[u]] > 0 \/ ~ Stays(u)'
    BY <1>1 DEF GoneInv
  <2>2. CASE name[u] = n
    BY <1>4, <1>6, <2>1, <2>2
  <2>3. CASE name[u] # n
    <3>1. name[u] \in Names
      BY <1>6, <2>1 DEF MadeInv
    <3>2. todo'[p][name[u]] = todo[p][name[u]]
      BY <1>3, <1>9, <2>3, <3>1
    <3>3. todo[p][name[u]] > 0 \/ ~ Stays(u)
      BY <1>1, <1>4, <2>1 DEF ProcInv, GoneInv
    <3> QED
      BY <1>6, <3>2, <3>3 DEF Keeps
  <2> QED
    BY <2>2, <2>3
<1> QED
  BY <1>5, <1>7, <1>11, <1>12 DEF ProcInv

(* The steps of create and delete other than those of a batch.              *)
LEMMA DeleteStepInv ==
  ASSUME TypeOK, MadeInv, NEW p \in Procs, ProcInv(p),
         \/ AgreeToOverwrite(p) \/ List(p) \/ AgreeToDelete(p)
         \/ CheckPathways(p) \/ OwnersDone(p) \/ JobsetsDone(p)
  PROVE  ProcInv(p)'
<1>1. LocalType
  BY TypeParts
<1>2. "ok" \in Stopped /\ "failed" \in Stopped
  BY DEF Stopped
<1>3. CASE AgreeToOverwrite(p)
  <2>1. /\ pc[p] = "ask" /\ pc'[p] = "delete" /\ agreed'[p] = {cmd[p].name}
        /\ UNCHANGED <<name, life, cmd, seen>> /\ cmd[p].kind = "create"
    BY <1>1, <1>3
    DEF AgreeToOverwrite, At, Goto, LocalType, server, ProcInv, KindInv
  <2>2. SeenInv(p)'
    BY <2>1 DEF ProcInv, SeenInv, Made
  <2> QED
    BY <2>1, <2>2, DeleteInv DEF Targets
<1>4. CASE List(p)
  <2>1. CASE Exit(p, "ok")
    BY <1>1, <1>2, <2>1, ExitInv
  <2>2. CASE ~ Exit(p, "ok")
    <3>1. /\ pc[p] = "list" /\ pc'[p] = "askAll" /\ seen'[p] = Filtered(cmd[p])
          /\ UNCHANGED <<name, life, cmd, agreed>>
      BY <1>1, <1>4, <2>2 DEF List, At, Goto, LocalType, server
    <3>2. cmd[p].kind = "deleteAll" /\ agreed[p] = {}
      BY <3>1 DEF ProcInv, KindInv, ConsentInv
    <3>3. \A u \in seen'[p] : Made(u)'
      BY <3>1 DEF Filtered, Rows, Listed, MadeInv, Made
    <3>4. KindInv(p)' /\ ConsentInv(p)' /\ GoneInv(p)' /\ DoneInv(p)'
      BY <3>1, <3>2 DEF KindInv, ConsentInv, GoneInv, DoneInv, Deleting
    <3>5. SeenInv(p)'
      BY <3>1, <3>2, <3>3 DEF SeenInv
    <3> QED
      BY <3>4, <3>5 DEF ProcInv
  <2> QED
    BY <2>1, <2>2
<1>5. CASE AgreeToDelete(p)
  <2>1. /\ pc[p] = "askAll" /\ pc'[p] = "delete"
        /\ agreed'[p] = {name[u] : u \in seen[p]}
        /\ UNCHANGED <<name, life, cmd, seen>> /\ cmd[p].kind = "deleteAll"
    BY <1>1, <1>5 DEF AgreeToDelete, At, Goto, LocalType, server, ProcInv, KindInv
  <2>2. SeenInv(p)'
    BY <2>1 DEF ProcInv, SeenInv, Made
  <2> QED
    BY <2>1, <2>2, DeleteInv DEF Targets
<1>6. CASE CheckPathways(p)
  <2>1. /\ pc[p] = "delete" /\ pc'[p] \in {"owners", "jobsets"}
        /\ todo'[p] = Commands(p) /\ UNCHANGED <<server, cmd, seen, agreed>>
    BY <1>1, <1>6 DEF CheckPathways, At, Goto, LocalType
  <2> QED
    BY <2>1, BatchInv DEF Deleting
<1>7. ASSUME pc[p] \in {"owners", "jobsets"}, todo[p] = Nothing, ~ bad[p],
             Follow(p, Deleted(p)), UNCHANGED server
      PROVE  ProcInv(p)'
  <2>1. CASE cmd[p].kind = "create"
    <3>1. pc'[p] = "schedule" /\ UNCHANGED <<server, local>>
      BY <1>1, <1>7, <2>1 DEF Follow, Deleted, Stopped, Goto, LocalType
    <3>2. \A u \in seen[p] : ~ Stays(u)
      BY <1>7, BatchDone
    <3> QED
      BY <1>7, <2>1, <3>1, <3>2, ScheduleInv DEF Deleting
  <2>2. CASE cmd[p].kind # "create"
    <3>1. Exit(p, "ok")
      BY <1>2, <1>7, <2>2 DEF Follow, Deleted
    <3> QED
      BY <1>1, <1>2, <3>1, ExitInv
  <2> QED
    BY <2>1, <2>2
<1>8. CASE OwnersDone(p)
  <2>1. pc[p] = "owners" /\ todo[p] = Nothing /\ UNCHANGED server
    BY <1>8 DEF OwnersDone, At
  <2>2. CASE ~ bad[p] /\ Follow(p, Deleted(p))
    BY <1>7, <2>1, <2>2
  <2>3. CASE ~ (~ bad[p] /\ Follow(p, Deleted(p)))
    <3>1. /\ pc'[p] = "jobsets" /\ todo'[p] = Commands(p)
          /\ UNCHANGED <<cmd, seen, agreed>>
      BY <1>1, <1>8, <2>3 DEF OwnersDone, Goto, LocalType
    <3> QED
      BY <2>1, <3>1, BatchInv DEF Deleting
  <2> QED
    BY <2>2, <2>3
<1>9. CASE JobsetsDone(p)
  <2>1. pc[p] = "jobsets" /\ todo[p] = Nothing /\ UNCHANGED server
    BY <1>9 DEF JobsetsDone, At
  <2>2. CASE bad[p]
    <3>1. Exit(p, "failed")
      BY <1>2, <1>9, <2>2 DEF JobsetsDone, Follow
    <3> QED
      BY <1>1, <1>2, <3>1, ExitInv
  <2>3. CASE ~ bad[p]
    BY <1>7, <1>9, <2>1, <2>3 DEF JobsetsDone
  <2> QED
    BY <2>2, <2>3
<1> QED
  BY <1>3, <1>4, <1>5, <1>6, <1>8, <1>9

(* The steps of wait, and the check that create begins with.                *)
LEMMA WaitStepInv ==
  ASSUME TypeOK, MadeInv, NEW p \in Procs, ProcInv(p),
         CheckExists(p) \/ Grep(p) \/ WaitEnds(p) \/ GetStatus(p)
  PROVE  ProcInv(p)'
<1>1. LocalType
  BY TypeParts
<1>2. "timedOut" \in Stopped /\ "failed" \in Stopped /\ "unsuccessful" \in Stopped
  BY DEF Stopped
<1>3. \A u \in Rows : Made(u)
  BY DEF Rows, Listed, MadeInv
<1>4. CASE CheckExists(p)
  <2> DEFINE rows == RowsOf(cmd[p].name)
  <2>1. /\ pc[p] = "exists" /\ cmd[p].kind \in {"create", "wait"}
        /\ agreed[p] = {} /\ UNCHANGED server
    BY <1>4 DEF CheckExists, At, ProcInv, KindInv, ConsentInv
  <2>2. CASE rows = {} /\ cmd[p].kind = "wait"
    <3>1. Follow(p, "failed")
      BY <1>4, <2>2 DEF CheckExists
    <3> QED
      BY <1>1, <1>2, <3>1, ExitInv DEF Follow
  <2>3. CASE rows = {} /\ cmd[p].kind = "create"
    <3>1. Follow(p, "schedule")
      BY <1>4, <2>3 DEF CheckExists
    <3>2. pc'[p] = "schedule" /\ UNCHANGED local
      BY <1>1, <3>1 DEF Follow, Stopped, Goto, LocalType
    <3> QED
      BY <2>1, <2>3, <3>2, ScheduleInv
  <2>4. CASE rows # {}
    <3>1. /\ Goto(p, IF cmd[p].kind = "wait" THEN "grep" ELSE "ask")
          /\ seen' = [seen EXCEPT ![p] = rows]
          /\ UNCHANGED <<cmd, agreed, todo, bad>>
      BY <1>4, <2>4 DEF CheckExists
    <3>2. /\ seen'[p] = rows /\ UNCHANGED <<name, life>>
          /\ \A u \in rows : Made(u)' /\ name[u] = cmd[p].name
      BY <1>1, <1>3, <2>1, <3>1 DEF LocalType, server, RowsOf, Made
    <3>3. CASE cmd[p].kind = "wait"
      <4>1. pc'[p] = "grep" /\ cmd'[p].kind = "wait"
        BY <1>1, <3>1, <3>3 DEF Goto, LocalType
      <4> QED
        BY <3>2, <4>1, WaitInv DEF DoneInv
    <3>4. CASE cmd[p].kind = "create"
      <4>1. pc'[p] = "ask" /\ cmd'[p] = cmd[p] /\ agreed'[p] = {}
        BY <1>1, <2>1, <3>1, <3>4 DEF Goto, LocalType
      <4>2. KindInv(p)' /\ ConsentInv(p)' /\ GoneInv(p)' /\ DoneInv(p)'
        BY <3>4, <4>1 DEF KindInv, ConsentInv, GoneInv, DoneInv, Deleting
      <4>3. SeenInv(p)'
        BY <3>2, <4>1 DEF SeenInv
      <4> QED
        BY <4>2, <4>3 DEF ProcInv
    <3> QED
      BY <2>1, <3>3, <3>4
  <2> QED
    BY <2>1, <2>2, <2>3, <2>4
<1>5. CASE Grep(p)
  <2>1. CASE Exit(p, "failed")
    BY <1>1, <1>2, <2>1, ExitInv
  <2>2. CASE ~ Exit(p, "failed")
    <3>1. PICK u \in Rows : /\ Goto(p, "waiting")
                            /\ seen' = [seen EXCEPT ![p] = {u}]
                            /\ UNCHANGED <<server, cmd>>
      BY <1>5, <2>2 DEF Grep
    <3>2. pc'[p] = "waiting" /\ seen'[p] = {u} /\ cmd'[p].kind = "wait"
      BY <1>1, <1>5, <3>1
      DEF Grep, At, Goto, LocalType, ProcInv, KindInv
    <3>3. Made(u)'
      BY <1>3, <3>1 DEF Made, server
    <3> QED
      BY <3>2, <3>3, WaitInv DEF DoneInv
  <2> QED
    BY <2>1, <2>2
<1>6. CASE WaitEnds(p)
  <2>1. /\ pc[p] = "waiting" /\ cmd[p].kind = "wait" /\ UNCHANGED server
        /\ \E l \in {"status", "failed", "timedOut"} : Follow(p, l)
    BY <1>6 DEF WaitEnds, At, ProcInv, KindInv
  <2>2. CASE Follow(p, "status")
    <3>1. pc'[p] = "status" /\ UNCHANGED <<cmd, seen, life>>
      BY <1>1, <2>1, <2>2 DEF Follow, Stopped, Goto, LocalType, local, server
    <3>2. \A u \in seen'[p] : Made(u)'
      BY <3>1 DEF ProcInv, SeenInv, Made
    <3> QED
      BY <2>1, <3>1, <3>2, WaitInv DEF DoneInv
  <2>3. CASE Follow(p, "failed") \/ Follow(p, "timedOut")
    BY <1>1, <1>2, <2>3, ExitInv DEF Follow
  <2> QED
    BY <2>1, <2>2, <2>3
<1>7. CASE GetStatus(p)
  <2>1. /\ pc[p] = "status" /\ cmd[p].kind = "wait" /\ UNCHANGED server
    BY <1>7 DEF GetStatus, At, ProcInv, KindInv
  <2>2. \/ /\ Follow(p, "report")
           /\ \E u \in Live(cmd[p].name) : outcome[u] = "Completed"
        \/ Follow(p, "failed") \/ Follow(p, "unsuccessful")
    BY <1>7 DEF GetStatus
  <2>3. CASE /\ Follow(p, "report")
             /\ \E u \in Live(cmd[p].name) : outcome[u] = "Completed"
    <3>1. pc'[p] = "report" /\ UNCHANGED <<cmd, seen, life, name, outcome>>
      BY <1>1, <2>1, <2>3 DEF Follow, Stopped, Goto, LocalType, local, server
    <3>2. \A u \in seen'[p] : Made(u)'
      BY <3>1 DEF ProcInv, SeenInv, Made
    <3>3. DoneInv(p)'
      BY <2>3, <3>1 DEF DoneInv, Live
    <3> QED
      BY <2>1, <3>1, <3>2, <3>3, WaitInv
  <2>4. CASE Follow(p, "failed") \/ Follow(p, "unsuccessful")
    BY <1>1, <1>2, <2>4, ExitInv DEF Follow
  <2> QED
    BY <2>2, <2>3, <2>4
<1> QED
  BY <1>4, <1>5, <1>6, <1>7

(* A command that starts establishes the invariant of its process.           *)
LEMMA StartInv ==
  ASSUME TypeOK, NEW p \in Procs, NEW c \in CommandLines, Start(p, c)
  PROVE  ProcInv(p)'
<1>1. c \in Command
  BY WorkloadsAssumption
<1>2. /\ cmd'[p] = c /\ UNCHANGED server
      /\ pc'[p] = CASE c.kind = "deleteAll" -> "list"
                    [] c.kind = "delete" -> "delete"
                    [] OTHER -> "exists"
  BY DEF Start, Goto, TypeOK
<1>3. CASE c.kind = "delete"
  <2>1. pc'[p] = "delete"
    BY <1>2, <1>3
  <2>2. seen'[p] = Live(c.name) /\ agreed'[p] = {c.name}
    BY <1>3 DEF Start, TypeOK
  <2>3. \A u \in Live(c.name) : Made(u)' /\ name'[u] = c.name
    BY <1>2 DEF Live, Made, server
  <2>4. SeenInv(p)'
    BY <1>2, <2>2, <2>3 DEF SeenInv
  <2> QED
    BY <1>2, <1>3, <2>1, <2>2, <2>4, DeleteInv DEF Targets
<1>4. CASE c.kind # "delete"
  <2>1. seen'[p] = {} /\ agreed'[p] = {}
    BY <1>4 DEF Start, TypeOK
  <2>2. \/ c.kind = "deleteAll" /\ pc'[p] = "list"
        \/ c.kind \in {"create", "wait"} /\ pc'[p] = "exists"
    BY <1>1, <1>2, <1>4, CommandFacts
  <2>3. KindInv(p)' /\ ConsentInv(p)' /\ DoneInv(p)'
    BY <1>2, <2>1, <2>2 DEF KindInv, ConsentInv, DoneInv, Deleting
  <2>4. SeenInv(p)' /\ GoneInv(p)'
    BY <2>1 DEF SeenInv, GoneInv
  <2> QED
    BY <2>3, <2>4 DEF ProcInv
<1> QED
  BY <1>3, <1>4

(* A step of xpk keeps the invariant of its process.                         *)
LEMMA XpkStepInv ==
  ASSUME TypeOK, MadeInv, Keeps, NEW p \in Procs, ProcInv(p),
         XpkStep(p) \/ Abort(p)
  PROVE  ProcInv(p)'
<1>1. LocalType
  BY TypeParts
<1>2. "ok" \in Stopped /\ "failed" \in Stopped
  BY DEF Stopped
<1>3. CASE Exit(p, "ok") \/ Exit(p, "failed")
  BY <1>1, <1>2, <1>3, ExitInv
<1>4. CASE XpkStep(p) /\ ~ (Exit(p, "ok") \/ Exit(p, "failed"))
  <2>1. \/ AgreeToOverwrite(p) \/ List(p) \/ AgreeToDelete(p)
        \/ CheckPathways(p) \/ OwnersDone(p) \/ JobsetsDone(p)
        \/ CheckExists(p) \/ Grep(p) \/ WaitEnds(p) \/ GetStatus(p)
        \/ \E n \in Names : DeleteOwner(p, n) \/ DeleteJobset(p, n)
    BY <1>4 DEF XpkStep, RefuseToOverwrite, RefuseToDelete, Reject, Create,
       ApplyToExisting, Report
  <2> QED
    BY <2>1, DeleteStepInv, WaitStepInv, BatchStepInv
<1> QED
  BY <1>3, <1>4 DEF Abort

(* The inductive invariant behind the theorems below.                       *)
LEMMA InvInit == Init => WorkloadsInv
<1> SUFFICES ASSUME Init PROVE WorkloadsInv
  OBVIOUS
<1>1. PICK old \in SUBSET Uids :
        /\ name \in {f \in [Uids -> Names \cup {NoName}] :
                       \A u \in Uids : f[u] = NoName <=> u \notin old}
        /\ life = [u \in Uids |-> IF u \in old THEN "live" ELSE "unused"]
  BY DEF Init
<1>2. MadeInv
  BY <1>1 DEF Init, MadeInv, Made
<1>3. ASSUME NEW p \in Procs
      PROVE  ProcInv(p)
  <2>1. pc[p] = "ok" /\ seen[p] = {} /\ agreed[p] = {}
    BY DEF Init
  <2> QED
    BY <2>1 DEF ProcInv, KindInv, SeenInv, ConsentInv, GoneInv, DoneInv, Deleting
<1> QED
  BY <1>2, <1>3 DEF WorkloadsInv

(* Every step keeps WorkloadsInv, and forgets nothing that was made.         *)
LEMMA InvNext ==
  ASSUME TypeOK, WorkloadsInv, [Next]_vars
  PROVE  WorkloadsInv' /\ Keeps
<1>1. MadeInv /\ \A q \in Procs : ProcInv(q)
  BY DEF WorkloadsInv
<1>2. CASE \E p \in Procs : XpkStep(p) \/ Abort(p)
  <2>1. PICK p \in Procs : XpkStep(p) \/ Abort(p)
    BY <1>2
  <2>2. Keeps /\ MadeInv'
    BY <1>1, <2>1, XpkStepKeeps DEF ProcInv
  <2>3. ProcInv(p)'
    BY <1>1, <2>1, <2>2, XpkStepInv
  <2>4. ASSUME NEW q \in Procs, p # q PROVE ProcInv(q)'
    BY <1>1, <2>1, <2>2, <2>4, OthersSame, Frame
  <2> QED
    BY <2>2, <2>3, <2>4 DEF WorkloadsInv
<1>3. CASE \E p \in Procs, c \in CommandLines : Start(p, c)
  <2>1. PICK p \in Procs, c \in CommandLines : Start(p, c)
    BY <1>3
  <2>2. Keeps /\ MadeInv'
    BY <1>1, <2>1, ServerUnchanged DEF Start, server
  <2>3. ProcInv(p)'
    BY <2>1, StartInv
  <2>4. ASSUME NEW q \in Procs, p # q PROVE ProcInv(q)'
    BY <1>1, <2>1, <2>2, <2>4, StartSame, Frame
  <2> QED
    BY <2>2, <2>3, <2>4 DEF WorkloadsInv
<1>4. CASE ServerStep
  <2>1. Keeps /\ MadeInv'
    BY <1>1, <1>4, ServerStepKeeps
  <2>2. ASSUME NEW q \in Procs PROVE Same(q)
    BY <1>4 DEF ServerStep, local, Same
  <2> QED
    BY <1>1, <2>1, <2>2, Frame DEF WorkloadsInv
<1>5. CASE UNCHANGED vars
  <2>1. Keeps /\ MadeInv'
    BY <1>1, <1>5, ServerUnchanged DEF vars, server
  <2>2. ASSUME NEW q \in Procs PROVE Same(q)
    BY <1>5 DEF vars, local, Same
  <2> QED
    BY <1>1, <2>1, <2>2, Frame DEF WorkloadsInv
<1> QED
  BY <1>2, <1>3, <1>4, <1>5 DEF Next

(* TypeOK and WorkloadsInv always hold.                                      *)
LEMMA Invariance == Spec => [](TypeOK /\ WorkloadsInv)
<1>1. TypeOK /\ WorkloadsInv /\ [Next]_vars => WorkloadsInv'
  BY InvNext
<1> QED
  BY <1>1, InvInit, TypeCorrect, PTL DEF Spec
-----------------------------------------------------------------------------
(* The steps with which a command can return 0.                            *)
LEMMA OkSteps ==
  ASSUME TypeOK, [Next]_vars, NEW p \in Procs, Returns(p, "ok")
  PROVE  \/ List(p) \/ RefuseToDelete(p) \/ OwnersDone(p) \/ JobsetsDone(p)
         \/ Create(p) \/ ApplyToExisting(p) \/ Report(p)
<1>1. LocalType
  BY TypeParts
<1>2. pc[p] \in Running /\ pc'[p] = "ok" /\ pc'[p] # pc[p] /\ pc[p] \notin Stopped
  BY DEF Returns, Running, Stopped
<1>3. XpkStep(p) \/ Abort(p)
  <2>1. \/ \E q \in Procs : XpkStep(q) \/ Abort(q)
        \/ \E q \in Procs, c \in CommandLines : Start(q, c)
    BY <1>2 DEF Next, ServerStep, vars
  <2>2. ASSUME NEW q \in Procs, XpkStep(q) \/ Abort(q)
        PROVE  p = q
    BY <1>2, <2>2, OthersSame DEF Same
  <2>3. ASSUME NEW q \in Procs, NEW c \in CommandLines, Start(q, c)
        PROVE  FALSE
    BY <1>2, <2>3, StartSame DEF Same, Start
  <2> QED
    BY <2>1, <2>2, <2>3
<1>4. ASSUME NEW l, Follow(p, l) \/ Exit(p, l) \/ Goto(p, l)
      PROVE  l = "ok"
  BY <1>1, <1>2, <1>4 DEF Follow, Exit, Goto, LocalType
<1>5. ~ Abort(p)
  BY <1>4 DEF Abort
<1>6. ~ CheckExists(p)
  <2>1. CheckExists(p) => \/ Follow(p, "failed") \/ Follow(p, "schedule")
                         \/ Goto(p, "grep") \/ Goto(p, "ask")
    <3>1. CASE RowsOf(cmd[p].name) = {}
      BY <3>1 DEF CheckExists
    <3>2. CASE RowsOf(cmd[p].name) # {}
      BY <3>2 DEF CheckExists
    <3> QED
      BY <3>1, <3>2
  <2> QED
    BY <2>1, <1>4
<1>7. ~ (AgreeToOverwrite(p) \/ AgreeToDelete(p) \/ CheckPathways(p))
  BY <1>4 DEF AgreeToOverwrite, AgreeToDelete, CheckPathways
<1>8. ~ (RefuseToOverwrite(p) \/ Reject(p) \/ Grep(p))
  BY <1>4 DEF RefuseToOverwrite, Reject, Grep
<1>9. \A n \in Names : ~ (DeleteOwner(p, n) \/ DeleteJobset(p, n))
  BY <1>2 DEF DeleteOwner, DeleteJobset
<1>10. ~ WaitEnds(p)
  <2>1. WaitEnds(p) => \E l \in {"status", "failed", "timedOut"} : Follow(p, l)
    BY DEF WaitEnds
  <2> QED
    BY <2>1, <1>4
<1>11. ~ GetStatus(p)
  <2>1. GetStatus(p)
          => \E l \in {"report", "failed", "unsuccessful"} : Follow(p, l)
    BY DEF GetStatus
  <2> QED
    BY <2>1, <1>4
<1> QED
  BY <1>3, <1>5, <1>6, <1>7, <1>8, <1>9, <1>10, <1>11 DEF XpkStep

(* delete, and create after a yes to the overwrite, leave nothing behind.   *)
THEOREM SuccessMeansGoneHolds == Spec => SuccessMeansGone
<1> DEFINE Good == \A p \in Procs :
       Returns(p, "ok") /\ cmd[p].kind # "wait" /\ agreed[p] # {}
         => \A u \in seen[p] : ~ Stays(u)'
<1>1. ASSUME TypeOK, WorkloadsInv, [Next]_vars
      PROVE  Good
  <2>1. SUFFICES ASSUME NEW p \in Procs, Returns(p, "ok"),
                        cmd[p].kind # "wait", agreed[p] # {}
                 PROVE  \A u \in seen[p] : ~ Stays(u)'
    OBVIOUS
  <2>2. MadeInv /\ ProcInv(p) /\ Keeps
    BY <1>1, InvNext DEF WorkloadsInv
  <2>3. \A u \in seen[p] : u \in Uids /\ Made(u)
    BY <1>1, <2>2 DEF ProcInv, SeenInv, TypeOK
  <2>4. SUFFICES \A u \in seen[p] : ~ Stays(u)
    BY <2>2, <2>3 DEF Keeps
  <2>5. ~ (List(p) \/ RefuseToDelete(p) \/ Report(p))
    BY <2>1, <2>2 DEF List, RefuseToDelete, Report, At, ProcInv, KindInv, ConsentInv
  <2>6. CASE Create(p) \/ ApplyToExisting(p)
    <3>1. pc[p] = "schedule"
      BY <2>6 DEF Create, ApplyToExisting, At
    <3> QED
      BY <2>1, <2>2, <3>1 DEF ProcInv, GoneInv
  <2>7. CASE OwnersDone(p) \/ JobsetsDone(p)
    <3>1. pc[p] \in {"owners", "jobsets"} /\ todo[p] = Nothing
      BY <2>7 DEF OwnersDone, JobsetsDone, At
    <3>2. ~ bad[p]
      <4>1. bad[p] => Goto(p, "jobsets") \/ Exit(p, "failed")
        BY <2>7 DEF OwnersDone, JobsetsDone, Follow, Stopped
      <4>2. ~ (Goto(p, "jobsets") \/ Exit(p, "failed"))
        BY <1>1, <2>1 DEF Returns, Goto, Exit, TypeOK
      <4> QED
        BY <4>1, <4>2
    <3> QED
      BY <1>1, <2>2, <3>1, <3>2, BatchDone
  <2> QED
    BY <1>1, <2>1, <2>5, <2>6, <2>7, OkSteps
<1>2. TypeOK /\ WorkloadsInv /\ [Next]_vars => [Good]_vars
  BY <1>1
<1> QED
  BY <1>2, Invariance, PTL DEF Spec, SuccessMeansGone

(* The exit status 0 of wait is a completed workload of that name.          *)
THEOREM ZeroMeansCompletedHolds == Spec => ZeroMeansCompleted
<1> DEFINE Good == \A p \in Procs :
       Returns(p, "ok") /\ cmd[p].kind = "wait"
         => \E u \in Uids : name[u] = cmd[p].name /\ outcome[u] = "Completed"
<1>1. ASSUME TypeOK, WorkloadsInv, [Next]_vars
      PROVE  Good
  <2>1. SUFFICES ASSUME NEW p \in Procs, Returns(p, "ok"), cmd[p].kind = "wait"
                 PROVE  \E u \in Uids : /\ name[u] = cmd[p].name
                                        /\ outcome[u] = "Completed"
    OBVIOUS
  <2>2. ProcInv(p)
    BY <1>1 DEF WorkloadsInv
  <2>3. pc[p] \notin {"list", "askAll", "schedule", "owners", "jobsets"}
    BY <2>1, <2>2 DEF ProcInv, KindInv, Deleting
  <2>4. Report(p)
    BY <1>1, <2>1, <2>3, OkSteps
    DEF List, RefuseToDelete, OwnersDone, JobsetsDone, Create, ApplyToExisting, At
  <2> QED
    BY <2>2, <2>4 DEF Report, At, ProcInv, DoneInv
<1>2. TypeOK /\ WorkloadsInv /\ [Next]_vars => [Good]_vars
  BY <1>1
<1> QED
  BY <1>2, Invariance, PTL DEF Spec, ZeroMeansCompleted

(* No JobSet is deleted under a name that no user agreed to.                *)
THEOREM OnlyAgreedHolds == Spec => OnlyAgreed
<1> DEFINE Good == \A u \in Uids :
       Stays(u) /\ ~ Stays(u)' /\ outcome[u] = "none"
         => \E p \in Procs : /\ pc[p] \in {"owners", "jobsets"}
                             /\ name[u] \in agreed[p]
<1>1. ASSUME TypeOK, WorkloadsInv, [Next]_vars
      PROVE  Good
  <2>1. SUFFICES ASSUME NEW u \in Uids, Stays(u), ~ Stays(u)', outcome[u] = "none"
                 PROVE  \E p \in Procs : /\ pc[p] \in {"owners", "jobsets"}
                                         /\ name[u] \in agreed[p]
    OBVIOUS
  <2>2. ServerType
    BY <1>1, TypeParts
  <2>3. life'[u] # life[u] \/ owner'[u] # owner[u]
    BY <2>1 DEF Stays
  <2>4. ASSUME NEW p \in Procs, NEW n \in Names,
               DeleteOwner(p, n) \/ DeleteJobset(p, n)
        PROVE  pc[p] \in {"owners", "jobsets"} /\ name[u] \in agreed[p]
    <3>1. u \in Live(n)
      BY <2>2, <2>3, <2>4 DEF DeleteOwner, DeleteJobset, ServerType
    <3>2. pc[p] \in {"owners", "jobsets"} /\ todo[p][n] > 0
      BY <2>4 DEF DeleteOwner, DeleteJobset, At
    <3>3. ConsentInv(p)
      BY <1>1 DEF WorkloadsInv, ProcInv
    <3>4. n \in agreed[p]
      BY <3>2, <3>3 DEF ConsentInv, Deleting
    <3> QED
      BY <3>1, <3>2, <3>4 DEF Live
  <2>5. ASSUME NEW p \in Procs
        PROVE  ~ Create(p)
    BY <2>1, <2>2, <2>3 DEF Create, Free, ServerType, Stays
  <2>6. ~ ServerStep
    <3>1. SUFFICES ASSUME NEW v \in Uids,
                          \/ Enqueue(v) \/ Evict(v) \/ Admit(v) \/ JobEnds(v)
                          \/ MarkFinished(v) \/ Expire(v) \/ Collect(v)
                   PROVE  FALSE
      BY DEF ServerStep
    <3> QED
      BY <2>1, <2>2, <2>3, <3>1 DEF Enqueue, Evict, Admit, JobEnds, MarkFinished,
         Expire, Collect, ServerType, Stays
  <2>7. ~ (UNCHANGED server)
    BY <2>3 DEF server
  <2>8. PICK p \in Procs : XpkStep(p) \/ Abort(p)
    BY <1>1, <2>6, <2>7 DEF Next, Start, vars
  <2>9. \E n \in Names : DeleteOwner(p, n) \/ DeleteJobset(p, n)
    BY <2>5, <2>7, <2>8 DEF XpkStep, Abort, CheckExists, AgreeToOverwrite,
       RefuseToOverwrite, List, AgreeToDelete, RefuseToDelete, CheckPathways,
       OwnersDone, JobsetsDone, Reject, ApplyToExisting, Grep, WaitEnds,
       GetStatus, Report
  <2> QED
    BY <2>4, <2>9
<1>2. TypeOK /\ WorkloadsInv /\ [Next]_vars => [Good]_vars
  BY <1>1
<1> QED
  BY <1>2, Invariance, PTL DEF Spec, OnlyAgreed
=============================================================================
