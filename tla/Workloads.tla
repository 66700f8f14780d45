----------------------------- MODULE Workloads -----------------------------
(***************************************************************************)
(* Several xpk processes that create, delete and wait for workloads of one  *)
(* cluster (commands/workload.py, core/workload.py, core/pathways.py),      *)
(* while Kueue and the garbage collector do their work.  A workload is a    *)
(* JobSet; xpk looks for it among the Workload objects that Kueue makes     *)
(* for JobSets later and that outlive them for a while.                    *)
(*                                                                         *)
(*   pc        code                                                        *)
(*   exists    check_if_workload_exists                                    *)
(*   ask       the prompt of workload_create                               *)
(*   list      get_workload_list, for a deletion without a name            *)
(*   askAll    the prompt of workload_delete                               *)
(*   delete    check_if_pathways_job_is_installed                          *)
(*   owners    try_to_delete_pathwaysjob_first                             *)
(*   jobsets   the rest of delete_workloads                                *)
(*   schedule  the checks of workload_create, and kubectl apply            *)
(*   grep, waiting, status   wait_for_job_completion                       *)
(*   report    the list after a successful wait                            *)
(***************************************************************************)
EXTENDS Naturals, FiniteSets

CONSTANTS
  Procs,      \* xpk processes
  Names,      \* names of workloads
  NoName,     \* no name was given
  StartWith,  \* StartWith[n]: the names that start with n
  Contain,    \* Contain[n]: the names that n is a part of
  Uids,       \* bound: JobSets that are ever made
  CommandLines, \* those in use
  Pathways,   \* the PathwaysJob controller of an older xpk is installed
  MaxFaults   \* bound: failed commands, and processes that die

StatusFilter ==
  {"EVERYTHING", "RUNNING", "QUEUED", "FINISHED", "FAILED", "SUCCESSFUL"}

Command ==
  [kind : {"create", "delete", "wait"}, name : Names,
   job : {NoName}, status : {"EVERYTHING"}]
  \cup [kind : {"deleteAll"}, name : {NoName}, job : Names \cup {NoName},
        status : StatusFilter]

ASSUME WorkloadsAssumption ==
  /\ Names # {} /\ NoName \notin Names /\ IsFiniteSet(Uids)
  /\ StartWith \in [Names -> SUBSET Names]
  /\ Contain \in [Names -> SUBSET Names]
  /\ \A n \in Names : n \in StartWith[n] /\ StartWith[n] \subseteq Contain[n]
  /\ CommandLines \subseteq Command
  /\ Pathways \in BOOLEAN /\ MaxFaults \in Nat

VARIABLES
  name,     \* of each JobSet; NoName: not made yet
  life,     \* "unused", "live" or "gone"
  outcome,  \* condition of the JobSet: "none", "Completed" or "Failed"
  owner,    \* its PathwaysJob: "none", "there" or "deleted"
  queue,    \* its Workload object, by the latest condition
  pc,
  cmd,      \* the command line of each process
  seen,     \* JobSets whose rows it found, or that have the name to delete
  agreed,   \* names the user gave or confirmed for deletion
  todo,     \* number of kubectl delete commands per name still to end
  bad,      \* one of them failed
  faults

server == <<name, life, outcome, owner, queue>>
local == <<cmd, seen, agreed, todo, bad>>
vars == <<server, pc, local, faults>>

Stopped == {"ok", "failed", "timedOut", "unsuccessful"}  \* 0, 1, 124, 125
Running == {"exists", "ask", "list", "askAll", "delete", "owners", "jobsets",
            "schedule", "grep", "waiting", "status", "report"}

(* "queued": Admitted, Evicted or QuotaReserved without running VMs;        *)
(* "running": one of them with running VMs.                                *)
Listed == {"queued", "running", "finished"}

Idle == [kind |-> "wait", name |-> CHOOSE n \in Names : TRUE, job |-> NoName,
         status |-> "EVERYTHING"]
Nothing == [m \in Names |-> 0]

At(p, label) == pc[p] = label
Goto(p, label) == pc' = [pc EXCEPT ![p] = label]
Fault == faults > 0 /\ faults' = faults - 1

(* The process ends with this status, and its variables with it.            *)
Exit(p, code) ==
  /\ Goto(p, code)
  /\ cmd' = [cmd EXCEPT ![p] = Idle]
  /\ seen' = [seen EXCEPT ![p] = {}] /\ agreed' = [agreed EXCEPT ![p] = {}]
  /\ todo' = [todo EXCEPT ![p] = Nothing] /\ bad' = [bad EXCEPT ![p] = FALSE]

Follow(p, label) ==
  IF label \in Stopped THEN Exit(p, label) ELSE Goto(p, label) /\ UNCHANGED local

Rows == {u \in Uids : queue[u] \in Listed}
RowsOf(n) == {u \in Rows : name[u] = n}
Live(n) == {u \in Uids : life[u] = "live" /\ name[u] = n}
-----------------------------------------------------------------------------
(* A definition whose comment starts with WRONG is a plausible mistake in   *)
(* the one after it; no specification uses it.                             *)

MatchesStatus(filter, u) ==
  CASE filter = "EVERYTHING" -> TRUE
    [] filter = "RUNNING" -> queue[u] = "running"
    [] filter = "QUEUED" -> queue[u] = "queued"
    [] filter = "FINISHED" -> queue[u] = "finished"
    [] filter = "FAILED" -> queue[u] = "finished" /\ outcome[u] = "Failed"
    [] filter = "SUCCESSFUL" ->
         queue[u] = "finished" /\ outcome[u] = "Completed"

Filtered(c) ==
  {u \in Rows : /\ c.job # NoName => name[u] \in Contain[c.job]
                /\ MatchesStatus(c.status, u)}

(* WRONG: the header of the printed list is not skipped.                    *)
CommandsWithHeader(p) ==
  IF cmd[p].kind = "deleteAll"
    THEN [n \in Names \cup {NoName} |->
            IF n = NoName THEN 1 ELSE Cardinality({u \in seen[p] : name[u] = n})]
    ELSE [n \in Names |-> IF n = cmd[p].name THEN 1 ELSE 0]

(* One kubectl delete per row of the list, by the name in the row.          *)
Commands(p) ==
  IF cmd[p].kind = "deleteAll"
    THEN [n \in Names |-> Cardinality({u \in seen[p] : name[u] = n})]
    ELSE [n \in Names |-> IF n = cmd[p].name THEN 1 ELSE 0]

Free == {u \in Uids : life[u] = "unused"}
Creating == {p \in Procs : pc[p] \in Running /\ cmd[p].kind = "create"}

(* The bound on JobSets leaves one for every create that is under way.      *)
Start(p, c) ==
  /\ pc[p] \in Stopped
  /\ c.kind = "create" => Cardinality(Free) > Cardinality(Creating)
  /\ cmd' = [cmd EXCEPT ![p] = c]
  /\ Goto(p, CASE c.kind = "deleteAll" -> "list"
               [] c.kind = "delete" -> "delete"
               [] OTHER -> "exists")
  /\ LET named == c.kind = "delete" IN
       /\ seen' = [seen EXCEPT ![p] = IF named THEN Live(c.name) ELSE {}]
       /\ agreed' = [agreed EXCEPT ![p] = IF named THEN {c.name} ELSE {}]
  /\ UNCHANGED <<server, todo, bad, faults>>

(* Only Workload objects are looked at: a JobSet that Kueue has not seen    *)
(* yet is overlooked, one that is already deleted may still be found.       *)
CheckExists(p) ==
  /\ At(p, "exists")
  /\ LET rows == RowsOf(cmd[p].name) IN
       CASE rows = {} ->
              Follow(p, IF cmd[p].kind = "wait" THEN "failed" ELSE "schedule")
         [] rows # {} ->
              /\ Goto(p, IF cmd[p].kind = "wait" THEN "grep" ELSE "ask")
              /\ seen' = [seen EXCEPT ![p] = rows]
              /\ UNCHANGED <<cmd, agreed, todo, bad>>
  /\ UNCHANGED <<server, faults>>

AgreeToOverwrite(p) ==
  /\ At(p, "ask")
  /\ agreed' = [agreed EXCEPT ![p] = {cmd[p].name}]
  /\ Goto(p, "delete")
  /\ UNCHANGED <<server, cmd, seen, todo, bad, faults>>

RefuseToOverwrite(p) ==
  /\ At(p, "ask")
  /\ Exit(p, "failed")
  /\ UNCHANGED <<server, faults>>

List(p) ==
  /\ At(p, "list")
  /\ LET rows == Filtered(cmd[p]) IN
       \/ rows = {} /\ Exit(p, "ok")
       \/ /\ rows # {} /\ Goto(p, "askAll")
          /\ seen' = [seen EXCEPT ![p] = rows]
          /\ UNCHANGED <<cmd, agreed, todo, bad>>
  /\ UNCHANGED <<server, faults>>

(* WRONG: the list is read again after the prompt.                          *)
ListAgain(p) ==
  /\ At(p, "askAll")
  /\ agreed' = [agreed EXCEPT ![p] = {name[u] : u \in seen[p]}]
  /\ seen' = [seen EXCEPT ![p] = Filtered(cmd[p])]
  /\ Goto(p, "delete")
  /\ UNCHANGED <<server, cmd, todo, bad, faults>>

AgreeToDelete(p) ==
  /\ At(p, "askAll")
  /\ agreed' = [agreed EXCEPT ![p] = {name[u] : u \in seen[p]}]
  /\ Goto(p, "delete")
  /\ UNCHANGED <<server, cmd, seen, todo, bad, faults>>

(* "Skipping delete command." is a success.                                *)
RefuseToDelete(p) ==
  /\ At(p, "askAll")
  /\ Exit(p, "ok")
  /\ UNCHANGED <<server, faults>>

(* A failing check counts as "not installed".                              *)
CheckPathways(p) ==
  /\ At(p, "delete")
  /\ \/ Goto(p, IF Pathways THEN "owners" ELSE "jobsets") /\ UNCHANGED faults
     \/ Pathways /\ Fault /\ Goto(p, "jobsets")
  /\ todo' = [todo EXCEPT ![p] = Commands(p)]
  /\ bad' = [bad EXCEPT ![p] = FALSE]
  /\ UNCHANGED <<server, cmd, seen, agreed>>

Ended(p, n, failed) ==
  /\ todo' = [todo EXCEPT ![p][n] = @ - 1]
  /\ bad' = [bad EXCEPT ![p] = @ \/ failed]

(* One `kubectl delete` of the batch, which fails if there is no such       *)
(* object; a fault is a failure that leaves open whether it had effect.     *)
DeleteOwner(p, n) ==
  /\ At(p, "owners") /\ todo[p][n] > 0
  /\ LET there == {u \in Live(n) : owner[u] = "there"}
         effect == owner' = [u \in Uids |->
                               IF u \in there THEN "deleted" ELSE owner[u]]
     IN \/ effect /\ Ended(p, n, there = {}) /\ UNCHANGED faults
        \/ (effect \/ UNCHANGED owner) /\ Ended(p, n, TRUE) /\ Fault
  /\ UNCHANGED <<name, life, outcome, queue, pc, cmd, seen, agreed>>

DeleteJobset(p, n) ==
  /\ At(p, "jobsets") /\ todo[p][n] > 0
  /\ LET effect == life' = [u \in Uids |->
                              IF u \in Live(n) THEN "gone" ELSE life[u]]
     IN \/ effect /\ Ended(p, n, Live(n) = {}) /\ UNCHANGED faults
        \/ (effect \/ UNCHANGED life) /\ Ended(p, n, TRUE) /\ Fault
  /\ UNCHANGED <<name, outcome, owner, queue, pc, cmd, seen, agreed>>

Deleted(p) == IF cmd[p].kind = "create" THEN "schedule" ELSE "ok"

(* Unless every PathwaysJob was there, all JobSets are deleted by name.     *)
OwnersDone(p) ==
  /\ At(p, "owners") /\ todo[p] = Nothing
  /\ \/ ~ bad[p] /\ Follow(p, Deleted(p))
     \/ /\ bad[p] /\ Goto(p, "jobsets")
        /\ todo' = [todo EXCEPT ![p] = Commands(p)]
        /\ bad' = [bad EXCEPT ![p] = FALSE]
        /\ UNCHANGED <<cmd, seen, agreed>>
  /\ UNCHANGED <<server, faults>>

(* WRONG: workload create goes on when the old workload was not deleted.    *)
FailuresIgnored(p) ==
  /\ At(p, "jobsets") /\ todo[p] = Nothing
  /\ Follow(p, Deleted(p))
  /\ UNCHANGED <<server, faults>>

JobsetsDone(p) ==
  /\ At(p, "jobsets") /\ todo[p] = Nothing
  /\ Follow(p, IF bad[p] THEN "failed" ELSE Deleted(p))
  /\ UNCHANGED <<server, faults>>

(* It cannot be scheduled, or another check fails; what was deleted for it  *)
(* is not restored.                                                        *)
Reject(p) ==
  /\ At(p, "schedule")
  /\ Exit(p, "failed")
  /\ UNCHANGED <<server, faults>>

Create(p) ==
  /\ At(p, "schedule") /\ Live(cmd[p].name) = {}
  /\ \E u \in Free :
       /\ name' = [name EXCEPT ![u] = cmd[p].name]
       /\ life' = [life EXCEPT ![u] = "live"]
  /\ Exit(p, "ok")
  /\ UNCHANGED <<outcome, owner, queue, faults>>

(* kubectl apply finds a JobSet with this name: it is left as it is, or     *)
(* the change is not allowed.                                              *)
ApplyToExisting(p) ==
  /\ At(p, "schedule") /\ Live(cmd[p].name) # {}
  /\ Exit(p, "ok") \/ Exit(p, "failed")
  /\ UNCHANGED <<server, faults>>

(* `kubectl get workloads | grep jobset-NAME` also finds longer names, and  *)
(* "jobset-a-1-..." may be listed before "jobset-a-f...": the first row     *)
(* may be any of them.                                                     *)
Grep(p) ==
  /\ At(p, "grep")
  /\ LET hits == {u \in Rows : name[u] \in StartWith[cmd[p].name]} IN
       \/ hits = {} /\ Exit(p, "failed")
       \/ \E u \in hits : /\ Goto(p, "waiting")
                          /\ seen' = [seen EXCEPT ![p] = {u}]
                          /\ UNCHANGED <<cmd, agreed, todo, bad>>
  /\ UNCHANGED <<server, faults>>

(* kubectl wait returns when the object is finished, has vanished, or when  *)
(* the time given by the user (one week, if none) is over.                 *)
WaitEnds(p) ==
  /\ At(p, "waiting")
  /\ \E u \in seen[p] :
       Follow(p, CASE queue[u] = "finished" -> "status"
                   [] queue[u] = "gone" -> "failed"
                   [] OTHER -> "timedOut")
  /\ UNCHANGED <<server, faults>>

(* WRONG: a workload that finished has completed.                           *)
FinishedIsCompleted(p) ==
  /\ At(p, "status")
  /\ Follow(p, IF Live(cmd[p].name) = {} THEN "failed" ELSE "report")
  /\ UNCHANGED <<server, faults>>

GetStatus(p) ==
  /\ At(p, "status")
  /\ Follow(p, CASE Live(cmd[p].name) = {} -> "failed"
                 [] \E u \in Live(cmd[p].name) : outcome[u] = "Completed" ->
                      "report"
                 [] OTHER -> "unsuccessful")
  /\ UNCHANGED <<server, faults>>

Report(p) ==
  /\ At(p, "report")
  /\ Exit(p, "ok")
  /\ UNCHANGED <<server, faults>>

(* Any other call fails, or the process is killed.                         *)
Abort(p) ==
  /\ pc[p] \in Running
  /\ Fault
  /\ Exit(p, "failed")
  /\ UNCHANGED server
-----------------------------------------------------------------------------
(* Kueue, the JobSet controller and the garbage collector.                  *)
Enqueue(u) ==
  /\ life[u] = "live" /\ queue[u] = "none"
  /\ queue' = [queue EXCEPT ![u] = "queued"]
  /\ UNCHANGED <<name, life, outcome, owner>>

Evict(u) ==
  /\ life[u] = "live" /\ queue[u] = "running" /\ outcome[u] = "none"
  /\ queue' = [queue EXCEPT ![u] = "queued"]
  /\ UNCHANGED <<name, life, outcome, owner>>

Admit(u) ==
  /\ life[u] = "live" /\ queue[u] = "queued"
  /\ queue' = [queue EXCEPT ![u] = "running"]
  /\ UNCHANGED <<name, life, outcome, owner>>

JobEnds(u) ==
  /\ life[u] = "live" /\ queue[u] = "running" /\ outcome[u] = "none"
  /\ \E o \in {"Completed", "Failed"} : outcome' = [outcome EXCEPT ![u] = o]
  /\ UNCHANGED <<name, life, owner, queue>>

MarkFinished(u) ==
  /\ life[u] = "live" /\ queue[u] = "running" /\ outcome[u] # "none"
  /\ queue' = [queue EXCEPT ![u] = "finished"]
  /\ UNCHANGED <<name, life, outcome, owner>>

(* ttlSecondsAfterFinished                                                 *)
Expire(u) ==
  /\ life[u] = "live" /\ outcome[u] # "none"
  /\ life' = [life EXCEPT ![u] = "gone"]
  /\ UNCHANGED <<name, outcome, owner, queue>>

(* What belonged to an object that was deleted is deleted later.            *)
Collect(u) ==
  /\ \/ /\ life[u] = "live" /\ owner[u] = "deleted"
        /\ life' = [life EXCEPT ![u] = "gone"] /\ UNCHANGED queue
     \/ /\ life[u] = "gone" /\ queue[u] \in Listed
        /\ queue' = [queue EXCEPT ![u] = "gone"] /\ UNCHANGED life
  /\ UNCHANGED <<name, outcome, owner>>
-----------------------------------------------------------------------------
(* A cluster without workloads, or one with a workload that an older xpk    *)
(* made through a PathwaysJob.                                             *)
Init ==
  /\ \E old \in SUBSET Uids :
       /\ old # {} => Pathways /\ Cardinality(old) = 1
       /\ name \in {f \in [Uids -> Names \cup {NoName}] :
                      \A u \in Uids : f[u] = NoName <=> u \notin old}
       /\ life = [u \in Uids |-> IF u \in old THEN "live" ELSE "unused"]
       /\ owner = [u \in Uids |-> IF u \in old THEN "there" ELSE "none"]
  /\ outcome = [u \in Uids |-> "none"] /\ queue = [u \in Uids |-> "none"]
  /\ pc = [p \in Procs |-> "ok"] /\ cmd = [p \in Procs |-> Idle]
  /\ seen = [p \in Procs |-> {}] /\ agreed = [p \in Procs |-> {}]
  /\ todo = [p \in Procs |-> Nothing] /\ bad = [p \in Procs |-> FALSE]
  /\ faults = MaxFaults

XpkStep(p) ==
  \/ CheckExists(p) \/ AgreeToOverwrite(p) \/ RefuseToOverwrite(p) \/ List(p)
  \/ AgreeToDelete(p) \/ RefuseToDelete(p) \/ CheckPathways(p)
  \/ (\E n \in Names : DeleteOwner(p, n) \/ DeleteJobset(p, n))
  \/ OwnersDone(p) \/ JobsetsDone(p) \/ Reject(p) \/ Create(p)
  \/ ApplyToExisting(p) \/ Grep(p) \/ WaitEnds(p) \/ GetStatus(p) \/ Report(p)

ServerStep ==
  /\ \E u \in Uids : \/ Enqueue(u) \/ Evict(u) \/ Admit(u) \/ JobEnds(u)
                     \/ MarkFinished(u) \/ Expire(u) \/ Collect(u)
  /\ UNCHANGED <<pc, local, faults>>

Next ==
  \/ \E p \in Procs : XpkStep(p) \/ Abort(p)
  \/ \E p \in Procs, c \in CommandLines : Start(p, c)
  \/ ServerStep

Spec == Init /\ [][Next]_vars
-----------------------------------------------------------------------------
(* Types of all variables; Kubernetes keeps one JobSet per name.            *)
TypeOK ==
  /\ name \in [Uids -> Names \cup {NoName}]
  /\ life \in [Uids -> {"unused", "live", "gone"}]
  /\ outcome \in [Uids -> {"none", "Completed", "Failed"}]
  /\ owner \in [Uids -> {"none", "there", "deleted"}]
  /\ queue \in [Uids -> {"none", "gone"} \cup Listed]
  /\ pc \in [Procs -> Stopped \cup Running]
  /\ cmd \in [Procs -> Command]
  /\ seen \in [Procs -> SUBSET Uids]
  /\ agreed \in [Procs -> SUBSET (Names \cup {NoName})]
  /\ todo \in [Procs -> [Names -> Nat]]
  /\ bad \in [Procs -> BOOLEAN]
  /\ faults \in 0 .. MaxFaults
  /\ \A u, v \in Uids :
       life[u] = "live" /\ life[v] = "live" /\ name[u] = name[v] => u = v

(* It is there, and nothing that was deleted will take it away.             *)
Stays(u) == life[u] = "live" /\ owner[u] # "deleted"

(* A workload that has not ended is deleted only by a process whose user    *)
(* named it or saw its name in the prompt and agreed, whatever was created, *)
(* deleted or listed by others since.                                      *)
OnlyAgreed ==
  [][\A u \in Uids :
       Stays(u) /\ ~ Stays(u)' /\ outcome[u] = "none"
         => \E p \in Procs : /\ pc[p] \in {"owners", "jobsets"}
                             /\ name[u] \in agreed[p]]_vars

Returns(p, code) == pc[p] \in Running /\ pc'[p] = code

(* When delete, or create after the user agreed to overwrite, returns 0,    *)
(* every JobSet it was about is gone (or goes with its PathwaysJob),        *)
(* although rows are looked up as Workload objects and deleted by name.     *)
SuccessMeansGone ==
  [][\A p \in Procs :
       Returns(p, "ok") /\ cmd[p].kind # "wait" /\ agreed[p] # {}
         => \A u \in seen[p] : ~ Stays(u)']_vars

(* "0: Workload finished and completed successfully": a wait that returns 0 *)
(* has seen a workload of exactly this name complete, even if it waited for *)
(* another one, or the workload was replaced while it waited.               *)
ZeroMeansCompleted ==
  [][\A p \in Procs :
       Returns(p, "ok") /\ cmd[p].kind = "wait"
         => \E u \in Uids :
              name[u] = cmd[p].name /\ outcome[u] = "Completed"]_vars
=============================================================================
