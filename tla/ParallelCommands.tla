-------------------------- MODULE ParallelCommands --------------------------
(***************************************************************************)
(* What the callers of run_commands rely on, without batches: every command *)
(* is run once, the call returns when all of them have ended, and its       *)
(* result names the commands that ended with a positive status.  The call   *)
(* may also never return (xpk is interrupted): commands then still end.     *)
(***************************************************************************)
EXTENDS Naturals

CONSTANT Commands

Statuses == {"zero", "positive", "signalled"}

VARIABLES
  outcome, \* how each command ended, or "open"
  result,  \* of the call: "none", "returned" or "gone"
  report   \* the commands of the returned FailedCommands

vars == <<outcome, result, report>>

Init ==
  /\ outcome = [c \in Commands |-> "open"]
  /\ result = "none" /\ report = {}

End(c) ==
  /\ outcome[c] = "open"
  /\ \E s \in Statuses : outcome' = [outcome EXCEPT ![c] = s]
  /\ UNCHANGED <<result, report>>

Return ==
  /\ result = "none"
  /\ \A c \in Commands : outcome[c] # "open"
  /\ result' = "returned"
  /\ report' = {c \in Commands : outcome[c] = "positive"}
  /\ UNCHANGED outcome

Vanish ==
  /\ result = "none" /\ result' = "gone"
  /\ UNCHANGED <<outcome, report>>

Next == Return \/ Vanish \/ \E c \in Commands : End(c)

Spec == Init /\ [][Next]_vars
=============================================================================
