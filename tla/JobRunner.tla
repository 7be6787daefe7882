------------------------------ MODULE JobRunner ------------------------------
(***************************************************************************)
(* What worker promises, with no threads, slots or locks in it: the lines  *)
(* of the input are taken in order, at most `Count' of them are in hand at *)
(* any time, the program runs once for each, a failed line is reported at  *)
(* most once, and the run is over only when every line has been dealt with.*)
(***************************************************************************)
EXTENDS Integers, FiniteSets

CONSTANTS Count, NLines,
          Outcomes,   \* ways a program may end
          Failures    \* those of them that are reported

Lines == 1 .. NLines

VARIABLES
  phase,     \* of each line: unread, taken, running, ended, closed
  result,    \* of each line's program, "none" until it has ended
  reported,  \* lines in the error file
  over       \* "no", "done", or "aborted" by an exit()

vars == <<phase, result, reported, over>>

InHand == {l \in Lines : phase[l] \in {"taken", "running", "ended"}}

Init ==
  /\ phase = [l \in Lines |-> "unread"]
  /\ result = [l \in Lines |-> "none"]
  /\ reported = {}
  /\ over = "no"

Take(l) ==
  /\ over = "no"
  /\ phase[l] = "unread"
  /\ \A k \in Lines : k < l => phase[k] # "unread"
  /\ Cardinality(InHand) < Count
  /\ phase' = [phase EXCEPT ![l] = "taken"]
  /\ UNCHANGED <<result, reported, over>>

Begin(l) ==
  /\ over = "no"
  /\ phase[l] = "taken"
  /\ phase' = [phase EXCEPT ![l] = "running"]
  /\ UNCHANGED <<result, reported, over>>

\* A program may still end after its runner has been aborted.
End(l) ==
  /\ phase[l] = "running"
  /\ phase' = [phase EXCEPT ![l] = "ended"]
  /\ \E o \in Outcomes : result' = [result EXCEPT ![l] = o]
  /\ UNCHANGED <<reported, over>>

Report(l) ==
  /\ over = "no"
  /\ phase[l] = "ended"
  /\ result[l] \in Failures
  /\ l \notin reported
  /\ reported' = reported \cup {l}
  /\ UNCHANGED <<phase, result, over>>

Close(l) ==
  /\ over = "no"
  /\ phase[l] = "ended"
  /\ phase' = [phase EXCEPT ![l] = "closed"]
  /\ UNCHANGED <<result, reported, over>>

Finish ==
  /\ over = "no"
  /\ \A l \in Lines : phase[l] = "closed"
  /\ over' = "done"
  /\ UNCHANGED <<phase, result, reported>>

Abort ==
  /\ over' = "aborted"
  /\ UNCHANGED <<phase, result, reported>>

Next ==
  \/ \E l \in Lines : Take(l) \/ Begin(l) \/ End(l) \/ Report(l) \/ Close(l)
  \/ Finish
  \/ Abort

Spec == Init /\ [][Next]_vars
=============================================================================
