------------------------------ MODULE TableQuery -----------------------------
(***************************************************************************)
(* What a query for the rows of "objs" promises: if it succeeds, all the   *)
(* rows the table had at one moment between the call and the answer; if it *)
(* fails, the first of them, or none.  The module DudeDatabase takes this  *)
(* for granted when it lets a getter have its rows in one step.            *)
(***************************************************************************)
EXTENDS Integers, Sequences

CONSTANT Databases   \* the contents the table may have

VARIABLES
  contents,  \* the rows of the table
  asked,     \* a query runs
  seen,      \* the rows it has seen, a set of at most one sequence
  answer     \* the last answer: whether it is complete, and the rows

vars == <<contents, asked, seen, answer>>

None == [ok |-> FALSE, rows |-> <<>>]

Init ==
  /\ contents \in Databases
  /\ asked = FALSE
  /\ seen = {}
  /\ answer = None

Ask ==
  /\ ~asked
  /\ asked' = TRUE
  /\ answer' = None
  /\ UNCHANGED <<contents, seen>>

Look ==
  /\ asked
  /\ seen = {}
  /\ seen' = {contents}
  /\ UNCHANGED <<contents, asked, answer>>

Succeed ==
  /\ asked
  /\ \E rows \in IF seen = {} THEN {contents} ELSE seen :
       answer' = [ok |-> TRUE, rows |-> rows]
  /\ asked' = FALSE
  /\ seen' = {}
  /\ UNCHANGED contents

\* A query may fail at once.
Fail ==
  /\ answer' \in {None} \cup UNION {{[ok |-> FALSE, rows |-> SubSeq(rows, 1, n)] :
                                       n \in 0..Len(rows)} : rows \in seen}
  /\ asked' = FALSE
  /\ seen' = {}
  /\ UNCHANGED contents

Change ==
  /\ contents' \in Databases
  /\ UNCHANGED <<asked, seen, answer>>

Next == Ask \/ Look \/ Succeed \/ Fail \/ Change

Spec == Init /\ [][Next]_vars
=============================================================================
