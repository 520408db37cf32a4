------------------------------- MODULE Vectors ------------------------------
(***************************************************************************)
(* What the columns of a data frame promise to R code: a vector has the    *)
(* same elements for ever, however often and in whatever order they are    *)
(* asked for, whether they are parsed by then or not.                      *)
(***************************************************************************)
EXTENDS Integers, Sequences

CONSTANT MaxPicked  \* how many elements may be picked at once

VARIABLES
  contents,  \* the elements of each vector that was ever made
  answer     \* what the last call returned, if it returned elements

vars == <<contents, answer>>

NoAnswer == [op |-> "none"]

Returns(result) == answer' = result /\ UNCHANGED contents

Element(v, k) ==
  /\ k \in DOMAIN contents[v]
  /\ Returns([op |-> "element", of |-> v, at |-> k, is |-> contents[v][k]])

Elements(v) == Returns([op |-> "elements", of |-> v, is |-> contents[v]])

(* All the columns, which are the first vectors. *)
Table ==
  \E n \in 1 .. Len(contents) : Returns([op |-> "table", is |-> SubSeq(contents, 1, n)])

New(elements, from, picked) ==
  /\ contents' = Append(contents, elements)
  /\ answer' = [op |-> "vector", of |-> from, picked |-> picked]

Select(v, picked) == New([n \in DOMAIN picked |-> contents[v][picked[n]]], v, picked)

Copy(v) == New(contents[v], v, <<>>)

Forget == Returns(NoAnswer)

Next ==
  \/ \E v \in DOMAIN contents :
       \/ Elements(v)
       \/ \E k \in DOMAIN contents[v] : Element(v, k)
       \/ \E n \in 1 .. MaxPicked : \E picked \in [1 .. n -> DOMAIN contents[v]] :
            Select(v, picked)
       \/ Copy(v)
  \/ Table
  \/ Forget

Spec == answer = NoAnswer /\ [][Next]_vars

=============================================================================
