------------------------------ MODULE MCWriter ------------------------------
(***************************************************************************)
(* Small instances of Writer: all the calls with at most MaxRows rows,     *)
(* MaxThreads threads and MaxLines lines in a buffer.                      *)
(***************************************************************************)
EXTENDS Writer

CONSTANTS MaxRows, MaxThreads, MaxLines

Calls ==
  [target : Targets, rows : 0 .. MaxRows, num_threads : 1 .. MaxThreads,
   buf_lines : 1 .. MaxLines, col_names : BOOLEAN, append : BOOLEAN, bom : BOOLEAN,
   open : BOOLEAN, lazy : BOOLEAN]

(* Only a connection may be open already, and vroom_format() never appends. *)
Real == {c \in Calls : (c.open => c.target = "connection")
                       /\ (c.append => c.target # "string")}

(* A connection gets no byte order mark, whatever bom says. *)
BomToConnection == {c \in Real : c.target = "connection" /\ c.bom}

Documented == Real \ BomToConnection
=============================================================================
