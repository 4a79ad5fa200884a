---------------------------- MODULE MCEventLoop ----------------------------
(***************************************************************************)
(* EventLoop on a small instance: a socket and the reading end of a pipe   *)
(* whose writer may go away, and three rules: one reads the socket, one    *)
(* writes it, one reads the pipe.  Only the writer's interest changes.     *)
(***************************************************************************)
EXTENDS EventLoop

CONSTANTS socket, pipe, reader, writer, watcher

ThreeRules ==
  {[id |-> writer, fd |-> socket, direction |-> "Out"],
   [id |-> watcher, fd |-> pipe, direction |-> "In"],
   [id |-> reader, fd |-> socket, direction |-> "In"]}

OneChunk == [f \in Fd |-> IF f = socket THEN 1 ELSE 0]
=============================================================================
