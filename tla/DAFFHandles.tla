---------------------------- MODULE DAFFHandles ----------------------------
(***************************************************************************)
(* What a language binding promises: an opened file is reached by a handle *)
(* that no file was ever reached by before, an answer about a handle comes *)
(* from the file it was given for, and a closed handle is never answered.  *)
(***************************************************************************)
EXTENDS Integers

CONSTANTS Files, NoFile,
          MaxHandle,   \* bound: handles given in a behaviour
          Error        \* a call that raised an error, or none yet

Handles == 1 .. MaxHandle

VARIABLES table,   \* handle -> file, NoFile when it is not open
          given,   \* handles that have been given to the client
          served   \* the last answer: <<handle, file it came from>>

handleVars == <<table, given, served>>

HandlesInit ==
  /\ table = [h \in Handles |-> NoFile]
  /\ given = {}
  /\ served = Error

Give(h, f) ==
  /\ h \notin given
  /\ table' = [table EXCEPT ![h] = f]
  /\ given' = given \cup {h}
  /\ served' = <<h, f>>

Take(h) ==
  /\ table[h] # NoFile
  /\ table' = [table EXCEPT ![h] = NoFile]
  /\ served' = <<h, NoFile>>
  /\ UNCHANGED given

Serve(h) ==
  /\ table[h] # NoFile
  /\ served' = <<h, table[h]>>
  /\ UNCHANGED <<table, given>>

Fail == served' = Error /\ UNCHANGED <<table, given>>

HandlesNext ==
  \/ Fail
  \/ \E h \in Handles : Take(h) \/ Serve(h) \/ \E f \in Files : Give(h, f)

HandlesSpec == HandlesInit /\ [][HandlesNext]_handleVars
=============================================================================
