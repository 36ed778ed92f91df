------------------------------ MODULE MCServer ------------------------------
(***************************************************************************)
(* The values shared by the runs of Server.  The names are those of        *)
(* src/tests/workspace_test.ini and src/README.md where they fit:          *)
(* "looptest" waits for itself, "do_stuff" waits for "looptest", "build"   *)
(* and "loop" wait for nothing, "after_loop" waits for "loop", and "loop"  *)
(* is a proper prefix of "looptest".                                       *)
(***************************************************************************)
EXTENDS Server, TLC

CONSTANTS ws, ws2, bad, missing

MCName == {"looptest", "do_stuff", "build", "loop", "after_loop"}

MCPrefixOf == {<<n, n>> : n \in MCName} \cup {<<"loop", "looptest">>}

Runnable(wait) == [cmd |-> TRUE, wait |-> wait]

\* In ws2 a section has been edited: do_stuff no longer waits.
MCSection ==
  [f \in Path |->
    [n \in MCName |->
      CASE n = "looptest" -> Runnable("looptest")
        [] n = "do_stuff" -> Runnable(IF f = ws THEN "looptest" ELSE NULL)
        [] n = "build"    -> IF f = ws THEN Runnable(NULL) ELSE EmptySection
        [] n = "loop"     -> Runnable(NULL)
        [] n = "after_loop" -> Runnable("loop")]]

Run(n) == [type |-> "run", arg |-> n]
Set(f) == [type |-> "set", arg |-> f]
Invalid == [type |-> "invalid", arg |-> NULL]

ClientSymmetry == Permutations(Client)

\* Tasks that wait, the workspace edited under the queue, malformed messages.
FaultCommand == {Run("looptest"), Run("do_stuff"), Set(ws2), Invalid}

\* Tasks that wait for themselves or for one another.
WaitCommand == {Run("looptest"), Run("do_stuff")}

\* Waiting tasks, a run command that names no task, and a file that does not exist.
NamelessCommand == WaitCommand \cup {Run(NULL), Set(missing)}
=============================================================================
