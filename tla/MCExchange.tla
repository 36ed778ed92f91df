----------------------------- MODULE MCExchange -----------------------------
(***************************************************************************)
(* Command lines and what the help text of src/src/config.h says they ask  *)
(* for, written down by hand; a line without a command asks for something  *)
(* that has no type.  Words are byte sequences: 97 is "a".  The names are  *)
(* no commands themselves: the second word of a command line is looked up  *)
(* as a command too.                                                       *)
(***************************************************************************)
EXTENDS WireProofs, TLC

w_r == <<114>>
w_s == <<115>>
w_run == <<114, 117, 110>>
w_proc == <<112>>
dash_e == <<45, 101>>
dash_h == <<45, 104>>
dash_p == <<45, 112>>
dash_q == <<45, 113>>
dash_w == <<45, 119>>
w_a == <<97>>
w_ab == <<97, 98>>
w_path == <<99, 47, 100>>
w_long == <<97, 98, 99, 100, 101, 102, 103, 104>>
w_X == <<88>>
w_Y == <<89>>

Asks(type, words, env) == [type |-> type, args |-> words, vars |-> env]
Nothing == Asks(MSG_ERR, <<>>, <<>>)

\* Watching and single commands, options before, between and behind the words,
\* an argument nobody asked for, a command without a name, one that is not
\* implemented, one that does not exist, -w without a directory, and -h.
PlainUsage ==
     <<dash_w, w_a, w_r, w_ab>>                   :> Asks(MSG_TASK_RUN, <<w_ab>>, <<>>)
  @@ <<w_s, dash_p, w_a, w_path, dash_w, w_a>> :> Asks(MSG_WORKSPACE_SET, <<w_path>>, <<>>)
  @@ <<w_run, w_a, w_ab, dash_q>>                 :> Asks(MSG_TASK_RUN, <<w_a, w_ab>>, <<>>)
  @@ <<w_r>>                                      :> Nothing
  @@ <<w_proc, w_a>>                              :> Nothing
  @@ <<dash_w, w_a, w_a, w_path, dash_w>>         :> Asks(NO_COMMAND, <<w_path>>, <<>>)
  @@ <<w_r, w_a, dash_h>>                         :> Asks(MSG_TASK_RUN, <<w_a>>, <<>>)

\* The hypothesis of WireProofs is met by these command lines when messages arrive whole.
ASSUME PlainUsageIsPlain == Usage = PlainUsage /\ SPLIT = FALSE => PlainUsageOnly

\* A short and a long name, each with a variable for the environment.
EnvUsage ==
     <<w_r, w_a, dash_e, w_X>>    :> Asks(MSG_TASK_RUN, <<w_a>>, <<w_X>>)
  @@ <<w_r, w_long, dash_e, w_Y>> :> Asks(MSG_TASK_RUN, <<w_long>>, <<w_Y>>)

\* A single command.
OneUsage == <<w_r, w_ab>> :> Asks(MSG_TASK_RUN, <<w_ab>>, <<>>)
=============================================================================
