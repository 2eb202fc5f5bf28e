------------------------------- MODULE MCTask -------------------------------
(***************************************************************************)
(* Task for TLC: operators who run a program, who type MDI commands, who   *)
(* do both, and who have to home the machine first.                        *)
(***************************************************************************)
EXTENDS Task

OnOff == {"STATE_RESET", "STATE_ON", "STATE_OFF", "MODE_MANUAL"}

\* Three moves fill motion's queue.
Movers ==
    [commands : {OnOff \cup {"ABORT", "MODE_AUTO", "RUN"}},
     program : {<<"move", "move", "move", "end">>},
     force : {FALSE}, volatile : {FALSE}]

\* Programs that mix what has to wait for motion, for I/O or for both.
Runners ==
    [commands : {(OnOff \ {"STATE_OFF"})
                   \cup {"ABORT", "MODE_AUTO", "RUN", "STEP", "PAUSE", "RESUME"}},
     program : {<<"move", "tool", "end">>,
                <<"dwell", "offset", "end">>,
                <<"stop", "fail", "end">>},
     force : {FALSE}, volatile : {FALSE}]

Typists ==
    [commands : {OnOff \cup {"ABORT", "STATE_ESTOP", "MODE_MDI", "EXECUTE"}},
     program : {<<"end">>},
     force : {FALSE}, volatile : {FALSE}]

Both ==
    [commands : {{"STATE_RESET", "STATE_ON", "ABORT",
                  "MODE_AUTO", "RUN", "MODE_MDI", "EXECUTE"}},
     program : {<<"tool", "end">>},
     force : {FALSE}, volatile : {FALSE}]

\* Operators who have to home the machine, again each time it was off.
Homers ==
    [commands : {OnOff \cup {"HOME", "MODE_AUTO", "RUN"},
                 (OnOff \ {"MODE_MANUAL"}) \cup {"HOME", "MODE_MDI", "EXECUTE"}},
     program : {<<"move", "end">>},
     force : {TRUE}, volatile : {TRUE}]

MCSessions == Movers \cup Runners \cup Typists \cup Both \cup Homers
=============================================================================
