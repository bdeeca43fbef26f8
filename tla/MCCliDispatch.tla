--------------------------- MODULE MCCliDispatch ---------------------------
(***************************************************************************)
(* Lines for CliDispatch: each command with and without parameters, each   *)
(* motor option, in range and out of range; a downramp value that is in    *)
(* range only after it was cut twice (500000), one that 16 bits bring into *)
(* range (6558600), and lines of another word that carry a motor option.   *)
(***************************************************************************)
EXTENDS CliDispatch

Bare(w)         == [word |-> w, option |-> "", param |-> "", value |-> 0]
With(w, o)      == [Bare(w) EXCEPT !.option = o]
Get(p)          == [With("motor", "get") EXCEPT !.param = p]
Set(w, p, v)    == [word |-> w, option |-> "set", param |-> p, value |-> v]

MCLines ==
         {Bare(w) : w \in {"help", "motor", "task", "?"}}
    \cup {With("help", "stop"), With("task", "stop"), With("?", "start")}
    \cup {With("motor", o) : o \in {"help", "start", "stop", "set", "get", "?"}}
    \cup {Get(p) : p \in {"speed", "downramp", "?"}}
    \cup {Set("motor", "speed", v) : v \in {50, 700}}
    \cup {Set("motor", "downramp", v) : v \in {5000, 500000, 6558600}}
    \cup {Set("motor", "speed", 0), Set("motor", "?", 1), Set("motor", "upramp", 301),
          Set("motor", "upramp", 20), Set("task", "upramp", 20)}
=============================================================================
