------------------------------ MODULE MCEnvAuto ------------------------------
(***************************************************************************)
(* A block of 12 bytes: two short definitions and an empty one fit, or a   *)
(* short and a joined one exactly; names one of which begins like another. *)
(***************************************************************************)
EXTENDS EnvAuto

a == 97
b == 98
s == 115
x == 120

MCNames == {<<a>>, <<a, b>>, <<a, EQ>>, <<s>>}
MCConsoles == {<<s>>}
MCBaudrate == <<a, b>>
MCArgs == {<<>>, << <<>> >>, << <<x>> >>, << <<x>>, <<x>> >>}
MCDefault == << [name |-> <<a>>, value |-> <<b>>] >>
=============================================================================
