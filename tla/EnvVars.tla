------------------------------- MODULE EnvVars -------------------------------
(***************************************************************************)
(* What setenv, saveenv and a boot promise about the environment, in terms *)
(* of the variables alone: an ordered list of definitions, no name twice,  *)
(* whose strings fit in ENV_SIZE bytes.  A boot brings up the default      *)
(* environment, an empty one, or the very list that some saveenv was       *)
(* called with, never a part of one or a mixture of two.                   *)
(*                                                                         *)
(* EnvAuto, which edits the block of bytes and writes it sector by sector, *)
(* implements it.                                                          *)
(***************************************************************************)
EXTENDS Naturals, Sequences

CONSTANTS Names,       \* the names setenv may be called with
          Values,      \* the values it may give them
          ENV_SIZE,    \* bytes of the block that holds the definitions
          Default      \* the definitions of default_environment

VARIABLES on,          \* the machine runs
          env,         \* the list of definitions, [name, value] records
          attempts     \* the lists that saveenv was called with

vars == <<on, env, attempts>>

(* The bytes of "name=value" with its terminating zero. *)
Size(e) == Len(e.name) + Len(e.value) + 2

(* The definitions and the zero that ends the block. *)
Fits(l) ==
  LET bytes[k \in 0 .. Len(l)] == IF k = 0 THEN 1 ELSE bytes[k - 1] + Size(l[k])
  IN  bytes[Len(l)] <= ENV_SIZE

Without(l, n) == SelectSeq(l, LAMBDA e : e.name # n)

Init == /\ on = FALSE
        /\ env = <<>>
        /\ attempts = {}
-----------------------------------------------------------------------------
Boot == /\ ~on
        /\ on' = TRUE
        /\ env' \in {Default, <<>>} \cup attempts
        /\ UNCHANGED attempts

(* A new definition replaces the old one and goes to the end of the list.  *)
(* When it does not fit, the old one is gone all the same.                 *)
Define(n, v) ==
  LET rest == Without(env, n)
      new  == Append(rest, [name |-> n, value |-> v])
  IN  /\ on /\ on'
      /\ env' = IF Fits(new) THEN new ELSE rest
      /\ UNCHANGED attempts

Delete(n) == /\ on /\ on'
             /\ env' = Without(env, n)
             /\ UNCHANGED attempts

Save == /\ on
        /\ UNCHANGED <<on, env>>
        /\ attempts' = attempts \cup {env}

SaveCut == /\ on
           /\ on' = FALSE
           /\ env' = <<>>
           /\ attempts' = attempts \cup {env}

PowerOff == /\ on
            /\ on' = FALSE
            /\ env' = <<>>
            /\ UNCHANGED attempts

Next == \/ Boot \/ Save \/ SaveCut \/ PowerOff
        \/ \E n \in Names : Delete(n) \/ \E v \in Values : Define(n, v)

Spec == Init /\ [][Next]_vars
=============================================================================
