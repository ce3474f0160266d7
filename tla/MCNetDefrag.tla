----------------------------- MODULE MCNetDefrag -----------------------------
(***************************************************************************)
(* Three datagrams: five fragments of which the last is odd, seven of      *)
(* which the last two do not fit, and two.                                 *)
(***************************************************************************)
EXTENDS NetDefrag

MCDatagrams == {1, 2, 3}
MCLength == <<19, 25, 7>>
MCIds == <<11, 12, 13>>
=============================================================================
