---------------------------- MODULE MCNandWriter ----------------------------
(* The ini files TLC takes: a logo that fills its blocks, with two copies;  *)
(* no logo, with three; a logo and a program that do not fill a block, five *)
(* copies of it; a logo whose file is missing; more copies than FWInfo has  *)
(* room for; and a number that is none.                                     *)
EXTENDS NandWriter

MCInis ==
  { [logo |-> 2, exec |-> 3, num |-> 2],
    [logo |-> NoName, exec |-> 3, num |-> 3],
    [logo |-> 1, exec |-> 1, num |-> 5],
    [logo |-> Missing, exec |-> 3, num |-> 2],
    [logo |-> NoName, exec |-> 1, num |-> 16],
    [logo |-> 2, exec |-> 3, num |-> -1] }
=============================================================================
