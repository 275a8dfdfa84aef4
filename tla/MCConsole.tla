------------------------------ MODULE MCConsole ------------------------------
(***************************************************************************)
(* Console with a program that is given one command on its command line,   *)
(* and a shell into which two commands are typed.                          *)
(***************************************************************************)
EXTENDS Console

CONSTANTS c1, c2

\* A command with an argument to encode and an empty one; an empty name; and a
\* command that the server does not know.
CommandLines ==
    c1 :> {<<"get", Semicolon, "">>, <<"">>} @@ c2 :> {<<"what">>}

Posts == c1 :> 1 @@ c2 :> 2
=============================================================================
