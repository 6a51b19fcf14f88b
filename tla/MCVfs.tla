------------------------------- MODULE MCVfs -------------------------------
(***************************************************************************)
(* An instance of Vfs for TLC.  Chains have two cells (eight in the code). *)
(* The hashes let a chain wrap around the end of a table of four, be full  *)
(* while the table is not, and be full again in the table of eight it is   *)
(* rehashed into, which starts a second rehash inside the first.           *)
(***************************************************************************)
EXTENDS Vfs

MCNames   == {"", "a", "b", "c", "d", "long"}
MCHash    == [n \in MCNames |-> CASE n = "" -> 1 [] n = "a" -> 7 [] n = "b" -> 7
                                  [] n = "c" -> 8 [] n = "d" -> 4 [] n = "long" -> 0]
MCNameLen == [n \in MCNames |-> CASE n = "" -> 0 [] n = "long" -> 3 [] OTHER -> 2]
\* Two vnodes have the name "a"; the last one's name is too long.
MCVnodes  == 0 .. 6
MCName    == [v \in MCVnodes |-> <<"", "a", "b", "c", "d", "a", "long">>[v + 1]]
MCPaths   == {<<"a">>, <<"a", "b">>, <<"c", "d">>, <<"a", "", "c">>, <<"">>, <<"b", "">>,
              <<"long">>, <<"d", "long">>}
=============================================================================
