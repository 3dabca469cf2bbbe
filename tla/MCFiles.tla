------------------------------- MODULE MCFiles -------------------------------
(* A small tree of paths for TLC. *)
EXTENDS Files, TLC

Abs(s) == [abs |-> TRUE, path |-> s]
Rel(s) == [abs |-> FALSE, path |-> s]

(* Directories: names made, removed and listed in every order. *)
Tree == [paths |-> {Abs(<<>>), Abs(<<"a">>), Abs(<<"d">>), Abs(<<"d", "a">>)},
         targets |-> {}, io |-> 0, FD_LIMIT |-> 3, born |-> 5]

(* Content: descriptors that read, write and seek while names change. *)
Content == [paths |-> {Abs(<<"a">>), Abs(<<"b">>)}, targets |-> {}, io |-> 1, FD_LIMIT |-> 4, born |-> 3]

(* Renames: content moves from name to name under an open descriptor. *)
Renames == [paths |-> {Abs(<<"a">>), Abs(<<"b">>)}, targets |-> {}, io |-> 1, FD_LIMIT |-> 3, born |-> 4]

(* Everything else: links, a working directory, and the other mounts. *)
Mounts == [paths |-> {Abs(<<>>), Abs(<<"d">>), Rel(<<"l">>), Abs(<<"devnull">>), Abs(<<"proc", "1", "status">>),
                      Abs(<<"proc", "1", "fd", "2">>), Abs(<<"proc", "2">>)},
           targets |-> {<<"d">>}, io |-> 0, FD_LIMIT |-> 3, born |-> 4]

MCUses == {Tree, Content, Renames, Mounts}
MCGlued == "devnull" :> [mount |-> "dev", rest |-> "null"]
MCPidOf == "1" :> 1 @@ "2" :> 2
=============================================================================
