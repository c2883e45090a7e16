------------------------- MODULE MCCompileCommands --------------------------
(***************************************************************************)
(* Two files, one of them in a subdirectory that can have a database of    *)
(* its own in front of the one at the root.                                *)
(***************************************************************************)
EXTENDS CompileCommands

MCAncestors == "main.p4" :> <<"root">> @@ "lib/core.p4" :> <<"lib", "root">>
=============================================================================
