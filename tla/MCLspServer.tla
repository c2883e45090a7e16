---------------------------- MODULE MCLspServer -----------------------------
(***************************************************************************)
(* LspServer with a few messages that take different paths through the     *)
(* worker: a request that is answered, one that is answered with an error, *)
(* a notification, exit, a content that is dropped and one that aborts.    *)
(***************************************************************************)
EXTENDS LspServer

Object(id, method, params) ==
    [text |-> "object", version |-> TRUE, id |-> id, method |-> method, params |-> params]

MCMessages ==
    { Object(<<"int", 1>>, "shutdown", "absent"),
      Object(<<"int", 2>>, "textDocument/references", "complete"),
      Object(<<"absent">>, "exit", "absent"),
      Object(<<"absent">>, "textDocument/didOpen", "partial"),
      Object(<<"unusable">>, "shutdown", "absent") }

=============================================================================
