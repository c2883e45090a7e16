---------------------------- MODULE MCDispatcher ----------------------------
(***************************************************************************)
(* Dispatcher with one content of every class that call tells apart, and   *)
(* with the output cut off after MaxOutput replies.                        *)
(***************************************************************************)
EXTENDS Dispatcher

CONSTANT MaxOutput

Object(id, method, params) ==
    [text |-> "object", version |-> TRUE, id |-> id, method |-> method, params |-> params]

MCMessages ==
    { [Object(<<"absent">>, "exit", "absent") EXCEPT !.text = t] : t \in {"unparsable", "scalar"} }
    \cup { [Object(<<"int", 1>>, "shutdown", "absent") EXCEPT !.version = FALSE] }
    \cup { Object(<<"int", 1>>, NoMethod, "absent"), Object(<<"unusable">>, "shutdown", "absent") }
    \cup { Object(id, method, params) :
             id \in {<<"absent">>, <<"int", 1>>, <<"string", 2>>},
             method \in { "initialize", "textDocument/hover", "textDocument/didOpen",
                          "textDocument/didChange", "workspace/executeCommand", "textDocument/references" },
             params \in ParamShapes }

OutputBound == Len(output) <= MaxOutput
=============================================================================
