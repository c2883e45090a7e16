------------------------------ MODULE Protocol ------------------------------
(***************************************************************************)
(* The vocabulary of the JSON-RPC layer: what a message content can be,    *)
(* which methods are registered with the dispatcher, what the parameter    *)
(* setters accept and what each handler of LSP_server answers.             *)
(*                                                                         *)
(* A content is abstracted to the facts Dispatcher::call tests, in the     *)
(* order in which it tests them.                                           *)
(***************************************************************************)
EXTENDS Integers

CONSTANT Ids  \* the integers that a client uses as request ids

ASSUME IdAssumption == Ids \subseteq Int

(***************************************************************************)
(* An "id" member is an integer or a string of digits; the server accepts  *)
(* both forms, but answers with the integer.                               *)
(***************************************************************************)
IdMember == {"int", "string"} \X Ids

(***************************************************************************)
(* text    - the content does not parse, parses to something that is not   *)
(*           an object, or parses to an object                             *)
(* version - there is a member "jsonrpc" with the value "2.0"              *)
(* id      - absent, unusable (neither an integer nor a numeric string),   *)
(*           or one of IdMember                                            *)
(* method  - the member "method"; NoMethod when absent or not a string     *)
(* params  - "absent" stands for a missing or null member, "complete" for  *)
(*           an object with every member that the method's setter asks     *)
(*           for, "partial" for one that lacks a member, "half_range" for  *)
(*           a complete one but for a range in it that lacks its start,    *)
(*           its end or a number of them, "mistyped" for one with a member *)
(*           of the wrong JSON type and "scalar" for something that is not *)
(*           an object                                                     *)
(***************************************************************************)
NoMethod == "(no method)"

ParamShapes == {"absent", "complete", "partial", "half_range", "mistyped", "scalar"}

Content == [ text    : {"unparsable", "scalar", "object"},
             version : BOOLEAN,
             id      : {<<"absent">>, <<"unusable">>} \cup IdMember,
             method  : STRING,
             params  : ParamShapes ]

HasId(m) == m.id[1] # "absent"

\* Mutant: a string id that nobody converts reads as 0.
RequestIdUnparsed(m) == IF m.id[1] = "string" THEN 0 ELSE m.id[2]

(***************************************************************************)
(* std::stoi of a string id, GetInt of an integer one.                     *)
(***************************************************************************)
RequestId(m) == m.id[2]

-----------------------------------------------------------------------------
(***************************************************************************)
(* The handlers of LSP_server, by what they send back.                     *)
(***************************************************************************)

\* reply(null), whatever the state of the server.
NullReply ==
    { "shutdown", "textDocument/codeLens", "codeLens/resolve",
      "textDocument/completion", "textDocument/definition",
      "textDocument/formatting", "textDocument/implementation",
      "textDocument/onTypeFormatting", "textDocument/rangeFormatting",
      "textDocument/rename", "textDocument/signatureHelp",
      "textDocument/typeDefinition" }

\* Exactly one reply on every path, its content taken from the P4_file.
DocumentReply ==
    { "textDocument/documentHighlight", "textDocument/documentSymbol",
      "textDocument/hover" }

\* No call of reply on any path, even when the message is a request.
NoReply ==
    { "exit", "textDocument/codeAction", "textDocument/didChange",
      "textDocument/didClose", "textDocument/didOpen", "textDocument/didSave",
      "textDocument/switchSourceHeader", "workspace/didChangeConfiguration",
      "workspace/didChangeWatchedFiles", "workspace/executeCommand" }

\* register_protocol_handlers: the keys of Dispatcher::_handlers.
Handlers == {"initialize"} \cup NullReply \cup DocumentReply \cup NoReply

Replies(method) == method \in Handlers \ NoReply

-----------------------------------------------------------------------------
(***************************************************************************)
(* set_params_from_json.  The overloads for the position parameters, for   *)
(* didChange, didOpen, didSave and documentSymbol fail when a member is    *)
(* missing; the one for initialize reads members but never fails; all the  *)
(* others return true without looking at the object.                       *)
(***************************************************************************)
PositionParams ==
    { "textDocument/definition", "textDocument/documentHighlight",
      "textDocument/hover", "textDocument/implementation",
      "textDocument/signatureHelp", "textDocument/typeDefinition" }

DocumentParams ==
    { "textDocument/didChange", "textDocument/didOpen",
      "textDocument/didSave", "textDocument/documentSymbol" }

NeedsParams == PositionParams \cup DocumentParams

\* Only didChange reads ranges; the others do not see what a range lacks.
SetParams(m) == m.method \in NeedsParams => m.params \in {"complete", "half_range"}

\* A JSON accessor of the wrong type fails its assertion in rapidjson: GetObject
\* in call on anything that is not an object, the typed getters in the setters;
\* so does operator[] in the constructor of Range where the member is missing.
ParamsAssertionFails(m) ==
    /\ m.method \in Handlers
    /\ \/ m.params = "scalar"
       \/ m.params = "mistyped" /\ m.method \in NeedsParams \cup {"initialize"}
       \/ m.params = "half_range" /\ m.method = "textDocument/didChange"

\* on_textDocument_didOpen looks for the command of the file: what it reads in a
\* compile_commands.json can fail an assertion (FindAborts of CompileCommands).
HandlerMayAbort(m) == m.method = "textDocument/didOpen" /\ SetParams(m)

-----------------------------------------------------------------------------
(***************************************************************************)
(* The tests that call makes before it enters any context: the document    *)
(* parses, it is an object, it is JSON-RPC 2.0, the id (if there is one)   *)
(* is an int, there is a method.  The first one to fail decides.           *)
(***************************************************************************)
Dropped(m) ==
    \/ m.text = "unparsable"
    \/ m.text = "object" /\ ~m.version
    \/ m.text = "object" /\ m.version /\ m.id[1] # "unusable" /\ m.method = NoMethod

\* FindMember on a non-object and GetInt on a non-integer fail an assertion;
\* std::stoi on a non-numeric string throws.  Nothing catches either one.
HeadAborts(m) ==
    \/ m.text = "scalar"
    \/ m.text = "object" /\ m.version /\ m.id[1] = "unusable"

Accepted(m) == ~Dropped(m) /\ ~HeadAborts(m)

Aborts(m) == HeadAborts(m) \/ (Accepted(m) /\ ParamsAssertionFails(m))

\* What is on the disk decides, not the content.
MayAbort(m) == Accepted(m) /\ ~ParamsAssertionFails(m) /\ HandlerMayAbort(m)

-----------------------------------------------------------------------------
(***************************************************************************)
(* LSP_server::_capabilities: TRUE where the optional is engaged (with the *)
(* value true), FALSE for boost::none; get_json adds a member to the reply *)
(* to "initialize" for each engaged one.                                   *)
(***************************************************************************)
capabilities ==
    [ willSave |-> TRUE, willSaveWaitUntil |-> TRUE,
      completionProvider |-> FALSE, signatureHelpProvider |-> FALSE,
      codeLensProvider |-> FALSE, documentOnTypeFormattingProvider |-> FALSE,
      executeCommandProvider |-> FALSE, hoverProvider |-> TRUE,
      definitionProvider |-> TRUE, typeDefinitionProvider |-> TRUE,
      implementationProvider |-> TRUE, referencesProvider |-> TRUE,
      documentHighlightProvider |-> TRUE, documentSymbolProvider |-> TRUE,
      codeActionProvider |-> FALSE, documentFormattingProvider |-> FALSE,
      documentRangeFormattingProvider |-> FALSE, renameProvider |-> TRUE ]

CapabilitiesJson == { c \in DOMAIN capabilities : capabilities[c] }

\* The requests of the protocol that a client may send once it has seen the
\* member; willSave is a notification and has no answer to wait for.
RequestOf ==
    [ willSaveWaitUntil |-> "textDocument/willSaveWaitUntil",
      hoverProvider |-> "textDocument/hover",
      definitionProvider |-> "textDocument/definition",
      typeDefinitionProvider |-> "textDocument/typeDefinition",
      implementationProvider |-> "textDocument/implementation",
      referencesProvider |-> "textDocument/references",
      documentHighlightProvider |-> "textDocument/documentHighlight",
      documentSymbolProvider |-> "textDocument/documentSymbol",
      renameProvider |-> "textDocument/rename" ]

AdvertisedRequests == { RequestOf[c] : c \in CapabilitiesJson \cap DOMAIN RequestOf }

-----------------------------------------------------------------------------
Reply == [id : Ids, kind : {"result", "error"}]

(***************************************************************************)
(* The answer that a content gets: an error when no handler is registered, *)
(* a result from a handler that replies and whose parameters could be set. *)
(* A notification gets none, and neither does a dropped content.           *)
(***************************************************************************)
AnswerTo(m) ==
    IF Dropped(m) \/ Aborts(m) \/ ~HasId(m) THEN {}
    ELSE IF m.method \notin Handlers THEN {[id |-> RequestId(m), kind |-> "error"]}
    ELSE IF SetParams(m) /\ Replies(m.method) THEN {[id |-> RequestId(m), kind |-> "result"]}
    ELSE {}

=============================================================================
