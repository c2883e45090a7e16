----------------------------- MODULE Documents ------------------------------
(***************************************************************************)
(* Document synchronisation: the texts in the client's editor and the      *)
(* P4_files of the server, kept in step by didOpen, didChange, didClose    *)
(* and didSave.  The notifications arrive in order and are handled one at  *)
(* a time (LspServer), so that sending one and handling it is one step.    *)
(***************************************************************************)
EXTENDS P4File, CompileCommands

CONSTANTS
    Texts,      \* the texts a client opens a document with
    Insertions, \* the texts it inserts
    MaxLength,  \* bound on the length of a text
    MaxLost     \* bound on the edits that the client reports after the server
                \* has lost a document, and before it sends the whole text

\* No text of a client begins in the middle of a character.
ASSUME TextsAssumption ==
    \A text \in Texts \cup Insertions :
        text \in Text /\ (text # <<>> => text[1] \notin ContinuationBytes)
ASSUME DocumentBoundsAssumption == MaxLength \in Nat /\ MaxLost \in Nat

VARIABLES
    editor,  \* the client's documents: the open ones, with their texts
    files,   \* LSP_server::_files: every path ever opened, with its P4_file
    lost     \* history: for each path, how many notifications it was sent since
             \* the first one that it does not follow

documentVars == <<editor, files, lost>>
vars == <<documentVars, commandVars>>

\* The members of P4_file: the command line it was constructed with, and the text.
NewFile(command, text) == [argv |-> command, source |-> text]

DocumentsInit ==
    /\ CommandsInit
    /\ editor = <<>>
    /\ files = <<>>
    /\ lost = [path \in Files |-> 0]

-----------------------------------------------------------------------------
(***************************************************************************)
(* on_textDocument_didOpen.  The command is looked up in any case, but     *)
(* emplace does nothing for a path that is already in the map.             *)
(***************************************************************************)
DidOpen(path, text) ==
    /\ ~aborted /\ path \notin DOMAIN editor
    /\ editor' = Emplace(editor, [p \in {path} |-> text])
    /\ \/ /\ \E command \in Command \cup {NoCommand} :
               /\ FindCommand(path, command)
               /\ files' = Emplace(files, [p \in {path} |-> NewFile(command, text)])
          /\ UNCHANGED aborted
       \/ /\ FindAborts(path)
          /\ aborted' = TRUE
          /\ UNCHANGED <<files, commands>>
    /\ lost' = IF lost[path] = 0 /\ path \in DOMAIN files /\ files[path].source # text
               THEN [lost EXCEPT ![path] = 1] ELSE lost
    /\ UNCHANGED <<disk, listed>>

\* on_textDocument_didClose does nothing: the P4_file stays in the map.
DidClose(path) ==
    /\ ~aborted /\ path \in DOMAIN editor
    /\ editor' = [p \in DOMAIN editor \ {path} |-> editor[p]]
    /\ UNCHANGED <<files, lost, commandVars>>

\* on_textDocument_didSave does not look at the text that comes with it.
DidSave(path) ==
    /\ ~aborted /\ path \in DOMAIN editor
    /\ UNCHANGED vars

\* on_textDocument_didChange
Handle(path, changes) ==
    files' = IF path \in DOMAIN files
             THEN [files EXCEPT ![path].source = change_source_code(@, changes)]
             ELSE files

\* The client replaces the whole text.
ReplaceText(path, text) ==
    /\ ~aborted /\ path \in DOMAIN editor
    /\ editor' = [editor EXCEPT ![path] = text]
    /\ Handle(path, << [range |-> <<>>, rangeLength |-> <<>>, text |-> text] >>)
    /\ lost' = [lost EXCEPT ![path] = 0]
    /\ UNCHANGED commandVars

(***************************************************************************)
(* The change by which a client reports that it replaced what is between   *)
(* two indices of its text, with or without the length of that part, which *)
(* is its number of UTF-16 units.                                          *)
(***************************************************************************)
UnitsBetween(text, from, to) ==
    LET part == SubSeq(text, from + 1, to)
    IN  Len(part) - Cardinality({ i \in DOMAIN part : part[i] \in ContinuationBytes })
                  + Cardinality({ i \in DOMAIN part : part[i] \in FourByteLeads })

Report(text, from, to, insertion, withLength) ==
    [ range       |-> <<PositionOf(text, from), PositionOf(text, to)>>,
      rangeLength |-> IF withLength THEN <<UnitsBetween(text, from, to)>> ELSE <<>>,
      text        |-> insertion ]

\* The edits of a text: where it is cut, and what is put there.
Edits(text) ==
    { range \in Boundaries(text) \X Boundaries(text) : range[1] <= range[2] } \X Insertions

Apply(text, edit) == Splice(text, edit[1][1], edit[1][2], edit[2])

(***************************************************************************)
(* A range that the server does not follow: one of its ends is at the end  *)
(* of a line or behind a character outside ASCII, or its length counts     *)
(* such characters.                                                        *)
(***************************************************************************)
Unfollowed(text, edit, withLength) ==
    \/ \E i \in {edit[1][1], edit[1][2]} : AtEndOfLine(text, i) \/ ~NarrowBefore(text, i)
    \/ withLength /\ ~NarrowBetween(text, edit[1][1], edit[1][2])

\* One more report for a document that is lost, or that is lost with it.
Reported(path, unfollowed) ==
    lost' = IF unfollowed \/ lost[path] > 0 THEN [lost EXCEPT ![path] = @ + 1] ELSE lost

\* The client makes one edit, or two and reports them together.
EditText(path, withLength) ==
    /\ ~aborted /\ path \in DOMAIN editor
    /\ lost[path] < MaxLost
    /\ \E first \in Edits(editor[path]) :
         LET text  == editor[path]
             text1 == Apply(text, first)
             report1 == Report(text, first[1][1], first[1][2], first[2], withLength)
         IN \/ /\ editor' = [editor EXCEPT ![path] = text1]
               /\ Handle(path, <<report1>>)
               /\ Reported(path, Unfollowed(text, first, withLength))
            \/ \E second \in Edits(text1) :
                 /\ editor' = [editor EXCEPT ![path] = Apply(text1, second)]
                 /\ Handle(path, <<report1, Report(text1, second[1][1], second[1][2],
                                                   second[2], withLength)>>)
                 /\ Reported(path, \/ Unfollowed(text, first, withLength)
                                   \/ Unfollowed(text1, second, withLength))
    /\ UNCHANGED commandVars

TextsBounded ==
    /\ \A path \in DOMAIN editor' : Len(editor'[path]) <= MaxLength
    /\ \A path \in DOMAIN files' : Len(files'[path].source) <= MaxLength

DocumentsNext ==
    \/ \E d \in Dirs, db \in Database : WriteDatabase(d, db) /\ UNCHANGED documentVars
    \/ \E path \in Files :
         \/ \E text \in Texts : DidOpen(path, text)
         \/ DidClose(path)
         \/ DidSave(path)
         \/ \E text \in Texts : ReplaceText(path, text)
         \/ \E withLength \in BOOLEAN : EditText(path, withLength) /\ TextsBounded

DocumentsSpec == DocumentsInit /\ [][DocumentsNext]_vars

-----------------------------------------------------------------------------
DocumentsTypeOK ==
    /\ CommandsTypeOK
    /\ DOMAIN editor \subseteq Files /\ \A p \in DOMAIN editor : editor[p] \in Text
    /\ DOMAIN files \subseteq Files
    /\ \A p \in DOMAIN files : files[p] \in [argv : Command \cup {NoCommand}, source : Text]
    /\ lost \in [Files -> Nat]

(***************************************************************************)
(* The server's text is the client's, whatever the sequence of opens,      *)
(* closes, replacements and batches of edits, also where it holds more     *)
(* than ASCII, unless a change touched the end of a line or stood behind   *)
(* a wide character on its line, or a closed document was opened again     *)
(* with another text.                                                      *)
(***************************************************************************)
Synchronised ==
    \A path \in DOMAIN editor \cap DOMAIN files :
        lost[path] = 0 => files[path].source = editor[path]

(***************************************************************************)
(* get_position_index, on every text the server comes to hold.             *)
(***************************************************************************)
PositionIndexExact == \A path \in DOMAIN files : IndexExact(files[path].source)

(***************************************************************************)
(* "If the character value is greater than the line length it defaults     *)
(* back to the line length."  (It does not: see the run line_end.)         *)
(***************************************************************************)
LongPositionIsLineEnd == \A path \in DOMAIN files : DefaultsToLineEnd(files[path].source)

=============================================================================
