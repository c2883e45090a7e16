-------------------------- MODULE CompileCommands ---------------------------
(***************************************************************************)
(* LSP_server::find_command_for_path: the compilation command of a file is *)
(* taken from the nearest compile_commands.json above it, and every entry  *)
(* of a database that was read is kept in _commands for later lookups.     *)
(***************************************************************************)
EXTENDS Naturals, Sequences, TLC

CONSTANTS
    Files,       \* paths of documents and of database entries
    Dirs,        \* directories that may hold a compile_commands.json
    Ancestors,   \* the directories above a file, nearest first
    Tails,       \* what follows the compiler in a "command" member
    Includes,    \* the values that the computed include directory can have
    MaxEntries   \* bound on the entries of a database

ASSUME AncestorsAssumption == Ancestors \in [Files -> Seq(Dirs)]
ASSUME MaxEntriesAssumption == MaxEntries \in Nat

VARIABLES
    disk,      \* the compile_commands.json of each directory
    commands,  \* LSP_server::_commands
    aborted,   \* an assertion of rapidjson failed
    listed     \* history: the entries that some database has held

commandVars == <<disk, commands, aborted, listed>>

Entry == [file : Files, tail : Tails]

\* A database does not exist, is not a JSON array, is an array of which an entry
\* lacks its "file" or a "command" with a word in it, or is an array of entries.
Database == [kind : {"absent", "broken", "faulty"}, entries : {<<>>}]
            \cup [kind : {"array"}, entries : UNION { [1 .. n -> Entry] : n \in 0 .. MaxEntries }]

\* the_command: the include directory and the rest of the command.
Command == [include : Includes, tail : Tails]

\* The empty string.
NoCommand == [include |-> "", tail |-> ""]

CommandsInit ==
    /\ disk = [d \in Dirs |-> [kind |-> "absent", entries |-> <<>>]]
    /\ commands = <<>>
    /\ aborted = FALSE
    /\ listed = {}

\* The user, or a build, writes or removes a database.
WriteDatabase(d, db) ==
    /\ disk[d] # db
    /\ disk' = [disk EXCEPT ![d] = db]
    /\ listed' = listed \cup { db.entries[i] : i \in DOMAIN db.entries }
    /\ UNCHANGED <<commands, aborted>>

-----------------------------------------------------------------------------
\* The walk up the tree stops at the first directory with a database, whether
\* or not it is usable and whether or not it lists the file: one directory or none.
Nearest(file) ==
    LET dirs == Ancestors[file]
    IN  { dirs[i] : i \in { j \in DOMAIN dirs :
                              /\ disk[dirs[j]].kind # "absent"
                              /\ \A k \in 1 .. j - 1 : disk[dirs[k]].kind = "absent" } }

\* Mutant: every file of the database gets the command of its first entry.
LoadedFromFirst(entries, include) ==
    [ f \in { entries[i].file : i \in DOMAIN entries } |->
        [include |-> include, tail |-> entries[1].tail] ]

\* emplace: of several entries for one file the first one stays.
Loaded(entries, include) ==
    [ f \in { entries[i].file : i \in DOMAIN entries } |->
        LET first == CHOOSE i \in DOMAIN entries :
                       /\ entries[i].file = f
                       /\ \A k \in 1 .. i - 1 : entries[k].file # f
        IN  [include |-> include, tail |-> entries[first].tail] ]

\* emplace again: what is there stays, and the rest is added.
Emplace(map, more) ==
    [ f \in DOMAIN map \cup DOMAIN more |-> IF f \in DOMAIN map THEN map[f] ELSE more[f] ]

\* Mutant: what is read last replaces what was remembered.
RememberLast(entries, include) == Emplace(Loaded(entries, include), commands)

\* What an earlier database said of a file stays.
Remember(entries, include) == Emplace(commands, Loaded(entries, include))

Usable(db) == db.kind = "array" /\ db.entries # <<>>

\* Mutant: a lookup that finds nothing is remembered, too.
FindCommandOrNone(file, result) ==
    \/ /\ file \in DOMAIN commands
       /\ result = commands[file]
       /\ UNCHANGED commands
    \/ /\ file \notin DOMAIN commands
       /\ \A d \in Nearest(file) : disk[d].kind = "broken"
       /\ result = NoCommand
       /\ commands' = commands @@ (file :> NoCommand)

(***************************************************************************)
(* The lookup, with its result.  The include directory is derived from the *)
(* first entry's compiler, but the tokenizer that is asked for it holds    *)
(* iterators into a temporary string that is already destroyed: the name   *)
(* of the compiler, and with it the include directory, can be any.         *)
(***************************************************************************)
FindCommand(file, result) ==
    \/ /\ file \in DOMAIN commands
       /\ result = commands[file]
       /\ UNCHANGED commands
    \/ /\ file \notin DOMAIN commands
       /\ \A d \in Nearest(file) : disk[d].kind = "broken"
       /\ result = NoCommand
       /\ UNCHANGED commands
    \/ /\ file \notin DOMAIN commands
       /\ \E d \in Nearest(file), include \in Includes :
            /\ Usable(disk[d])
            /\ commands' = Remember(disk[d].entries, include)
            /\ result = IF file \in DOMAIN commands' THEN commands'[file] ELSE NoCommand

(***************************************************************************)
(* An assertion fails: GetArray()[0] on an empty array, operator[] and     *)
(* GetString on a faulty entry, the token iterator on a command without a  *)
(* word.  That of the compiler's name is read through the iterators into   *)
(* the destroyed string, so that it can fail for any array.                *)
(***************************************************************************)
FindAborts(file) ==
    /\ file \notin DOMAIN commands
    /\ \E d \in Nearest(file) : disk[d].kind \in {"array", "faulty"}

\* The lookup on its own, as on_textDocument_didOpen makes it.
Lookup(file) ==
    /\ ~aborted
    /\ \/ \E result \in Command \cup {NoCommand} : FindCommand(file, result) /\ UNCHANGED aborted
       \/ FindAborts(file) /\ aborted' = TRUE /\ UNCHANGED commands
    /\ UNCHANGED <<disk, listed>>

CommandsNext ==
    \/ \E d \in Dirs, db \in Database : WriteDatabase(d, db)
    \/ \E file \in Files : Lookup(file)

CommandsSpec == CommandsInit /\ [][CommandsNext]_commandVars

-----------------------------------------------------------------------------
CommandsTypeOK ==
    /\ disk \in [Dirs -> Database]
    /\ DOMAIN commands \subseteq Files
    /\ \A file \in DOMAIN commands : commands[file] \in Command
    /\ aborted \in BOOLEAN
    /\ listed \subseteq Entry

(***************************************************************************)
(* No invented command: whatever database a lookup loads and whatever was  *)
(* loaded before, a file is only ever given a command that some database   *)
(* has listed for that very file.                                          *)
(***************************************************************************)
OnlyListedCommands ==
    \A file \in DOMAIN commands : [file |-> file, tail |-> commands[file].tail] \in listed

(***************************************************************************)
(* A file that has a command keeps it, whatever is written to disk and     *)
(* whichever databases other lookups load: all P4_files of one path are    *)
(* compiled alike.  (The price: a database that changes is never seen.)    *)
(***************************************************************************)
CommandsStay ==
    [][\A file \in DOMAIN commands :
          file \in DOMAIN commands' /\ commands'[file] = commands[file]]_commandVars

=============================================================================
