---------------------------------- MODULE Cli ----------------------------------
(***************************************************************************)
(* The commands of impl/cmd/cli/identity.go and the file of identities they *)
(* share (impl/internal/cli/store.go).  Commands are processes of their     *)
(* own: any number of them may run at a time, and any may be killed.  No    *)
(* lock guards the file.  What keeps two writers apart is the UDP port that *)
(* impl/pkg/dht/dht.go binds, which a command holds until it exits, and     *)
(* which a gateway on the same host holds as long as it runs.               *)
(***************************************************************************)
EXTENDS Naturals, FiniteSets

CONSTANTS
    Adds,        \* runs of "id add"; each generates a key, whose identity is named
                 \* after the run
    Gets         \* runs of "id get" that ask for an identity the file does not have

ASSUME NamesAssumption == {"free", "gateway"} \intersect (Adds \union Gets) = {}
ASSUME AddsAssumption == Adds \intersect Gets = {}

VARIABLES
    port,        \* who has bound UDP port 6881 of the host: a command, "gateway" for
                 \* any other process, or nobody ("free")
    dir,         \* the directory .diddht exists
    file,        \* diddht.json: its state, and the identities in it if it is readable
    cmd,         \* where a command is
    read,        \* identities, in the memory of an add
    short        \* history: a write of the file fell short

fileVars == <<dir, file, short>>
vars == <<port, fileVars, cmd, read>>

Commands == Adds \union Gets

\* "added" has printed so; "quit" exits with status 0 and has done nothing.
Finished == {"added", "quit", "failed"}

TypeOK ==
    /\ port \in {"free", "gateway"} \union Commands
    /\ dir \in BOOLEAN /\ short \in BOOLEAN
    /\ file \in [state : {"absent", "empty", "torn", "good"}, ids : SUBSET Adds]
    /\ file.state # "good" => file.ids = {}
    /\ cmd \in [Commands -> {"none", "dht", "put", "lookup", "stat", "mkdir", "create",
                             "read", "save"} \union Finished]
    /\ read \in [Adds -> SUBSET Adds]

File(state, ids) == [state |-> state, ids |-> ids]

\* A home may have the directory and no file, or a file with identities of before.
Init ==
    /\ port = "free" /\ dir \in BOOLEAN /\ short = FALSE
    /\ file \in {File("absent", {})} \union {f \in {File("good", {})} : dir}
    /\ cmd = [c \in Commands |-> "none"]
    /\ read = [a \in Adds |-> {}]

Goto(c, pc) == cmd' = [cmd EXCEPT ![c] = pc]

\* Nothing is closed before the process exits.
Exit(c, how) ==
    /\ Goto(c, how)
    /\ port' = IF port = c THEN "free" ELSE port
    /\ read' = IF c \in Adds THEN [read EXCEPT ![c] = {}] ELSE read

-------------------------------------------------------------------------------
(* id add                                                                   *)

\* A key pair, and the records of the command line, if they are JSON.
Start(a) ==
    /\ cmd[a] = "none"
    /\ Goto(a, "dht")
    /\ UNCHANGED <<port, fileVars, read>>

\* Variant: any free port will do.
BindAny(c, bootstraps) ==
    /\ cmd[c] = "dht"
    /\ Goto(c, IF c \in Adds THEN "put" ELSE "lookup")
    /\ UNCHANGED <<port, fileVars, read>>

\* NewDHT, for either command.
Bind(c, bootstraps) ==
    /\ cmd[c] = "dht"
    /\ IF port = "free" /\ bootstraps
       THEN /\ port' = c /\ Goto(c, IF c \in Adds THEN "put" ELSE "lookup")
            /\ UNCHANGED read
       ELSE Exit(c, "failed")
    /\ UNCHANGED fileVars

\* A record without three fields returns an error variable that is nil. The identity
\* is announced before its key is saved anywhere.
Put(a, outcome) ==
    /\ cmd[a] = "put"
    /\ IF outcome = "done"
       THEN Goto(a, "stat") /\ UNCHANGED <<port, read>>
       ELSE Exit(a, outcome)
    /\ UNCHANGED fileVars

Stat(a) ==
    /\ cmd[a] = "stat"
    /\ Goto(a, IF file.state = "absent" THEN "mkdir" ELSE "read")
    /\ UNCHANGED <<port, fileVars, read>>

\* Mkdir fails on a directory that is there.
Mkdir(a) ==
    /\ cmd[a] = "mkdir"
    /\ IF dir
       THEN Exit(a, "failed")
       ELSE Goto(a, "create") /\ UNCHANGED <<port, read>>
    /\ dir' = TRUE
    /\ UNCHANGED <<file, short>>

Create(a) ==
    /\ cmd[a] = "create"
    /\ file' = File("empty", {})
    /\ Goto(a, "save")
    /\ UNCHANGED <<port, dir, short, read>>

\* The check for a known identity looks a public key up among ids and finds none.
Read(a) ==
    /\ cmd[a] = "read"
    /\ IF file.state = "good"
       THEN Goto(a, "save") /\ read' = [read EXCEPT ![a] = file.ids] /\ UNCHANGED port
       ELSE Exit(a, "failed")
    /\ UNCHANGED fileVars

\* One write from the start of the file, which is not truncated: what is written is
\* never shorter than what was read, and a reader takes the first value it finds.
Save(a) ==
    /\ cmd[a] = "save"
    /\ file' = File("good", read[a] \union {a})
    /\ Exit(a, "added")
    /\ UNCHANGED <<dir, short>>

\* Variant: what stands after the part that was written is still read.
SaveShortKeeping(a) ==
    /\ cmd[a] = "save"
    /\ file' = [file EXCEPT !.state = "torn"] /\ short' = TRUE
    /\ Exit(a, "failed")
    /\ UNCHANGED dir

\* The disk is full: nothing of the text is written, or a part of it.
SaveShort(a) ==
    /\ cmd[a] = "save"
    /\ \/ file' = file /\ UNCHANGED short
       \/ file' = File("torn", {}) /\ short' = TRUE
    /\ Exit(a, "failed")
    /\ UNCHANGED dir

-------------------------------------------------------------------------------
(* id get, and death                                                        *)

\* The file is read first: an identity in it needs no DHT, and no step here. Whatever
\* else comes of reading, the DHT is asked.
StartGet(g) ==
    /\ cmd[g] = "none"
    /\ Goto(g, "dht")
    /\ UNCHANGED <<port, fileVars, read>>

\* GetFull, without a time limit.
EndGet(g) ==
    /\ cmd[g] = "lookup"
    /\ Exit(g, "failed")
    /\ UNCHANGED fileVars

KillCommand(c) ==
    /\ cmd[c] \notin Finished
    /\ Exit(c, "failed")
    /\ UNCHANGED fileVars

\* A gateway on the same host starts and takes the port, or exits.
GatewayRuns ==
    /\ port \in {"free", "gateway"}
    /\ port' = IF port = "free" THEN "gateway" ELSE "free"
    /\ UNCHANGED <<fileVars, cmd, read>>

Next ==
    \/ \E a \in Adds :
          \/ Start(a) \/ Stat(a) \/ Mkdir(a) \/ Create(a) \/ Read(a) \/ Save(a) \/ SaveShort(a)
          \/ \E outcome \in {"done", "quit", "failed"} : Put(a, outcome)
    \/ \E g \in Gets : StartGet(g) \/ EndGet(g)
    \/ \E c \in Commands : KillCommand(c) \/ \E ok \in BOOLEAN : Bind(c, ok)
    \/ GatewayRuns

Spec == Init /\ [][Next]_vars

-------------------------------------------------------------------------------
\* An identity reported as added is in the file ever after, with the only copy of its
\* key: neither another command that read the file before, nor one that is killed before
\* its one write, takes it away. The file is not truncated first, and what is written is
\* longer than what was there; only a full disk can cut it short.
AddedIsKept == \A a \in Adds : cmd[a] = "added" => a \in file.ids \/ short

===============================================================================
