------------------------------- MODULE CliProofs -------------------------------
(***************************************************************************)
(* Proofs about Cli, for any number of commands.  The file is kept by the   *)
(* port: a command that has read the file is the only one that can write    *)
(* it, as it holds the port from before its read until after its write.     *)
(***************************************************************************)
EXTENDS Cli, TLAPS

Holds == {"put", "lookup", "stat", "mkdir", "create", "read", "save"}

\* Whoever is past Bind has the port, so that there is one such command at most.
PortHeld == \A c \in Commands : cmd[c] \in Holds => port = c

\* An add that creates the file has found none; one that is about to write has
\* created it, or has all of it in memory.
Fresh ==
    \A a \in Adds :
        /\ cmd[a] \in {"mkdir", "create"} => file.state = "absent"
        /\ cmd[a] = "save" => file.ids \subseteq read[a]

IInv == TypeOK /\ PortHeld /\ Fresh /\ AddedIsKept

Files == [state : {"absent", "empty", "torn", "good"}, ids : SUBSET Adds]

USE DEF Commands

\* The four forms the file takes in the actions are among those it may have.
LEMMA FileOK ==
    /\ File("absent", {}) \in Files /\ File("absent", {}).ids = {}
    /\ File("absent", {}).state = "absent"
    /\ File("empty", {}) \in Files /\ File("empty", {}).ids = {}
    /\ File("torn", {}) \in Files /\ File("torn", {}).ids = {}
    /\ \A ids \in SUBSET Adds :
          File("good", ids) \in Files /\ File("good", ids).state = "good"
                                      /\ File("good", ids).ids = ids
  BY DEF File, Files

\* The initial states satisfy the invariant.
LEMMA InitIInv == Init => IInv
  <1> SUFFICES ASSUME Init PROVE IInv
    OBVIOUS
  <1>1. file = File("absent", {}) \/ file = File("good", {})
    BY DEF Init
  <1>2. file \in Files /\ file.ids = {}
    BY <1>1, FileOK
  <1>3. TypeOK
    BY <1>2 DEF Init, TypeOK, Finished, Files
  <1>4. PortHeld /\ Fresh /\ AddedIsKept
    BY <1>2 DEF Init, PortHeld, Holds, Fresh, AddedIsKept
  <1> QED BY <1>3, <1>4 DEF IInv

\* Steps of an add before it reads or writes the file.
LEMMA BeforeFile ==
    ASSUME IInv, NEW a \in Adds, Start(a) \/ Stat(a) \/ Mkdir(a)
    PROVE  IInv'
  <1> USE DEF Goto, Exit, fileVars
  <1>1. TypeOK'
    BY DEF IInv, TypeOK, Finished, Start, Stat, Mkdir
  <1>2. PortHeld'
    BY DEF IInv, TypeOK, Finished, PortHeld, Holds, Start, Stat, Mkdir
  <1>3. Fresh'
    BY DEF IInv, TypeOK, Finished, Fresh, Start, Stat, Mkdir
  <1>4. AddedIsKept'
    BY DEF IInv, TypeOK, Finished, AddedIsKept, Start, Stat, Mkdir
  <1> QED BY <1>1, <1>2, <1>3, <1>4 DEF IInv

LEMMA CreateIInv ==
    ASSUME IInv, NEW a \in Adds, Create(a)
    PROVE  IInv'
  <1> USE DEF Goto, fileVars
  <1>1. file' \in Files /\ file'.ids = {} /\ file.ids = {}
    BY FileOK DEF Create, IInv, Fresh, TypeOK
  <1>2. TypeOK'
    BY <1>1 DEF IInv, TypeOK, Finished, Create, Files
  <1>3. PortHeld'
    BY DEF IInv, TypeOK, PortHeld, Holds, Create
  <1>4. \A b \in Adds : b # a => cmd[b] \notin {"mkdir", "create"}
    BY DEF IInv, PortHeld, Holds, Create
  <1>5. Fresh'
    BY <1>1, <1>4 DEF IInv, TypeOK, Fresh, Create
  <1>6. AddedIsKept'
    BY <1>1 DEF IInv, TypeOK, AddedIsKept, Create
  <1> QED BY <1>2, <1>3, <1>5, <1>6 DEF IInv

LEMMA ReadIInv ==
    ASSUME IInv, NEW a \in Adds, Read(a)
    PROVE  IInv'
  <1> USE DEF Goto, Exit, fileVars
  <1>1. TypeOK'
    BY DEF IInv, TypeOK, Finished, Read
  <1>2. PortHeld'
    BY DEF IInv, TypeOK, Finished, PortHeld, Holds, Read
  <1>3. Fresh'
    BY DEF IInv, TypeOK, Finished, Fresh, Read
  <1>4. AddedIsKept'
    BY DEF IInv, TypeOK, Finished, AddedIsKept, Read
  <1> QED BY <1>1, <1>2, <1>3, <1>4 DEF IInv

\* The step the port is there for: what is written contains what is in the file, and no
\* other add is about to write what it read before.
LEMMA SaveIInv ==
    ASSUME IInv, NEW a \in Adds, Save(a) \/ SaveShort(a)
    PROVE  IInv'
  <1> USE DEF Goto, Exit
  <1>1. \A b \in Adds : b # a => cmd[b] \notin {"mkdir", "create", "save"}
    BY DEF IInv, PortHeld, Holds, Save, SaveShort
  <1>2. \/ cmd' = [cmd EXCEPT ![a] = "failed"] /\ file' = file /\ short' = short
        \/ file' = File("torn", {}) /\ short'
        \/ cmd' = [cmd EXCEPT ![a] = "added"] /\ file' = File("good", read[a] \union {a})
                                             /\ short' = short
    BY DEF Save, SaveShort
  <1>3. read[a] \union {a} \in SUBSET Adds
    BY DEF IInv, TypeOK
  <1>4. file' \in Files /\ (file'.state # "good" => file'.ids = {})
    BY <1>2, <1>3, FileOK DEF IInv, TypeOK, Files
  <1>5. TypeOK'
    <2>1. short' \in BOOLEAN /\ dir' \in BOOLEAN
      BY DEF IInv, TypeOK, Save, SaveShort
    <2>2. port' \in {"free", "gateway"} \union Commands
      BY DEF IInv, TypeOK, Save, SaveShort
    <2>3. cmd' \in [Commands -> {"none", "dht", "put", "lookup", "stat", "mkdir", "create",
                                 "read", "save"} \union Finished]
      BY DEF IInv, TypeOK, Finished, Save, SaveShort
    <2>4. read' \in [Adds -> SUBSET Adds]
      BY DEF IInv, TypeOK, Save, SaveShort
    <2> QED BY <1>4, <2>1, <2>2, <2>3, <2>4 DEF TypeOK, Files
  <1>6. PortHeld'
    BY DEF IInv, TypeOK, PortHeld, Holds, Save, SaveShort
  <1>7. Fresh'
    BY <1>1 DEF IInv, TypeOK, Fresh, Save, SaveShort
  <1>8. AddedIsKept'
    <2>1. file.ids \subseteq read[a]
      BY DEF IInv, Fresh, Save, SaveShort
    <2>2. CASE file' = File("torn", {}) /\ short'
      BY <2>2 DEF AddedIsKept
    <2>3. CASE cmd' = [cmd EXCEPT ![a] = "failed"] /\ file' = file /\ short' = short
      BY <2>3 DEF IInv, TypeOK, AddedIsKept
    <2>4. CASE cmd' = [cmd EXCEPT ![a] = "added"]
                /\ file' = File("good", read[a] \union {a}) /\ short' = short
      <3>1. file'.ids = read[a] \union {a}
        BY <2>4, <1>3, FileOK
      <3> QED BY <3>1, <2>1, <2>4 DEF IInv, TypeOK, AddedIsKept
    <2> QED BY <1>2, <2>2, <2>3, <2>4
  <1> QED BY <1>5, <1>6, <1>7, <1>8 DEF IInv

\* Steps that leave the file and the memory of every other command alone.
LEMMA AsideIInv ==
    ASSUME IInv, NEW c \in Commands,
           \/ c \in Adds /\ \E outcome \in {"done", "quit", "failed"} : Put(c, outcome)
           \/ c \in Gets /\ (StartGet(c) \/ EndGet(c))
           \/ KillCommand(c)
           \/ \E ok \in BOOLEAN : Bind(c, ok)
    PROVE  IInv'
  <1> USE DEF Goto, Exit, fileVars
  <1>1. TypeOK'
    BY DEF IInv, TypeOK, Finished, Put, StartGet, EndGet, KillCommand, Bind
  <1>2. port = "free" => \A d \in Commands : cmd[d] \notin Holds
    BY NamesAssumption DEF IInv, PortHeld
  <1>3. PortHeld'
    <2>1. CASE c \in Adds /\ \E outcome \in {"done", "quit", "failed"} : Put(c, outcome)
      BY <2>1 DEF IInv, TypeOK, Finished, PortHeld, Holds, Put
    <2>2. CASE c \in Gets /\ (StartGet(c) \/ EndGet(c))
      BY <2>2 DEF IInv, TypeOK, Finished, PortHeld, Holds, StartGet, EndGet
    <2>3. CASE KillCommand(c)
      BY <2>3 DEF IInv, TypeOK, Finished, PortHeld, Holds, KillCommand
    <2>4. CASE \E ok \in BOOLEAN : Bind(c, ok)
      BY <2>4, <1>2 DEF IInv, TypeOK, Finished, PortHeld, Holds, Bind
    <2> QED BY <2>1, <2>2, <2>3, <2>4
  <1>4. Fresh'
    BY DEF IInv, TypeOK, Finished, Fresh, Put, StartGet, EndGet, KillCommand, Bind
  <1>5. AddedIsKept'
    BY DEF IInv, TypeOK, Finished, AddedIsKept, Put, StartGet, EndGet, KillCommand, Bind
  <1> QED BY <1>1, <1>3, <1>4, <1>5 DEF IInv

LEMMA GatewayIInv ==
    ASSUME IInv, GatewayRuns
    PROVE  IInv'
  <1>1. \A c \in Commands : cmd[c] \notin Holds
    BY NamesAssumption DEF IInv, PortHeld, GatewayRuns
  <1> QED BY <1>1 DEF IInv, TypeOK, PortHeld, Fresh, AddedIsKept, GatewayRuns, fileVars

LEMMA StepIInv == IInv /\ [Next]_vars => IInv'
  <1> SUFFICES ASSUME IInv, [Next]_vars PROVE IInv'
    OBVIOUS
  <1>1. CASE UNCHANGED vars
    BY <1>1 DEF vars, fileVars, IInv, TypeOK, PortHeld, Fresh, AddedIsKept
  <1>2. CASE Next
    BY <1>2, BeforeFile, CreateIInv, ReadIInv, SaveIInv, AsideIInv, GatewayIInv DEF Next
  <1> QED BY <1>1, <1>2

-------------------------------------------------------------------------------
\* The types of Cli, for any commands.
THEOREM TypeCorrect == Spec => []TypeOK
  <1>1. IInv => TypeOK
    BY DEF IInv
  <1> QED BY InitIInv, StepIInv, <1>1, PTL DEF Spec

\* However many commands run, are killed, and run into a full disk: what one of them
\* has reported as added stays in the file, unless the full disk took it.
THEOREM AddedStays == Spec => []AddedIsKept
  <1>1. IInv => AddedIsKept
    BY DEF IInv
  <1> QED BY InitIInv, StepIInv, <1>1, PTL DEF Spec

===============================================================================
