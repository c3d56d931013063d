---------------------------- MODULE OutputDirectory ----------------------------
(***************************************************************************)
(* The commands of the CLI on one output directory (resolveCommand and     *)
(* executeCommand in main.go, WriteArtifacts and ExecuteArtifact in        *)
(* generate.go, their v2 forms in generate_v2.go).  A resolve command      *)
(* writes the files of one resolution one after the other, in the order of *)
(* their names, and with --execute runs the Go artifact it finds and       *)
(* leaves a receipt; an execute command prints the receipt.  Commands      *)
(* overlap, fail and are run again over what others left.                  *)
(*                                                                         *)
(* What was generated for one resolution is a member of Artifacts, and it  *)
(* stands for the contents of each of its files: the texts differ whenever *)
(* the resolutions do in what is kept here.                                *)
(***************************************************************************)
EXTENDS Sequences, Functions

CONSTANTS
    Command,   \* invocations of the program
    Artifacts, \* what they may generate: records with version and status
    Disks,     \* what the directory may hold at first
    None,      \* no file, nothing yet
    Empty,     \* a file that was truncated
    Torn       \* a file that holds part of what was to be written

Closed == "CLOSED"

(* The names in sort.Strings order.                                        *)
V1Files == <<"gooo.lock.json", "linked-artifact.go", "linked-ir.json", "linked.gooo",
             "manifest.json", "resolution.json">>
V2Files == <<"human-dossier.md", "linked-artifact.go", "linked-ir.json", "linked.gooo",
             "machine-dossier.json", "manifest.json", "pinned-package-manifests.json",
             "resolution.json">>
FilesOf(a) == IF a.version = "v1" THEN V1Files ELSE V2Files

GoArtifact == "linked-artifact.go"
Execution  == "execution.json"
File == Range(V1Files) \cup Range(V2Files) \cup {Execution}

(* A torn text may be read and run: what it prints is of one artifact.     *)
Receipt == [artifact : Artifacts \cup {Torn}, output : Artifacts,
            status : {a.status : a \in Artifacts} \cup {Closed}]
Contents(f) == {None, Empty, Torn} \cup IF f = Execution THEN Receipt ELSE Artifacts

ASSUME OutputAssumption ==
    /\ \A a \in Artifacts : a.version \in {"v1", "v2"} /\ a.status \in {"CLOSED", "UNKNOWN", "REFUTED"}
    /\ None \notin Artifacts \cup Receipt \cup Command
    /\ {Empty, Torn} \cap (Artifacts \cup Receipt) = {}
    /\ None # Empty /\ None # Torn /\ Empty # Torn
    /\ \A d \in Disks : DOMAIN d = File /\ \A f \in File : d[f] \in Contents(f)

(* A receipt of a CLOSED artifact, which is what ran.                      *)
Vouched(r) == r.artifact = r.output /\ r.artifact.status = Closed /\ r.status = Closed

(* The directory is what earlier commands left, and they did not overlap.  *)
ASSUME LeftAssumption ==
    \A d \in Disks : d[Execution] \in Receipt => Vouched(d[Execution])

VARIABLES
    disk,      \* what each file of the directory holds
    job,       \* what each command is at
    sole,      \* the last command to begin, if none ran beside it yet, or None
    overlapped \* whether two commands ever ran at the same time

vars == <<disk, job, sole, overlapped>>

(* artifacts is what a resolve command generated, None for execute; todo   *)
(* are the files still to be written, opened whether the first of them is  *)
(* open; read is the artifact as ExecuteArtifact read it.                  *)
Job == [phase : {"idle", "running", "returned", "failed"},
        artifacts : Artifacts \cup {None}, execute : BOOLEAN,
        todo : Seq(File), opened : BOOLEAN,
        read : Artifacts \cup {Torn, None}, receipt : Receipt \cup {None}]

Idle == [phase |-> "idle", artifacts |-> None, execute |-> FALSE, todo |-> << >>,
         opened |-> FALSE, read |-> None, receipt |-> None]

Init ==
    /\ disk \in Disks
    /\ job = [c \in Command |-> Idle]
    /\ sole = None /\ overlapped = FALSE

Running(c) == job[c].phase = "running"
SomeRunning == \E c \in Command : Running(c)

Begin(c, started) ==
    /\ job[c].phase = "idle"
    /\ job' = [job EXCEPT ![c] = started]
    /\ sole' = IF SomeRunning THEN None ELSE c
    /\ overlapped' = (overlapped \/ SomeRunning)
    /\ UNCHANGED disk

(* resolveCommand, once it has resolved and generated.                     *)
BeginResolve(c) ==
    \E a \in Artifacts, execute \in BOOLEAN :
        Begin(c, [Idle EXCEPT !.phase = "running", !.artifacts = a,
                              !.execute = execute, !.todo = FilesOf(a)])

BeginExecute(c) ==
    Begin(c, [Idle EXCEPT !.phase = "running", !.execute = TRUE])

Update(c, record) == job' = [job EXCEPT ![c] = record]
Failed(c) == [Idle EXCEPT !.phase = "failed"]

(* os.WriteFile opens and truncates the next file ...                      *)
OpenFile(c) ==
    /\ Running(c) /\ job[c].todo # << >> /\ ~ job[c].opened
    /\ disk' = [disk EXCEPT ![Head(job[c].todo)] = Empty]
    /\ Update(c, [job[c] EXCEPT !.opened = TRUE])
    /\ UNCHANGED <<sole, overlapped>>

(* ... and writes it from the start: over what another command wrote since,*)
(* of which a longer end stays.                                            *)
Text(c) == IF Head(job[c].todo) = Execution THEN job[c].receipt ELSE job[c].artifacts

(* Slip: the loop does not go on to the next file.                         *)
WriteSame(c) ==
    /\ Running(c) /\ job[c].opened
    /\ disk' = [disk EXCEPT ![Head(job[c].todo)] = Text(c)]
    /\ Update(c, [job[c] EXCEPT !.opened = FALSE])
    /\ UNCHANGED <<sole, overlapped>>

WriteFile(c) ==
    /\ Running(c) /\ job[c].opened
    /\ LET f == Head(job[c].todo)
       IN  \E text \in {Text(c)} \cup (IF disk[f] = Empty THEN {} ELSE {Torn}) :
              disk' = [disk EXCEPT ![f] = text]
    /\ Update(c, [job[c] EXCEPT !.opened = FALSE, !.todo = Tail(@)])
    /\ UNCHANGED <<sole, overlapped>>

(* Slip: the artifact is run as soon as it is there.                       *)
ArtifactWritten(c) ==
    /\ Running(c) /\ job[c].execute /\ job[c].receipt = None
    /\ ~ job[c].opened /\ GoArtifact \notin Range(job[c].todo)

(* All files are written, and the artifact is to be run.                   *)
ToExecute(c) ==
    /\ Running(c) /\ job[c].execute /\ job[c].receipt = None
    /\ job[c].todo = << >>

(* Slip: whatever was resolved is run.                                     *)
AnyStatus(a) == TRUE

(* "cannot execute non-CLOSED resolution".  The command execute does not   *)
(* know how its artifact was resolved.                                     *)
MayExecute(a) == a # None => a.status = Closed

RefuseToExecute(c) ==
    /\ ToExecute(c) /\ job[c].read = None /\ ~ MayExecute(job[c].artifacts)
    /\ Update(c, Failed(c))
    /\ UNCHANGED <<disk, sole, overlapped>>

(* The schema whose marker ExecuteArtifact or ExecuteV2Artifact wants.     *)
Version(c) == IF job[c].artifacts = None THEN "v1" ELSE job[c].artifacts.version

(* Slip: any text that is there will do.                                   *)
AnyText(c, text) == text # None

(* An artifact holds the marker of its version, a torn text perhaps.       *)
Whole(c, text) == text \notin {None, Empty, Torn} /\ text.version = Version(c)
Marked(c, text) == text = Torn \/ Whole(c, text)

(* os.ReadFile and the check of the schema marker.                         *)
ReadArtifact(c) ==
    /\ ToExecute(c) /\ job[c].read = None /\ MayExecute(job[c].artifacts)
    /\ LET text == disk[GoArtifact]
       IN  \/ /\ Marked(c, text)
             /\ Update(c, [job[c] EXCEPT !.read = text])
          \/ /\ ~ Whole(c, text)
             /\ Update(c, Failed(c))
    /\ UNCHANGED <<disk, sole, overlapped>>

(* "go run" compiles what the path holds by now: a torn text fails, unless *)
(* nothing is torn off that matters to the compiler.  The payload's schema *)
(* is checked, and only ExecuteV2Artifact takes over its status.           *)
StatusOf(c, output) == IF Version(c) = "v1" THEN Closed ELSE output.status

GoRun(c) ==
    /\ ToExecute(c) /\ job[c].read # None
    /\ LET text == disk[GoArtifact]
           done(output) ==
               [job[c] EXCEPT
                   !.receipt = [artifact |-> job[c].read, output |-> output,
                                status |-> StatusOf(c, output)],
                   !.todo = IF job[c].artifacts = None THEN << >> ELSE << Execution >>]
       IN  \/ \E output \in Artifacts :
                 /\ text \in {output, Torn} /\ output.version = Version(c)
                 /\ Update(c, done(output))
          \/ /\ ~ Whole(c, text)
             /\ Update(c, Failed(c))
    /\ UNCHANGED <<disk, sole, overlapped>>

Return(c) ==
    /\ Running(c) /\ job[c].todo = << >>
    /\ job[c].execute => job[c].receipt # None
    /\ Update(c, [job[c] EXCEPT !.phase = "returned"])
    /\ UNCHANGED <<disk, sole, overlapped>>

(* Slip: an error of os.WriteFile is passed over.                          *)
SkipFile(c) ==
    /\ Running(c)
    /\ IF job[c].opened
       THEN Update(c, [job[c] EXCEPT !.opened = FALSE, !.todo = Tail(@)])
       ELSE Update(c, Failed(c))
    /\ UNCHANGED <<disk, sole, overlapped>>

(* The program is killed, or an operation returns an error: a file that is *)
(* being written stays as it is or gets a part of its text.                *)
Fail(c) ==
    /\ Running(c)
    /\ \/ UNCHANGED disk
       \/ job[c].opened /\ disk' = [disk EXCEPT ![Head(job[c].todo)] = Torn]
    /\ Update(c, Failed(c))
    /\ UNCHANGED <<sole, overlapped>>

Step(c) ==
    \/ OpenFile(c) \/ WriteFile(c)
    \/ RefuseToExecute(c) \/ ReadArtifact(c) \/ GoRun(c) \/ Return(c)

Next ==
    \E c \in Command : BeginResolve(c) \/ BeginExecute(c) \/ Step(c) \/ Fail(c)

(* A command that runs is scheduled, and the artifact it runs, a program   *)
(* that prints one line, ends.                                             *)
Spec == Init /\ [][Next]_vars /\ \A c \in Command : WF_vars(Step(c))

-------------------------------------------------------------------------------
(* The type of the directory and of every command.                         *)
TypeOK ==
    /\ DOMAIN disk = File /\ \A f \in File : disk[f] \in Contents(f)
    /\ job \in [Command -> Job]
    /\ sole \in Command \cup {None} /\ overlapped \in BOOLEAN

(* A resolve command that had the directory to itself and returned has left*)
(* all its files, whatever failed commands had left there before, and with *)
(* --execute the receipt of its own CLOSED artifact.                       *)
CompleteOnSuccess ==
    sole # None /\ job[sole].phase = "returned" /\ job[sole].artifacts # None =>
        LET a == job[sole].artifacts
        IN  /\ \A f \in Range(FilesOf(a)) : disk[f] = a
            /\ job[sole].execute =>
                  disk[Execution] = [artifact |-> a, output |-> a, status |-> Closed]

(* As long as no two commands ever overlap, every receipt in the directory,*)
(* stale ones included, is that of an artifact which is CLOSED, and which  *)
(* is what ran.                                                            *)
ReceiptsAreTrue ==
    ~ overlapped /\ disk[Execution] \in Receipt => Vouched(disk[Execution])

(* A receipt gets into the directory only when all the files of the        *)
(* artifact it is about are there, unless commands overlap.                *)
ReceiptLast ==
    [][ disk'[Execution] # disk[Execution] /\ disk'[Execution] \in Receipt /\ ~ overlapped =>
          LET a == disk'[Execution].artifact
          IN  \A f \in Range(FilesOf(a)) : disk[f] = a ]_vars

(* Every command ends.                                                     *)
Terminates == \A c \in Command : Running(c) ~> ~ Running(c)

-------------------------------------------------------------------------------
(* What the documents say and execute does not keep.                       *)

(* "CLOSED means all required identity and semantic predicates were        *)
(* observed": a receipt is CLOSED only for an artifact that is.            *)
ReceiptStatus ==
    ~ overlapped =>
        \A c \in Command :
            job[c].receipt # None /\ job[c].receipt.status = Closed =>
                job[c].receipt.output.status = Closed
===============================================================================
