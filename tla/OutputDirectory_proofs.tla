------------------------- MODULE OutputDirectory_proofs -------------------------
(***************************************************************************)
(* What OutputDirectory keeps, for any number of commands, any artifacts   *)
(* and whatever earlier commands left in the directory.                    *)
(*                                                                         *)
(* The argument: while sole names a command, no other one has run since it *)
(* began, so the directory holds what this command wrote, file after file, *)
(* and it reads back what it wrote.                                        *)
(***************************************************************************)
EXTENDS OutputDirectory, TLAPS

(* At most one command runs, unless commands overlap, and it is sole.      *)
AtMostOne ==
    ~ overlapped \/ sole # None => \A c \in Command : Running(c) => c = sole

(* What a resolve command has still to write: files of its resolution, and *)
(* once the artifact ran the receipt, which it has only if it was to run   *)
(* a CLOSED artifact.  An execute command writes nothing.                  *)
Coherent(j) ==
    /\ j.phase # "running" => j.opened = FALSE
    /\ j.opened => j.todo # << >>
    /\ j.artifacts = None => j.todo = << >>
    /\ j.artifacts # None =>
          /\ j.receipt = None => Range(j.todo) \subseteq Range(FilesOf(j.artifacts))
          /\ j.receipt # None => Range(j.todo) \subseteq {Execution}
          /\ j.read # None => j.artifacts.status = Closed
    /\ j.receipt # None => j.read # None
    /\ j.phase = "returned" => j.todo = << >> /\ (j.execute => j.receipt # None)

JobOK == \A c \in Command : Coherent(job[c])

(* What a directory d holds for the command that has it to itself, be it   *)
(* running or returned.                                                    *)
Served(j, d) ==
    /\ j.opened => d[Head(j.todo)] = Empty
    /\ j.phase \in {"running", "returned"} /\ j.artifacts # None =>
          /\ \A f \in Range(FilesOf(j.artifacts)) \ Range(j.todo) : d[f] = j.artifacts
          /\ j.read # None => j.read = j.artifacts
          /\ j.receipt # None =>
                /\ j.receipt = [artifact |-> j.artifacts, output |-> j.artifacts,
                                status |-> Closed]
                /\ Execution \notin Range(j.todo) => d[Execution] = j.receipt

SoleOK == sole # None => Served(job[sole], disk)

IInv == TypeOK /\ AtMostOne /\ JobOK /\ SoleOK /\ ReceiptsAreTrue

-------------------------------------------------------------------------------
(* The names of the files.                                                 *)

(* The files of a resolution are files of the directory, with the Go       *)
(* artifact among them and without the receipt.                            *)
LEMMA FileNames ==
    ASSUME NEW a
    PROVE  /\ FilesOf(a) \in Seq(File)
           /\ Range(FilesOf(a)) \subseteq File
           /\ Execution \notin Range(FilesOf(a))
           /\ GoArtifact \in Range(FilesOf(a))
  <1>1. /\ V1Files \in Seq(Range(V1Files)) /\ Execution \notin Range(V1Files)
        /\ GoArtifact \in Range(V1Files)
    <2>1. DOMAIN V1Files = 1 .. 6
      BY DEF V1Files
    <2>2. V1Files[2] = GoArtifact /\ \A i \in 1 .. 6 : V1Files[i] # Execution
      BY DEF V1Files, GoArtifact, Execution
    <2>3. V1Files \in Seq(Range(V1Files))
      <3> DEFINE S == Range(V1Files)
      <3>1. \A i \in 1 .. 6 : V1Files[i] \in S
        BY <2>1 DEF Range
      <3>2. V1Files = [i \in 1 .. 6 |-> V1Files[i]]
        BY DEF V1Files
      <3> HIDE DEF S
      <3>3. [i \in 1 .. 6 |-> V1Files[i]] \in Seq(S)
        BY <3>1
      <3> QED
        BY <3>2, <3>3 DEF S
    <2> QED
      BY <2>1, <2>2, <2>3 DEF Range
  <1>2. /\ V2Files \in Seq(Range(V2Files)) /\ Execution \notin Range(V2Files)
        /\ GoArtifact \in Range(V2Files)
    <2>1. DOMAIN V2Files = 1 .. 8
      BY DEF V2Files
    <2>2. V2Files[2] = GoArtifact /\ \A i \in 1 .. 8 : V2Files[i] # Execution
      BY DEF V2Files, GoArtifact, Execution
    <2>3. V2Files \in Seq(Range(V2Files))
      <3> DEFINE S == Range(V2Files)
      <3>1. \A i \in 1 .. 8 : V2Files[i] \in S
        BY <2>1 DEF Range
      <3>2. V2Files = [i \in 1 .. 8 |-> V2Files[i]]
        BY DEF V2Files
      <3> HIDE DEF S
      <3>3. [i \in 1 .. 8 |-> V2Files[i]] \in Seq(S)
        BY <3>1
      <3> QED
        BY <3>2, <3>3 DEF S
    <2> QED
      BY <2>1, <2>2, <2>3 DEF Range
  <1>3. Range(V1Files) \subseteq File /\ Range(V2Files) \subseteq File
    BY DEF File
  <1>4. V1Files \in Seq(File) /\ V2Files \in Seq(File)
    <2> HIDE DEF V1Files, V2Files
    <2> QED
      BY <1>1, <1>2, <1>3
  <1> QED
    BY <1>1, <1>2, <1>3, <1>4 DEF FilesOf

LEMMA SpecialFiles == GoArtifact \in File /\ Execution \in File /\ GoArtifact # Execution
  <1>1. GoArtifact \in File
    BY FileNames
  <1> QED
    BY <1>1 DEF File, GoArtifact, Execution

(* What is left to write once the next file is done.                       *)
LEMMA NextFile ==
    ASSUME NEW S, NEW todo \in Seq(S), todo # << >>
    PROVE  /\ Head(todo) \in S /\ Tail(todo) \in Seq(S)
           /\ Range(todo) = {Head(todo)} \cup Range(Tail(todo))
  <1>1. /\ Len(todo) \in Nat \ {0} /\ DOMAIN todo = 1 .. Len(todo)
        /\ \A i \in 1 .. Len(todo) : todo[i] \in S
    OBVIOUS
  <1>2. /\ Tail(todo) \in Seq(S) /\ DOMAIN Tail(todo) = 1 .. Len(todo) - 1
        /\ \A i \in 1 .. Len(todo) - 1 : Tail(todo)[i] = todo[i + 1]
    OBVIOUS
  <1>3. Head(todo) = todo[1]
    OBVIOUS
  <1>4. \A i \in 1 .. Len(todo) : i = 1 \/ (i - 1 \in 1 .. Len(todo) - 1 /\ i = (i - 1) + 1)
    BY <1>1
  <1>5. ASSUME NEW x \in Range(todo)
        PROVE  x = Head(todo) \/ x \in Range(Tail(todo))
    <2>1. PICK i \in 1 .. Len(todo) : x = todo[i]
      BY <1>1 DEF Range
    <2>2. CASE i = 1
      BY <2>1, <2>2, <1>3
    <2>3. CASE i - 1 \in 1 .. Len(todo) - 1 /\ i = (i - 1) + 1
      <3>1. x = Tail(todo)[i - 1]
        BY <2>1, <2>3, <1>2
      <3> QED
        BY <3>1, <2>3, <1>2 DEF Range
    <2> QED
      BY <2>2, <2>3, <1>4
  <1>6. Head(todo) \in Range(todo)
    BY <1>1, <1>3 DEF Range
  <1>7. ASSUME NEW x \in Range(Tail(todo))
        PROVE  x \in Range(todo)
    <2>1. PICK i \in 1 .. Len(todo) - 1 : x = Tail(todo)[i]
      BY <1>2 DEF Range
    <2>2. x = todo[i + 1] /\ i + 1 \in 1 .. Len(todo)
      BY <2>1, <1>1, <1>2
    <2> QED
      BY <2>2, <1>1 DEF Range
  <1> QED
    BY <1>1, <1>2, <1>3, <1>5, <1>6, <1>7

(* The directory's files keep to what they may hold.                       *)
LEMMA EmptyRange == Range(<< >>) = {} /\ << >> \in Seq(File)
  BY DEF Range

LEMMA OneFile == Range(<< Execution >>) = {Execution} /\ << Execution >> \in Seq(File)
                 /\ << Execution >> # << >>
  BY SpecialFiles DEF Range

-------------------------------------------------------------------------------
(* Typing.                                                                 *)

(* What a file may hold, for the receipt and for the others.               *)
LEMMA Holds ==
    /\ Contents(Execution) = {None, Empty, Torn} \cup Receipt
    /\ \A f \in File : f # Execution => Contents(f) = {None, Empty, Torn} \cup Artifacts
    /\ \A f \in File : {Empty, Torn} \subseteq Contents(f)
  BY DEF Contents

(* A directory in which one file got another permitted content.            *)
LEMMA DiskUpdate ==
    ASSUME TypeOK, NEW f \in File, NEW text \in Contents(f),
           disk' = [disk EXCEPT ![f] = text]
    PROVE  /\ DOMAIN disk' = File /\ \A g \in File : disk'[g] \in Contents(g)
           /\ disk'[f] = text
           /\ \A g : g # f => disk'[g] = disk[g]
  <1>1. DOMAIN disk = File /\ \A g \in File : disk[g] \in Contents(g)
    BY DEF TypeOK
  <1>2. /\ DOMAIN disk' = DOMAIN disk /\ disk'[f] = text
        /\ \A g \in File : g # f => disk'[g] = disk[g]
    BY <1>1
  <1>3. \A g : g # f => disk'[g] = disk[g]
    BY <1>1
  <1> QED
    BY <1>1, <1>2, <1>3

(* A step of one command leaves the others where they are.                 *)
LEMMA JobUpdate ==
    ASSUME TypeOK, NEW c \in Command, NEW record \in Job, job' = [job EXCEPT ![c] = record]
    PROVE  /\ job' \in [Command -> Job] /\ job'[c] = record
           /\ \A d \in Command : d # c => job'[d] = job[d]
  BY DEF TypeOK

LEMMA JobType ==
    ASSUME TypeOK, NEW c \in Command
    PROVE  /\ job[c] \in Job
           /\ job[c].phase \in {"idle", "running", "returned", "failed"}
           /\ job[c].artifacts \in Artifacts \cup {None} /\ job[c].execute \in BOOLEAN
           /\ job[c].todo \in Seq(File) /\ job[c].opened \in BOOLEAN
           /\ job[c].read \in Artifacts \cup {Torn, None}
           /\ job[c].receipt \in Receipt \cup {None}
  BY DEF TypeOK, Job

LEMMA IdleType ==
    Idle \in Job /\ \A c : Failed(c) \in Job
  BY EmptyRange DEF Idle, Job, Failed

(* What runs is an artifact of the version that was asked for, and the     *)
(* receipt says so.                                                        *)
LEMMA ReceiptType ==
    ASSUME TypeOK, NEW c \in Command, NEW output \in Artifacts,
           job[c].read \in Artifacts \cup {Torn}
    PROVE  [artifact |-> job[c].read, output |-> output, status |-> StatusOf(c, output)]
               \in Receipt
  <1>1. StatusOf(c, output) \in {a.status : a \in Artifacts} \cup {Closed}
    BY DEF StatusOf
  <1> QED
    BY <1>1 DEF Receipt

(* The records the actions give a command.                                 *)
LEMMA StartType ==
    /\ \A a \in Artifacts, execute \in BOOLEAN :
          [Idle EXCEPT !.phase = "running", !.artifacts = a,
                       !.execute = execute, !.todo = FilesOf(a)] \in Job
    /\ [Idle EXCEPT !.phase = "running", !.execute = TRUE] \in Job
  <1>1. ASSUME NEW a \in Artifacts, NEW execute \in BOOLEAN
        PROVE  [Idle EXCEPT !.phase = "running", !.artifacts = a,
                            !.execute = execute, !.todo = FilesOf(a)] \in Job
    <2>1. FilesOf(a) \in Seq(File)
      BY FileNames
    <2> HIDE DEF File
    <2> QED
      BY <2>1 DEF Idle, Job
  <1>2. [Idle EXCEPT !.phase = "running", !.execute = TRUE] \in Job
    BY EmptyRange DEF Idle, Job
  <1> QED
    BY <1>1, <1>2

LEMMA TypeInit == Init => TypeOK
  BY OutputAssumption, IdleType DEF Init, TypeOK

(* What a file that is about to be written holds afterwards.               *)
LEMMA WrittenText ==
    ASSUME TypeOK, JobOK, NEW c \in Command, Running(c), job[c].opened
    PROVE  /\ job[c].todo # << >> /\ Head(job[c].todo) \in File
           /\ job[c].artifacts \in Artifacts
           /\ Head(job[c].todo) = Execution <=> job[c].receipt # None
           /\ Text(c) \in Contents(Head(job[c].todo))
  <1>1. job[c].todo # << >> /\ job[c].artifacts # None
    BY DEF JobOK, Coherent
  <1>2. /\ Head(job[c].todo) \in File /\ Head(job[c].todo) \in Range(job[c].todo)
    BY <1>1, JobType, NextFile
  <1>3. job[c].artifacts \in Artifacts
    BY <1>1, JobType
  <1>4. Head(job[c].todo) = Execution <=> job[c].receipt # None
    BY <1>1, <1>2, FileNames DEF JobOK, Coherent
  <1>5. Text(c) \in Contents(Head(job[c].todo))
    <2>1. CASE job[c].receipt # None
      BY <2>1, <1>4, Holds, JobType DEF Text
    <2>2. CASE job[c].receipt = None
      BY <2>2, <1>2, <1>3, <1>4, Holds DEF Text
    <2> QED
      BY <2>1, <2>2
  <1> QED
    BY <1>1, <1>2, <1>3, <1>4, <1>5

-------------------------------------------------------------------------------
(* One lemma for each kind of step.                                        *)

(* A command that starts: only beside others does it not become sole.      *)
LEMMA BeginStep ==
    ASSUME IInv, NEW c \in Command, NEW started \in Job, Begin(c, started),
           started.phase = "running", Coherent(started), Served(started, disk)
    PROVE  IInv'
  <1> DEFINE alone == ~ SomeRunning
  <1>1. /\ job[c].phase = "idle" /\ job' = [job EXCEPT ![c] = started]
        /\ sole' = (IF alone THEN c ELSE None)
        /\ overlapped' = (overlapped \/ ~ alone)
        /\ disk' = disk
    BY DEF Begin
  <1>2. job' \in [Command -> Job] /\ job'[c] = started
        /\ \A d \in Command : d # c => job'[d] = job[d]
    BY <1>1, JobUpdate DEF IInv
  <1>3. TypeOK'
    BY <1>1, <1>2 DEF IInv, TypeOK
  <1>4. AtMostOne'
    <2> SUFFICES ASSUME ~ overlapped' \/ sole' # None, NEW d \in Command, Running(d)'
                 PROVE  d = sole'
      BY DEF AtMostOne
    <2>1. alone /\ sole' = c
      BY <1>1
    <2>2. d # c => Running(d)
      BY <1>2 DEF Running
    <2> QED
      BY <2>1, <2>2 DEF SomeRunning
  <1>5. JobOK'
    BY <1>2 DEF IInv, JobOK
  <1>6. SoleOK'
    BY <1>1, <1>2 DEF SoleOK
  <1>7. ReceiptsAreTrue'
    BY <1>1 DEF IInv, ReceiptsAreTrue
  <1> QED
    BY <1>3, <1>4, <1>5, <1>6, <1>7 DEF IInv

(* A command that runs goes on: it is enough to look at the command, at    *)
(* the directory if it has it to itself, and at the receipt there.         *)
LEMMA RunningStep ==
    ASSUME IInv, NEW c \in Command, Running(c), NEW record \in Job,
           Update(c, record), UNCHANGED <<sole, overlapped>>,
           DOMAIN disk' = File, \A f \in File : disk'[f] \in Contents(f),
           Coherent(record),
           sole = c => Served(record, disk'),
           ~ overlapped => \/ disk'[Execution] = disk[Execution]
                           \/ disk'[Execution] \notin Receipt
                           \/ Vouched(disk'[Execution])
    PROVE  IInv'
  <1>1. job' \in [Command -> Job] /\ job'[c] = record
        /\ \A d \in Command : d # c => job'[d] = job[d]
    BY JobUpdate DEF IInv, Update
  <1>2. TypeOK'
    BY <1>1 DEF IInv, TypeOK
  <1>3. AtMostOne'
    BY <1>1 DEF IInv, AtMostOne, Running
  <1>4. JobOK'
    BY <1>1 DEF IInv, JobOK
  <1>5. SoleOK'
    BY <1>1 DEF IInv, AtMostOne, SoleOK
  <1>6. ReceiptsAreTrue'
    BY DEF IInv, ReceiptsAreTrue
  <1> QED
    BY <1>2, <1>3, <1>4, <1>5, <1>6 DEF IInv

(* A command that runs, and has not overlapped, has the directory to       *)
(* itself.                                                                 *)
LEMMA Alone ==
    ASSUME IInv, NEW c \in Command, Running(c)
    PROVE  /\ Coherent(job[c])
           /\ ~ overlapped => sole = c
           /\ sole = c => Served(job[c], disk)
  <1>1. c # None
    BY OutputAssumption
  <1> QED
    BY <1>1 DEF IInv, JobOK, AtMostOne, SoleOK

LEMMA FailedCoherent == \A c, d : Coherent(Failed(c)) /\ Served(Failed(c), d)
  BY EmptyRange DEF Failed, Idle, Coherent, Served

LEMMA BeginResolveStep ==
    ASSUME IInv, NEW c \in Command, BeginResolve(c)
    PROVE  IInv'
  <1>1. PICK a \in Artifacts, execute \in BOOLEAN :
            Begin(c, [Idle EXCEPT !.phase = "running", !.artifacts = a,
                                  !.execute = execute, !.todo = FilesOf(a)])
    BY DEF BeginResolve
  <1> DEFINE started == [Idle EXCEPT !.phase = "running", !.artifacts = a,
                                     !.execute = execute, !.todo = FilesOf(a)]
  <1>2. started \in Job
    BY StartType
  <1>3. /\ started.phase = "running" /\ started.artifacts = a /\ started.opened = FALSE
        /\ started.todo = FilesOf(a) /\ started.receipt = None /\ started.read = None
    BY DEF Idle
  <1>4. a # None
    BY OutputAssumption
  <1> HIDE DEF started
  <1>5. Coherent(started)
    BY <1>3, <1>4 DEF Coherent
  <1>6. Served(started, disk)
    BY <1>3, <1>4 DEF Served
  <1> QED
    BY <1>1, <1>2, <1>3, <1>5, <1>6, BeginStep DEF started

LEMMA BeginExecuteStep ==
    ASSUME IInv, NEW c \in Command, BeginExecute(c)
    PROVE  IInv'
  <1> DEFINE started == [Idle EXCEPT !.phase = "running", !.execute = TRUE]
  <1>1. started \in Job /\ Begin(c, started)
    BY StartType DEF BeginExecute
  <1>2. /\ started.phase = "running" /\ started.artifacts = None /\ started.opened = FALSE
        /\ started.todo = << >> /\ started.receipt = None /\ started.read = None
    BY DEF Idle
  <1> HIDE DEF started
  <1>3. Coherent(started) /\ Served(started, disk)
    BY <1>2 DEF Coherent, Served
  <1> QED
    BY <1>1, <1>2, <1>3, BeginStep

LEMMA OpenFileStep ==
    ASSUME IInv, NEW c \in Command, OpenFile(c)
    PROVE  IInv'
  <1> DEFINE j == job[c]
             f == Head(j.todo)
             record == [j EXCEPT !.opened = TRUE]
  <1>1. /\ Running(c) /\ j.todo # << >> /\ j.opened = FALSE
        /\ disk' = [disk EXCEPT ![f] = Empty] /\ Update(c, record)
        /\ UNCHANGED <<sole, overlapped>>
    BY JobType DEF OpenFile, IInv
  <1>2. /\ j \in Job /\ f \in File /\ f \in Range(j.todo)
    BY <1>1, JobType, NextFile DEF IInv
  <1>3. /\ record \in Job /\ record.opened = TRUE /\ record.phase = "running"
        /\ record.todo = j.todo /\ record.artifacts = j.artifacts
        /\ record.execute = j.execute /\ record.read = j.read /\ record.receipt = j.receipt
    BY <1>1, <1>2 DEF Job, Running
  <1>4. /\ DOMAIN disk' = File /\ \A g \in File : disk'[g] \in Contents(g)
        /\ disk'[f] = Empty /\ \A g : g # f => disk'[g] = disk[g]
    BY <1>1, <1>2, Holds, DiskUpdate DEF IInv
  <1>5. Coherent(j) /\ (~ overlapped => sole = c) /\ (sole = c => Served(j, disk))
    BY <1>1, Alone
  <1>6. j.phase = "running"
    BY <1>1 DEF Running
  <1> HIDE DEF f, record, j
  <1>7. Coherent(record)
    BY <1>1, <1>3, <1>5, <1>6 DEF Coherent
  <1>8. sole = c => Served(record, disk')
    BY <1>2, <1>3, <1>4, <1>5, <1>6 DEF Served, f
  <1>9. disk'[Execution] = disk[Execution] \/ disk'[Execution] \notin Receipt
    BY <1>4, OutputAssumption
  <1> QED
    BY <1>1, <1>3, <1>4, <1>7, <1>8, <1>9, RunningStep

(* The receipt a command writes is that of its own CLOSED artifact, as     *)
(* long as no other one came between.                                      *)
LEMMA OwnReceipt ==
    ASSUME IInv, NEW c \in Command, Running(c), job[c].receipt # None,
           job[c].artifacts # None, sole = c
    PROVE  /\ Vouched(job[c].receipt)
           /\ job[c].receipt.artifact = job[c].artifacts
  <1> DEFINE j == job[c]
  <1>1. Coherent(j) /\ Served(j, disk) /\ j.phase = "running"
    BY Alone DEF Running
  <1>2. j.receipt = [artifact |-> j.artifacts, output |-> j.artifacts, status |-> Closed]
    BY <1>1 DEF Served
  <1>3. j.artifacts.status = Closed
    BY <1>1 DEF Coherent
  <1>4. /\ j.receipt.artifact = j.artifacts /\ j.receipt.output = j.artifacts
        /\ j.receipt.status = Closed
    BY <1>2
  <1> QED
    BY <1>3, <1>4 DEF Vouched

LEMMA WriteFileStep ==
    ASSUME IInv, NEW c \in Command, WriteFile(c)
    PROVE  IInv'
  <1> DEFINE j == job[c]
             f == Head(j.todo)
             record == [j EXCEPT !.opened = FALSE, !.todo = Tail(@)]
  <1>1. /\ Running(c) /\ j.opened /\ Update(c, record) /\ UNCHANGED <<sole, overlapped>>
    BY DEF WriteFile
  <1>2. PICK text \in {Text(c)} \cup (IF disk[f] = Empty THEN {} ELSE {Torn}) :
            disk' = [disk EXCEPT ![f] = text]
    BY DEF WriteFile
  <1>3. /\ j \in Job /\ j.todo # << >> /\ f \in File /\ j.artifacts \in Artifacts
        /\ j.artifacts # None
        /\ f = Execution <=> j.receipt # None
        /\ Text(c) \in Contents(f)
    BY <1>1, WrittenText, JobType, OutputAssumption DEF IInv
  <1>4. /\ Range(j.todo) = {f} \cup Range(Tail(j.todo)) /\ Tail(j.todo) \in Seq(File)
    BY <1>3, JobType, NextFile DEF IInv
  <1>5. /\ record \in Job /\ record.opened = FALSE /\ record.phase = "running"
        /\ record.todo = Tail(j.todo) /\ record.artifacts = j.artifacts
        /\ record.execute = j.execute /\ record.read = j.read /\ record.receipt = j.receipt
    BY <1>1, <1>3, <1>4 DEF Job, Running
  <1>6. /\ DOMAIN disk' = File /\ \A g \in File : disk'[g] \in Contents(g)
        /\ disk'[f] = text /\ \A g : g # f => disk'[g] = disk[g]
    BY <1>2, <1>3, Holds, DiskUpdate DEF IInv
  <1>7. Coherent(j) /\ (~ overlapped => sole = c) /\ (sole = c => Served(j, disk))
    BY <1>1, Alone
  <1>8. j.phase = "running"
    BY <1>1 DEF Running
  <1>9. sole = c => text = Text(c)
    BY <1>1, <1>2, <1>7 DEF Served
  <1>10. Text(c) = IF f = Execution THEN j.receipt ELSE j.artifacts
    BY DEF Text
  <1>11. /\ Execution \notin Range(FilesOf(j.artifacts))
    BY FileNames
  <1>12. sole = c /\ j.receipt # None => Vouched(j.receipt)
    BY <1>1, <1>3, OwnReceipt
  <1> HIDE DEF f, record, j
  <1>13. Coherent(record)
    BY <1>3, <1>4, <1>5, <1>7, <1>8 DEF Coherent
  <1>14. ASSUME sole = c PROVE Served(record, disk')
    <2>1. /\ \A g \in Range(FilesOf(j.artifacts)) \ Range(j.todo) : disk[g] = j.artifacts
          /\ j.read # None => j.read = j.artifacts
          /\ j.receipt # None =>
                /\ j.receipt = [artifact |-> j.artifacts, output |-> j.artifacts,
                                status |-> Closed]
                /\ Execution \notin Range(j.todo) => disk[Execution] = j.receipt
      BY <1>3, <1>7, <1>8, <1>14 DEF Served
    <2>2. ASSUME NEW g \in Range(FilesOf(j.artifacts)) \ Range(Tail(j.todo))
          PROVE  disk'[g] = j.artifacts
      BY <1>4, <1>6, <1>9, <1>10, <1>11, <1>14, <2>1, <2>2
    <2>3. j.receipt # None /\ Execution \notin Range(Tail(j.todo)) => disk'[Execution] = j.receipt
      BY <1>3, <1>6, <1>9, <1>10, <1>14
    <2> QED
      BY <1>5, <2>1, <2>2, <2>3 DEF Served
  <1>15. ~ overlapped => \/ disk'[Execution] = disk[Execution] \/ Vouched(disk'[Execution])
    BY <1>3, <1>6, <1>7, <1>9, <1>10, <1>12
  <1> QED
    BY <1>1, <1>5, <1>6, <1>13, <1>14, <1>15, RunningStep

(* A command that fails leaves whatever is there.                          *)
LEMMA FailedStep ==
    ASSUME IInv, NEW c \in Command, Running(c), Update(c, Failed(c)),
           UNCHANGED <<sole, overlapped>>,
           UNCHANGED disk \/ (job[c].opened /\ disk' = [disk EXCEPT ![Head(job[c].todo)] = Torn])
    PROVE  IInv'
  <1> DEFINE f == Head(job[c].todo)
  <1>1. Coherent(Failed(c)) /\ Served(Failed(c), disk') /\ Failed(c) \in Job
    BY FailedCoherent, IdleType
  <1>2. CASE UNCHANGED disk
    <2>1. DOMAIN disk' = File /\ \A g \in File : disk'[g] \in Contents(g)
      BY <1>2 DEF IInv, TypeOK
    <2> QED
      BY <1>1, <1>2, <2>1, RunningStep
  <1>3. CASE job[c].opened /\ disk' = [disk EXCEPT ![f] = Torn]
    <2>1. f \in File
      BY <1>3, WrittenText DEF IInv
    <2>2. /\ DOMAIN disk' = File /\ \A g \in File : disk'[g] \in Contents(g)
          /\ disk'[f] = Torn /\ \A g : g # f => disk'[g] = disk[g]
      BY <1>3, <2>1, Holds, DiskUpdate DEF IInv
    <2>3. disk'[Execution] = disk[Execution] \/ disk'[Execution] \notin Receipt
      BY <2>2, OutputAssumption
    <2> QED
      BY <1>1, <2>2, <2>3, RunningStep
  <1> QED
    BY <1>2, <1>3

(* The artifact that is run is the one that was written, for a command     *)
(* that has the directory to itself.                                       *)
LEMMA OwnArtifact ==
    ASSUME IInv, NEW c \in Command, ToExecute(c), job[c].artifacts # None, sole = c
    PROVE  disk[GoArtifact] = job[c].artifacts
  <1>1. Served(job[c], disk) /\ job[c].phase = "running" /\ Range(job[c].todo) = {}
    BY Alone, EmptyRange DEF ToExecute, Running
  <1> QED
    BY <1>1, FileNames DEF Served

LEMMA ReadArtifactStep ==
    ASSUME IInv, NEW c \in Command, ReadArtifact(c)
    PROVE  IInv'
  <1> DEFINE j == job[c]
             record == [j EXCEPT !.read = disk[GoArtifact]]
  <1>1. /\ ToExecute(c) /\ Running(c) /\ j.receipt = None /\ j.todo = << >>
        /\ MayExecute(j.artifacts) /\ UNCHANGED <<disk, sole, overlapped>>
    BY DEF ReadArtifact, ToExecute
  <1>2. CASE Update(c, Failed(c))
    BY <1>1, <1>2, FailedStep
  <1>3. CASE Marked(c, disk[GoArtifact]) /\ Update(c, record)
    <2>1. Update(c, record)
      BY <1>3
    <2>2. disk[GoArtifact] \in Artifacts \cup {Torn}
      BY <1>3, SpecialFiles, Holds DEF Marked, Whole, IInv, TypeOK
    <2>3. j \in Job
      BY JobType DEF IInv
    <2>4. /\ record \in Job /\ record.opened = j.opened /\ record.phase = j.phase
          /\ record.todo = j.todo /\ record.artifacts = j.artifacts
          /\ record.execute = j.execute /\ record.read = disk[GoArtifact]
          /\ record.receipt = j.receipt
      BY <2>2, <2>3 DEF Job
    <2>5. Coherent(j) /\ (sole = c => Served(j, disk)) /\ j.phase = "running"
      BY <1>1, Alone DEF Running
    <2>6. sole = c /\ j.artifacts # None => disk[GoArtifact] = j.artifacts
      BY <1>1, OwnArtifact
    <2>7. j.artifacts # None => j.artifacts.status = Closed
      BY <1>1 DEF MayExecute
    <2>8. DOMAIN disk' = File /\ \A g \in File : disk'[g] \in Contents(g)
      BY <1>1 DEF IInv, TypeOK
    <2>9. disk' = disk
      BY <1>1
    <2> HIDE DEF record, j
    <2>10. Coherent(record)
      BY <1>1, <2>4, <2>5, <2>7 DEF Coherent
    <2>11. sole = c => Served(record, disk')
      BY <1>1, <2>4, <2>5, <2>6, <2>9 DEF Served
    <2> QED
      BY <1>1, <2>1, <2>4, <2>8, <2>9, <2>10, <2>11, RunningStep
  <1> QED
    BY <1>2, <1>3 DEF ReadArtifact

LEMMA GoRunStep ==
    ASSUME IInv, NEW c \in Command, GoRun(c)
    PROVE  IInv'
  <1> DEFINE j == job[c]
             made(output) == [artifact |-> j.read, output |-> output,
                              status |-> StatusOf(c, output)]
             next == IF j.artifacts = None THEN << >> ELSE << Execution >>
             done(output) == [j EXCEPT !.receipt = made(output), !.todo = next]
  <1>1. /\ ToExecute(c) /\ Running(c) /\ j.receipt = None /\ j.todo = << >>
        /\ j.read # None /\ UNCHANGED <<disk, sole, overlapped>>
    BY DEF GoRun, ToExecute
  <1>2. CASE Update(c, Failed(c))
    BY <1>1, <1>2, FailedStep
  <1>3. ASSUME NEW output \in Artifacts, disk[GoArtifact] \in {output, Torn},
               Update(c, done(output))
        PROVE  IInv'
    <2> DEFINE record == done(output)
               receipt == made(output)
    <2>1. Update(c, record)
      BY <1>3
    <2>2. output \in Artifacts
      BY <1>3
    <2>3. j \in Job /\ j.read \in Artifacts \cup {Torn}
      BY <1>1, JobType DEF IInv
    <2>4. receipt \in Receipt /\ receipt # None
      BY <2>2, <2>3, ReceiptType, OutputAssumption DEF IInv
    <2>5. next \in Seq(File) /\ Range(next) \subseteq {Execution}
          /\ (j.artifacts # None => Range(next) = {Execution})
      BY EmptyRange, OneFile
    <2>6. Coherent(j) /\ (sole = c => Served(j, disk)) /\ j.phase = "running"
      BY <1>1, Alone DEF Running
    <2>7. sole = c /\ j.artifacts # None => output = j.artifacts
      BY <1>1, <1>3, OwnArtifact, OutputAssumption, JobType DEF IInv, Job
    <2>8. j.artifacts # None => j.artifacts.status = Closed
      BY <1>1, <2>6 DEF Coherent
    <2>9. sole = c /\ j.artifacts # None =>
             receipt = [artifact |-> j.artifacts, output |-> j.artifacts, status |-> Closed]
      <3> SUFFICES ASSUME sole = c, j.artifacts # None
                   PROVE  receipt = [artifact |-> j.artifacts, output |-> j.artifacts,
                                     status |-> Closed]
        OBVIOUS
      <3>1. j.read = j.artifacts
        BY <1>1, <2>6 DEF Served
      <3>2. StatusOf(c, output) = Closed
        BY <2>7, <2>8 DEF StatusOf
      <3> QED
        BY <2>7, <3>1, <3>2
    <2>10. DOMAIN disk' = File /\ \A g \in File : disk'[g] \in Contents(g)
      BY <1>1 DEF IInv, TypeOK
    <2>11. disk' = disk
      BY <1>1
    <2>12. j.artifacts = None => next = << >>
      OBVIOUS
    <2> HIDE DEF made, next
    <2>13. /\ record \in Job /\ record.opened = j.opened /\ record.phase = j.phase
           /\ record.todo = next /\ record.artifacts = j.artifacts
           /\ record.execute = j.execute /\ record.read = j.read /\ record.receipt = receipt
      BY <2>3, <2>4, <2>5 DEF Job
    <2> HIDE DEF record, j
    <2>14. Coherent(record)
      BY <1>1, <2>4, <2>5, <2>6, <2>8, <2>12, <2>13 DEF Coherent
    <2>15. sole = c => Served(record, disk')
      <3> SUFFICES ASSUME sole = c PROVE Served(record, disk')
        OBVIOUS
      <3>1. ~ j.opened
        BY <1>1, <2>6 DEF Coherent
      <3>2. j.artifacts # None =>
               /\ \A f \in Range(FilesOf(j.artifacts)) : disk[f] = j.artifacts
               /\ j.read = j.artifacts
        BY <1>1, <2>6, EmptyRange DEF Served
      <3> QED
        BY <2>5, <2>9, <2>11, <2>13, <3>1, <3>2 DEF Served
    <2> QED
      BY <1>1, <2>1, <2>10, <2>11, <2>13, <2>14, <2>15, RunningStep
  <1> QED
    BY <1>2, <1>3 DEF GoRun

LEMMA ReturnStep ==
    ASSUME IInv, NEW c \in Command, Return(c)
    PROVE  IInv'
  <1> DEFINE j == job[c]
             record == [j EXCEPT !.phase = "returned"]
  <1>1. /\ Running(c) /\ j.todo = << >> /\ (j.execute => j.receipt # None)
        /\ Update(c, record) /\ UNCHANGED <<disk, sole, overlapped>>
    BY DEF Return
  <1>2. j \in Job /\ j.phase = "running"
    BY <1>1, JobType DEF IInv, Running
  <1>3. /\ record \in Job /\ record.opened = j.opened /\ record.phase = "returned"
        /\ record.todo = j.todo /\ record.artifacts = j.artifacts
        /\ record.execute = j.execute /\ record.read = j.read /\ record.receipt = j.receipt
    BY <1>2 DEF Job
  <1>4. Coherent(j) /\ (sole = c => Served(j, disk))
    BY <1>1, Alone
  <1>5. DOMAIN disk' = File /\ \A g \in File : disk'[g] \in Contents(g)
    BY <1>1 DEF IInv, TypeOK
  <1>6. disk' = disk /\ j.opened \in BOOLEAN
    BY <1>1, JobType DEF IInv
  <1> HIDE DEF record, j
  <1>7. Coherent(record)
    BY <1>1, <1>2, <1>3, <1>4, <1>6 DEF Coherent
  <1>8. sole = c => Served(record, disk')
    BY <1>2, <1>3, <1>4, <1>6 DEF Served
  <1> QED
    BY <1>1, <1>3, <1>5, <1>6, <1>7, <1>8, RunningStep

-------------------------------------------------------------------------------
(* The results.                                                            *)

LEMMA InitIInv == Init => IInv
  <1> SUFFICES ASSUME Init PROVE IInv
    OBVIOUS
  <1>1. TypeOK
    BY TypeInit
  <1>2. AtMostOne
    BY DEF Init, AtMostOne, Running, Idle
  <1>3. JobOK
    BY DEF Init, JobOK, Coherent, Idle
  <1>4. SoleOK
    BY DEF Init, SoleOK
  <1>5. ReceiptsAreTrue
    BY LeftAssumption DEF Init, ReceiptsAreTrue
  <1> QED
    BY <1>1, <1>2, <1>3, <1>4, <1>5 DEF IInv

LEMMA NextIInv == IInv /\ [Next]_vars => IInv'
  <1> SUFFICES ASSUME IInv, [Next]_vars PROVE IInv'
    OBVIOUS
  <1>1. CASE UNCHANGED vars
    BY <1>1 DEF vars, IInv, TypeOK, AtMostOne, JobOK, SoleOK, ReceiptsAreTrue, Running
  <1>2. CASE Next
    <2>1. PICK c \in Command : BeginResolve(c) \/ BeginExecute(c) \/ Step(c) \/ Fail(c)
      BY <1>2 DEF Next
    <2>2. CASE BeginResolve(c)
      BY <2>2, BeginResolveStep
    <2>3. CASE BeginExecute(c)
      BY <2>3, BeginExecuteStep
    <2>4. CASE OpenFile(c)
      BY <2>4, OpenFileStep
    <2>5. CASE WriteFile(c)
      BY <2>5, WriteFileStep
    <2>6. CASE RefuseToExecute(c)
      BY <2>6, FailedStep DEF RefuseToExecute, ToExecute
    <2>7. CASE ReadArtifact(c)
      BY <2>7, ReadArtifactStep
    <2>8. CASE GoRun(c)
      BY <2>8, GoRunStep
    <2>9. CASE Return(c)
      BY <2>9, ReturnStep
    <2>10. CASE Fail(c)
      BY <2>10, FailedStep DEF Fail
    <2> QED
      BY <2>1, <2>2, <2>3, <2>4, <2>5, <2>6, <2>7, <2>8, <2>9, <2>10 DEF Step
  <1> QED
    BY <1>1, <1>2

THEOREM Invariance == Spec => []IInv
  BY InitIInv, NextIInv, PTL DEF Spec

(* The directory and every command keep their type.                        *)
THEOREM Typing == Spec => []TypeOK
  <1>1. IInv => TypeOK
    BY DEF IInv
  <1> QED
    BY <1>1, Invariance, PTL

(* A resolve command that had the directory to itself (WriteArtifacts and  *)
(* ExecuteArtifact of resolveCommand) and returned has left all its files  *)
(* and its receipt, whatever failed commands had left there.               *)
THEOREM Completeness == Spec => []CompleteOnSuccess
  <1>1. IInv => CompleteOnSuccess
    <2> SUFFICES ASSUME IInv, sole # None, job[sole].phase = "returned",
                        job[sole].artifacts # None
                 PROVE  LET a == job[sole].artifacts
                        IN  /\ \A f \in Range(FilesOf(a)) : disk[f] = a
                            /\ job[sole].execute =>
                                  disk[Execution] =
                                      [artifact |-> a, output |-> a, status |-> Closed]
      BY DEF CompleteOnSuccess
    <2> DEFINE j == job[sole]
    <2>1. sole \in Command
      BY DEF IInv, TypeOK
    <2>2. Coherent(j) /\ Served(j, disk)
      BY <2>1 DEF IInv, JobOK, SoleOK
    <2>3. Range(j.todo) = {} /\ (j.execute => j.receipt # None)
      BY <2>2, EmptyRange DEF Coherent
    <2> QED
      BY <2>2, <2>3 DEF Served
  <1> QED
    BY <1>1, Invariance, PTL

(* Without overlap, every receipt in the directory is that of a CLOSED     *)
(* artifact, which is what ran.                                            *)
THEOREM Truth == Spec => []ReceiptsAreTrue
  <1>1. IInv => ReceiptsAreTrue
    BY DEF IInv
  <1> QED
    BY <1>1, Invariance, PTL

(* A receipt that gets into the directory is written by a command that has *)
(* all the files of its artifact there.                                    *)
LEMMA ReceiptStep ==
    ASSUME IInv, [Next]_vars, disk'[Execution] # disk[Execution],
           disk'[Execution] \in Receipt, ~ overlapped
    PROVE  LET a == disk'[Execution].artifact
           IN  \A f \in Range(FilesOf(a)) : disk[f] = a
  <1>1. disk' # disk
    OBVIOUS
  <1>2. PICK c \in Command : Step(c) \/ Fail(c)
    BY <1>1 DEF Next, vars, BeginResolve, BeginExecute, Begin
  <1>3. Execution \in File /\ DOMAIN disk = File
    BY SpecialFiles DEF IInv, TypeOK
  <1>4. Empty \notin Receipt /\ Torn \notin Receipt
    BY OutputAssumption
  <1>5. ~ Fail(c)
    BY <1>3, <1>4 DEF Fail
  <1>6. ~ OpenFile(c)
    BY <1>3, <1>4 DEF OpenFile
  <1>7. WriteFile(c)
    BY <1>1, <1>2, <1>5, <1>6
       DEF Step, RefuseToExecute, ReadArtifact, GoRun, Return
  <1> DEFINE j == job[c]
             f == Head(j.todo)
  <1>8. Running(c) /\ j.opened
    BY <1>7 DEF WriteFile
  <1>9. PICK text \in {Text(c), Torn} : disk' = [disk EXCEPT ![f] = text]
    BY <1>7 DEF WriteFile
  <1>10. f = Execution /\ disk'[Execution] = Text(c)
    BY <1>3, <1>4, <1>9
  <1>11. j.receipt # None /\ j.artifacts \in Artifacts
    BY <1>8, <1>10, WrittenText DEF IInv
  <1>12. j.artifacts # None /\ sole = c
    BY <1>8, <1>11, Alone, OutputAssumption
  <1>13. disk'[Execution].artifact = j.artifacts
    BY <1>8, <1>10, <1>11, <1>12, OwnReceipt DEF Text
  <1>14. Coherent(j) /\ Served(j, disk) /\ j.phase = "running"
    BY <1>8, <1>12, Alone DEF Running
  <1>15. Range(j.todo) \subseteq {Execution}
    BY <1>11, <1>12, <1>14 DEF Coherent
  <1>16. \A g \in Range(FilesOf(j.artifacts)) : disk[g] = j.artifacts
    BY <1>12, <1>14, <1>15, FileNames DEF Served
  <1> QED
    BY <1>13, <1>16

(* WriteFile of execution.json comes after all the others, so a receipt    *)
(* never stands beside files of which one was not written.                 *)
THEOREM Lateness == Spec => ReceiptLast
  <1>1. IInv /\ [Next]_vars =>
          [ disk'[Execution] # disk[Execution] /\ disk'[Execution] \in Receipt /\ ~ overlapped =>
              LET a == disk'[Execution].artifact
              IN  \A f \in Range(FilesOf(a)) : disk[f] = a ]_vars
    BY ReceiptStep
  <1> QED
    BY <1>1, Invariance, PTL DEF Spec, ReceiptLast
===============================================================================
