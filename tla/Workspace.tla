----------------------------- MODULE Workspace -----------------------------
(* The file tools of one turn (tools/registry.py, blaxel_dispatch.py,        *)
(* artifacts/blaxel_build.py) on the files of one session, kept on the host  *)
(* or in the VM of the user (blaxel_lazy.py, blaxel_runtime.py), and the     *)
(* files that an iMessage turn sends as attachments (file_attachments.py).   *)
(*                                                                           *)
(* The text of a file is the sequence of the calls that wrote its pieces, so *)
(* the empty sequence is a file that is not there; a 0 among them is what a  *)
(* failed write left. The calls of a round run in parallel; the rounds       *)
(* follow one another.                                                       *)
EXTENDS Naturals, Sequences, FiniteSets, SequencesExt

CONSTANTS Scenes,   \* bounds: the turns looked at
          Limit     \* MAX_ATTACHMENTS_PER_TURN

(* A scene says where the files are, whether the VM is attached before the   *)
(* turn (eager), whether it is an iMessage turn (captures), how often a call is *)
(* repeated (max_retries), how many faults of the VM or the disk there are,  *)
(* and the plan: for every call its tool, its file, its round, for an Edit   *)
(* the call whose text it replaces, whether its path leads out of the        *)
(* folder, and whether the file it writes fits as an attachment: it is not   *)
(* empty or too large, and neither its name nor its suffix is skipped.       *)
Writing == {"write", "append", "edit", "build", "shell"}

VARIABLES scene,    \* the bounds of this behaviour
          round,    \* the round of tool calls that runs
          pc,       \* [Calls -> where its handler is]
          tries,    \* [Calls -> attempts that failed]
          outcome,  \* [Calls -> what the model was told]
          bound,    \* [Calls -> the VM in the context of its task, 0 for none]
          got,      \* [Calls -> the text it has read]
          vm,       \* [gen, alive]: the VM under the name of the user
          cached,   \* _sandbox_cache: a VM, or 0
          lock,     \* the call that holds the lock of the user, or 0
          disk,     \* [files -> text]
          queued,   \* the attachments, in the order they were recorded
          last,     \* [files -> the call whose text was written last, or 0]
          mishaps   \* what went wrong so far

turnVars == <<round, outcome>>
vmVars == <<vm, cached, lock>>
fileVars == <<disk, last>>
vars == <<scene, round, pc, tries, outcome, bound, got, vm, cached, lock, disk, queued, last, mishaps>>

Calls == DOMAIN scene.plan
Plan(c) == scene.plan[c]
File(c) == Plan(c).file
Files == {File(c) : c \in Calls}
Cloud == scene.target = "cloud"
Rounds == {Plan(c).round : c \in Calls}
LastRound == CHOOSE r \in Rounds : \A q \in Rounds : q <= r
Over == round > LastRound

Init ==
    /\ scene \in Scenes
    /\ round = 1
    /\ pc = [c \in Calls |-> "idle"]
    /\ tries = [c \in Calls |-> 0]
    /\ outcome = [c \in Calls |-> "none"]
    /\ vm = [gen |-> 1, alive |-> TRUE]
    /\ cached \in IF scene.eager THEN {1} ELSE {0, 1}
    /\ bound = [c \in Calls |-> IF scene.eager THEN 1 ELSE 0]
    /\ got = [c \in Calls |-> <<>>]
    /\ lock = 0
    /\ disk = [f \in Files |-> <<>>]
    /\ queued = <<>>
    /\ last = [f \in Files |-> 0]
    /\ mishaps = [faults |-> 0, marred |-> {}, timeout |-> FALSE, gone |-> FALSE, unsent |-> FALSE]

Live(c) == outcome[c] = "none"
Answered(c, result) == pc' = [pc EXCEPT ![c] = "done"] /\ outcome' = [outcome EXCEPT ![c] = result]
Goes(c, place) == pc' = [pc EXCEPT ![c] = place] /\ UNCHANGED outcome

(* Output that reads as an error, or an exception: the handler is run again  *)
(* in the same task, with what that task has bound.                          *)
Failed(c) ==
    /\ tries' = [tries EXCEPT ![c] = @ + 1]
    /\ IF tries[c] < scene.retries THEN Goes(c, "idle") ELSE Answered(c, "error")

\* A command of the VM fails though the VM is there, or the disk of the host.
Fault == mishaps.faults < scene.faults
Faulty(m) == [m EXCEPT !.faults = @ + 1]
----------------------------------------------------------------------------
(* The VM.                                                                  *)

(* Tools that read a text before they write one: Edit, and in the VM Write   *)
(* with mode=append, where the host opens the file for appending.            *)
ReadsFirst(c) == Plan(c).op \in {"edit", "read", "find"} \/ (Plan(c).op = "append" /\ Cloud)
Modifies(c) == Plan(c).op \in Writing
FirstStep(c) == IF ReadsFirst(c) THEN "read" ELSE "write"

\* A handler starts. Documents are built in the VM only, and on the host no
\* path leads out of the workspace; in the VM such a path is taken for a name
\* inside the folder of the session.
Refused(c) == ~Cloud /\ (Plan(c).outside \/ Plan(c).op = "build")
Begin(c) ==
    /\ pc[c] = "idle" /\ Live(c) /\ Plan(c).round = round
    /\ IF Refused(c) THEN Failed(c)
       ELSE Goes(c, IF Cloud /\ bound[c] = 0 THEN "attach" ELSE FirstStep(c)) /\ UNCHANGED tries
    /\ UNCHANGED <<scene, round, bound, got, vmVars, fileVars, queued, mishaps>>

\* ensure_blaxel_for_file_tool takes the lock of the user.
Lock(c) ==
    /\ pc[c] = "attach" /\ lock = 0
    /\ lock' = c
    /\ Goes(c, "locked")
    /\ UNCHANGED <<scene, round, tries, bound, got, vm, cached, fileVars, queued, mishaps>>

Unlock(c) == lock' = IF lock = c THEN 0 ELSE lock

\* _ensure_user_blaxel_vm: a handle younger than the TTL is trusted,
\* otherwise the VM of that name is found or made, with empty disks.
HaveVM ==
    IF cached # 0 THEN UNCHANGED <<vm, cached, disk, last>>
    ELSE IF vm.alive THEN cached' = vm.gen /\ UNCHANGED <<vm, disk, last>>
    ELSE /\ vm' = [gen |-> vm.gen + 1, alive |-> TRUE]
         /\ cached' = vm'.gen
         /\ UNCHANGED fileVars

\* The mkdir of the folder may fail unseen; the VM is bound in the task of
\* this call alone.
Attach(c) ==
    /\ pc[c] = "locked"
    /\ HaveVM
    /\ bound' = [bound EXCEPT ![c] = cached']
    /\ Unlock(c)
    /\ Goes(c, FirstStep(c))
    /\ UNCHANGED <<scene, round, tries, got, queued, mishaps>>

AttachFails(c) ==
    /\ pc[c] = "locked" /\ cached = 0 /\ Fault
    /\ mishaps' = Faulty(mishaps)
    /\ Unlock(c)
    /\ Failed(c)
    /\ UNCHANGED <<scene, round, bound, got, vm, cached, fileVars, queued>>

\* The routes of the workspace attach the VM without the lock.
Browse ==
    /\ Cloud /\ cached = 0 /\ ~Over
    /\ HaveVM
    /\ UNCHANGED <<scene, turnVars, pc, tries, bound, got, lock, queued, mishaps>>

\* More than _ENSURE_LOCK_MAX users: the lock is forgotten while it is held.
EvictLock ==
    /\ lock # 0
    /\ lock' = 0
    /\ UNCHANGED <<scene, turnVars, pc, tries, bound, got, vm, cached, fileVars, queued, mishaps>>

Age ==
    /\ Cloud /\ cached # 0 /\ ~Over
    /\ cached' = 0
    /\ UNCHANGED <<scene, turnVars, pc, tries, bound, got, vm, lock, fileVars, queued, mishaps>>

\* The provider takes the VM away with its disk.
VmGone ==
    /\ Cloud /\ vm.alive /\ Fault /\ ~Over
    /\ vm' = [vm EXCEPT !.alive = FALSE]
    /\ disk' = [f \in Files |-> <<>>]
    /\ last' = [f \in Files |-> 0]
    /\ mishaps' = [Faulty(mishaps) EXCEPT !.gone = TRUE]
    /\ UNCHANGED <<scene, turnVars, pc, tries, bound, got, cached, lock, queued>>
----------------------------------------------------------------------------
(* The handlers.                                                            *)

Reaches(c) == Cloud => vm.alive /\ bound[c] = vm.gen

Replace(s, old, c) == [i \in DOMAIN s |-> IF i = SelectInSeq(s, LAMBDA p : p = old) THEN c ELSE s[i]]

\* Does an Edit find its old_string, and a Read its file?
Finds(c) ==
    /\ Plan(c).op = "edit" => Plan(c).old \in ToSet(disk[File(c)])
    /\ Plan(c).op = "read" => disk[File(c)] # <<>>

\* Read is done when it has read.
Read(c) ==
    /\ pc[c] = "read" /\ Reaches(c) /\ Plan(c).op = "read" /\ Finds(c)
    /\ IF Live(c) THEN Answered(c, "ok") ELSE Goes(c, "done")
    /\ UNCHANGED <<scene, round, tries, bound, got, vmVars, fileVars, queued, mishaps>>

\* Glob and Grep may find nothing.
Find(c) ==
    /\ pc[c] = "read" /\ Reaches(c) /\ Plan(c).op = "find"
    /\ IF Live(c) THEN Answered(c, "ok") ELSE Goes(c, "done")
    /\ UNCHANGED <<scene, round, tries, bound, got, vmVars, fileVars, queued, mishaps>>

\* Edit, and an append in the VM.
ReadText(c) ==
    /\ pc[c] = "read" /\ Reaches(c) /\ Modifies(c) /\ Finds(c)
    /\ got' = [got EXCEPT ![c] = disk[File(c)]]
    /\ Goes(c, "write")
    /\ UNCHANGED <<scene, round, tries, bound, vmVars, fileVars, queued, mishaps>>

\* File not found, or old_string not found in file.
NotFound(c) ==
    /\ pc[c] = "read" /\ Reaches(c) /\ ~Finds(c)
    /\ IF Live(c) THEN Failed(c) ELSE Goes(c, "done") /\ UNCHANGED tries
    /\ UNCHANGED <<scene, round, bound, got, vmVars, fileVars, queued, mishaps>>

\* The read fails. For an append in the VM that is an empty file.
ReadFails(c) ==
    /\ pc[c] = "read"
    /\ Reaches(c) => Fault
    /\ mishaps' = LET m == IF Reaches(c) THEN Faulty(mishaps) ELSE mishaps
                  IN  IF Plan(c).op = "append" THEN [m EXCEPT !.marred = @ \cup {File(c)}] ELSE m
    /\ IF Plan(c).op = "append"
       THEN got' = [got EXCEPT ![c] = <<>>] /\ Goes(c, "write") /\ UNCHANGED tries
       ELSE /\ IF Live(c) THEN Failed(c) ELSE Goes(c, "done") /\ UNCHANGED tries
            /\ UNCHANGED got
    /\ UNCHANGED <<scene, round, bound, vmVars, fileVars, queued>>

Text(c) ==
    CASE Plan(c).op = "append" -> Append(IF Cloud THEN got[c] ELSE disk[File(c)], c)
      [] Plan(c).op = "edit" -> Replace(got[c], Plan(c).old, c)
      [] OTHER -> <<c>>

Applied(c) == disk' = [disk EXCEPT ![File(c)] = Text(c)] /\ last' = [last EXCEPT ![File(c)] = c]

\* What is captured for the attachments: what Write and Edit did, not a shell.
Captured(c) == scene.captures /\ Plan(c).op \notin {"build", "shell"}
Room == Len(queued) < Limit

\* On the host a file is queued once, by its path, and read when it is sent.
QueueHostFile(c) ==
    queued' = IF ~Cloud /\ Captured(c) /\ Plan(c).fits /\ Room /\ \A q \in ToSet(queued) : q.file # File(c)
              THEN Append(queued, [file |-> File(c), text |-> <<>>]) ELSE queued

\* fs.write, the command of a build or of Bash, or the thread of a host tool. What a
\* cancelled call has under way is done all the same.
Write(c) ==
    /\ pc[c] = "write" /\ Reaches(c)
    /\ Applied(c)
    /\ QueueHostFile(c)
    /\ IF ~Live(c) THEN Goes(c, "done")
       ELSE IF Plan(c).op = "build" THEN Goes(c, "verify")
       ELSE IF Cloud /\ Captured(c) THEN Goes(c, "export")
       ELSE Answered(c, "ok")
    /\ UNCHANGED <<scene, round, tries, bound, got, vmVars, mishaps>>

\* A file opened for writing is emptied first, so a write that breaks off
\* leaves a part of the new text, and of the old one only what it appends to.
Truncated(c) ==
    /\ disk' = [disk EXCEPT ![File(c)] = IF Plan(c).op = "append" /\ ~Cloud THEN Append(@, 0) ELSE <<0>>]
    /\ last' = [last EXCEPT ![File(c)] = 0]

\* The write fails with nothing, a part or all of it done: the file of the
\* host can not be opened or the disk is full, the answer of the VM is lost, a
\* command of Bash is killed. What was there may be lost with the text that
\* was to be written back.
WriteFails(c) ==
    /\ pc[c] = "write"
    /\ \/ ~Reaches(c) /\ UNCHANGED <<mishaps, fileVars>>
       \/ Reaches(c) /\ Fault /\ (Applied(c) \/ UNCHANGED fileVars) /\ mishaps' = Faulty(mishaps)
       \/ /\ Reaches(c) /\ Fault /\ Truncated(c)
          /\ mishaps' = [Faulty(mishaps) EXCEPT !.marred = IF ReadsFirst(c) THEN @ \cup {File(c)} ELSE @]
    /\ IF Live(c) THEN Failed(c) ELSE Goes(c, "done") /\ UNCHANGED tries
    /\ UNCHANGED <<scene, round, bound, got, vmVars, queued>>

\* The second command of a build: is the file there?
Verify(c) ==
    /\ pc[c] = "verify"
    /\ IF Reaches(c) /\ disk[File(c)] # <<>> THEN Answered(c, "ok") /\ UNCHANGED tries ELSE Failed(c)
    /\ UNCHANGED <<scene, round, bound, got, vmVars, fileVars, queued, mishaps>>

\* What was written last says whether the file fits.
Attachable(f) == last[f] # 0 => Plan(last[f]).fits
QueueOnce(c) ==
    queued' = IF Room /\ Attachable(File(c)) /\ \A q \in ToSet(queued) : q.file # File(c)
              THEN Append(queued, [file |-> File(c), text |-> disk[File(c)]]) ELSE queued
QueueVmFile(c) ==
    queued' = IF Room /\ Attachable(File(c))
              THEN Append(queued, [file |-> File(c), text |-> disk[File(c)]]) ELSE queued

\* In the VM the file is fetched and queued every time it is written; if it
\* can not be fetched nobody is told.
Export(c) ==
    /\ pc[c] = "export"
    /\ \/ Reaches(c) /\ QueueVmFile(c) /\ UNCHANGED mishaps
       \/ Reaches(c) /\ Fault /\ mishaps' = [Faulty(mishaps) EXCEPT !.unsent = TRUE] /\ UNCHANGED queued
       \/ ~Reaches(c) /\ mishaps' = [mishaps EXCEPT !.unsent = TRUE] /\ UNCHANGED queued
    /\ Answered(c, "ok")
    /\ UNCHANGED <<scene, round, tries, bound, got, vmVars, fileVars>>
----------------------------------------------------------------------------
(* The rounds.                                                              *)

InRound == {c \in Calls : Plan(c).round = round}

NextRoundHasty ==
    /\ ~Over /\ \E c \in InRound : ~Live(c)
    /\ round' = round + 1
    /\ UNCHANGED <<scene, pc, tries, outcome, bound, got, vmVars, fileVars, queued, mishaps>>

\* gather waits for every call, whether it failed or not.
NextRound ==
    /\ ~Over /\ \A c \in InRound : ~Live(c)
    /\ round' = round + 1
    /\ UNCHANGED <<scene, pc, tries, outcome, bound, got, vmVars, fileVars, queued, mishaps>>

\* wait_for of the tool phase: the tasks are cancelled and every call of the
\* round is answered "Error". A thread or a process of the host runs on; so may
\* a write that is on its way to the VM.
RunsOn(c) == pc[c] = "write" \/ (~Cloud /\ pc[c] = "read")
Timeout ==
    /\ ~Over /\ ~mishaps.timeout
    /\ \E c \in InRound : Live(c)
    /\ \E on \in SUBSET {c \in InRound : RunsOn(c)} :
         /\ ~Cloud => on = {c \in InRound : RunsOn(c)}
         /\ pc' = [c \in Calls |-> IF c \in InRound \ on THEN "done" ELSE pc[c]]
    /\ outcome' = [c \in Calls |-> IF c \in InRound THEN "error" ELSE outcome[c]]
    /\ lock' = IF lock \in InRound THEN 0 ELSE lock
    /\ round' = round + 1
    /\ mishaps' = [mishaps EXCEPT !.timeout = TRUE]
    /\ UNCHANGED <<scene, tries, bound, got, vm, cached, fileVars, queued>>

Handler(c) ==
    \/ Begin(c) \/ Lock(c) \/ Attach(c) \/ AttachFails(c)
    \/ Read(c) \/ Find(c) \/ ReadText(c) \/ NotFound(c) \/ ReadFails(c) \/ Write(c) \/ WriteFails(c) \/ Verify(c) \/ Export(c)

Next ==
    \/ \E c \in Calls : Handler(c)
    \/ Browse \/ EvictLock \/ Age \/ VmGone \/ NextRound \/ Timeout

Spec == Init /\ [][Next]_vars
----------------------------------------------------------------------------
TypeOK ==
    /\ round \in 1..(LastRound + 1)
    /\ \A c \in Calls : /\ pc[c] \in {"idle", "attach", "locked", "read", "write", "verify", "export", "done"}
                        /\ outcome[c] \in {"none", "ok", "error"}
                        /\ tries[c] \in 0..(scene.retries + 1) /\ bound[c] \in 0..vm.gen
    /\ cached \in 0..vm.gen /\ lock \in {0} \cup Calls
    /\ \A f \in Files : disk[f] \in Seq({0} \cup Calls) /\ last[f] \in {0} \cup Calls
    /\ Len(queued) <= Limit

Started(c) == pc[c] # "idle" \/ tries[c] > 0

\* Calls of one round that can lose each other's text: all that write the
\* same file, but for two appends on the host.
Contended(f) ==
    \E c, d \in Calls : /\ c # d /\ Plan(c).round = Plan(d).round /\ File(c) = f /\ File(d) = f
                        /\ Modifies(c) /\ Modifies(d)
                        /\ Cloud \/ {Plan(c).op, Plan(d).op} # {"append"}
Removes(d, c) == File(d) = File(c) /\ (Plan(d).op \in {"write", "build", "shell"} \/ (Plan(d).op = "edit" /\ Plan(d).old = c))

\* The text of a call that was answered with success is in its file until a
\* call of a later round replaces it, or tries to, though calls are repeated
\* and fail, answers are lost and handles grow old - unless the round wrote
\* the file in parallel, a round was cut off, the VM was lost, an append could
\* not read the file, or the text an Edit wrote back broke off
\* (blaxel_dispatch.py:176; registry.py:143 and 215, which empty the file first).
NothingLost ==
    ~mishaps.timeout /\ ~mishaps.gone =>
        \A c \in Calls : outcome[c] = "ok" /\ Modifies(c) /\ ~Contended(File(c)) /\ File(c) \notin mishaps.marred
            => \/ c \in ToSet(disk[File(c)])
               \/ \E d \in Calls : Plan(d).round > Plan(c).round /\ Removes(d, c) /\ Started(d)

\* At the end of an iMessage turn the last version of every file that Write
\* or Edit finished last is among the attachments, in whatever order parallel
\* calls wrote and fetched it, unless it does not fit or the queue is full
\* (file_attachments.py:77-97 and 121).
LatestSent ==
    scene.captures /\ Over /\ ~mishaps.timeout /\ ~mishaps.unsent /\ Room =>
        \A f \in Files : last[f] # 0 /\ outcome[last[f]] = "ok" /\ Captured(last[f]) /\ Plan(last[f]).fits
            => \E q \in ToSet(queued) : q.file = f /\ (Cloud => q.text = disk[f])
=============================================================================
