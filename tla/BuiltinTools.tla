----------------------------- MODULE BuiltinTools ------------------------------
(***************************************************************************)
(* The file tools of builtin_tools on the files of a workspace: file_read  *)
(* with line ranges, file_write, file_append and file_edit.  A call runs   *)
(* to its end without an await, so calls do not interleave; the process    *)
(* may die between two of its writes to the disk, and the files are what   *)
(* the next process finds.                                                 *)
(*                                                                         *)
(* A file is a sequence of tokens, one a line; the token "curly" is what   *)
(* file_edit normalizes to the token "quote".                              *)
(***************************************************************************)
EXTENDS Integers, FiniteSetsExt, SequencesExt

CONSTANTS
  Texts,            (* contents, texts to find and texts to put            *)
  LineRanges,       (* lists of ranges a reader may ask for                *)
  MaxFileLength     (* bound: tokens of a file                             *)

Tokens == {"quote", "curly", "word"}

ASSUME FileAssumption ==
  /\ Texts \subseteq Seq(Tokens) /\ MaxFileLength \in Nat
  /\ \A ranges \in LineRanges : ranges \in Seq(Int \X Int)

Absent == <<"absent">>

VARIABLES
  file,             (* the content of the file, or Absent                  *)
  tmpFile,          (* the content of the file beside it, path + ".tmp"    *)
  editing,          (* the call under way: its kind, the content it was    *)
                    (* given to find and to put, and what it read          *)
  shownLines        (* the last answer of file_read                        *)

fileVars == <<file, tmpFile, editing, shownLines>>

NoEdit == [kind |-> "none", old |-> <<>>, new |-> <<>>, all |-> FALSE, before |-> <<>>]
NoShown == [lines |-> <<>>, total |-> 0, partial |-> TRUE]

FileInit ==
  /\ file \in Texts \cup {Absent} /\ tmpFile = Absent
  /\ editing = NoEdit /\ shownLines = NoShown

(* str.replace(old, new, most), left to right and without overlap.         *)
MatchesAt(text, old, i) ==
  i + Len(old) - 1 <= Len(text) /\ SubSeq(text, i, i + Len(old) - 1) = old
ScanStep(text, old, new, most, s, i) ==
  IF s.skip > 0 THEN [s EXCEPT !.skip = @ - 1]
  ELSE IF s.count < most /\ MatchesAt(text, old, i)
       THEN [out |-> s.out \o new, skip |-> Len(old) - 1, count |-> s.count + 1]
  ELSE [s EXCEPT !.out = Append(@, text[i])]
Scanned(text, old, new, most) ==
  LET upTo[i \in 0..Len(text)] ==
        IF i = 0 THEN [out |-> <<>>, skip |-> 0, count |-> 0]
        ELSE ScanStep(text, old, new, most, upTo[i - 1], i)
  IN  upTo
Scan(text, old, new, most) == Scanned(text, old, new, most)[Len(text)]
Count(text, old) == Scan(text, old, <<>>, Len(text)).count
Normalized(text) == [i \in DOMAIN text |-> IF text[i] = "curly" THEN "quote" ELSE text[i]]

(* open(path, "w") empties the file before anything is written to it.      *)
WriteStarts(text) ==
  /\ editing.kind = "none"
  /\ editing' = [NoEdit EXCEPT !.kind = "write", !.new = text]
  /\ file' = <<>>
  /\ UNCHANGED <<tmpFile, shownLines>>

AppendStarts(text, create) ==
  /\ editing.kind = "none" /\ (create \/ file # Absent)
  /\ LET before == IF file = Absent THEN <<>> ELSE file IN
     /\ Len(before \o text) <= MaxFileLength
     /\ editing' = [NoEdit EXCEPT !.kind = "append", !.new = before \o text]
     /\ file' = before
  /\ UNCHANGED <<tmpFile, shownLines>>

WriteEnds ==
  /\ editing.kind \in {"write", "append"}
  /\ file' = editing.new /\ editing' = NoEdit
  /\ UNCHANGED <<tmpFile, shownLines>>

(* For the mutants: a text found as it is is normalized all the same.      *)
EditedNormalized(text, old, new, all) ==
  LET within == Normalized(text)
      find == Normalized(old)
  IN  [count |-> Count(within, find),
       text |-> Scan(within, find, new, IF all THEN Len(text) ELSE 1).out]

(* file_edit: quotes are normalized in text and file when the text is not  *)
(* found as it is; more than one match needs replace_all.                  *)
Edited(text, old, new, all) ==
  LET exact == Count(text, old) > 0
      within == IF exact THEN text ELSE Normalized(text)
      find == IF exact THEN old ELSE Normalized(old)
  IN  [count |-> Count(within, find),
       text |-> Scan(within, find, new, IF all THEN Len(text) ELSE 1).out]

EditStarts(old, new, all) ==
  /\ editing.kind = "none" /\ file # Absent /\ old # <<>>
  /\ LET edited == Edited(file, old, new, all) IN
     /\ edited.count = 1 \/ (edited.count > 1 /\ all)
     /\ Len(edited.text) <= MaxFileLength
     /\ tmpFile' = edited.text
  /\ editing' = [kind |-> "edit", old |-> old, new |-> new, all |-> all, before |-> file]
  /\ UNCHANGED <<file, shownLines>>

(* os.replace; or an error, after which the file beside is removed.        *)
EditEnds ==
  /\ editing.kind = "edit" /\ file' \in {file, tmpFile}
  /\ tmpFile' = Absent /\ editing' = NoEdit
  /\ UNCHANGED shownLines

(* _resolve_line_ranges, _join_line_ranges, _ranges_cover_full_file        *)
TotalLines == Max({1, Len(file)})
Clamped(ranges) ==
  SelectSeq([i \in DOMAIN ranges |->
               <<Max({1, ranges[i][1]}), Min({TotalLines, ranges[i][2]})>>],
            LAMBDA r : r[1] <= r[2])
LinesOf(ranges) ==
  FlattenSeq([k \in 1..Len(ranges) |->
                [i \in 1..(ranges[k][2] - ranges[k][1] + 1) |-> ranges[k][1] + i - 1]])

(* For the mutants: the first and the last line are enough.                *)
CoversFileByEnds(ranges) ==
  ranges # <<>> /\ Head(ranges)[1] = 1 /\ Last(ranges)[2] = TotalLines
CoversFile(ranges) == Len(ranges) = 1 /\ ranges[1] = <<1, TotalLines>>

ReadFile(ranges) ==
  /\ editing.kind = "none" /\ file # Absent
  /\ LET clamped == Clamped(ranges) IN
     shownLines' = [lines |-> LinesOf(clamped), total |-> TotalLines,
                partial |-> ~CoversFile(clamped)]
  /\ UNCHANGED <<file, tmpFile, editing>>

(* The process dies: what was not written yet is lost; a later one finds   *)
(* the file, and the file beside it.                                       *)
ProcessDies ==
  /\ editing.kind # "none"
  /\ editing' = NoEdit
  /\ UNCHANGED <<file, tmpFile, shownLines>>

FileNext ==
  \/ \E text \in Texts :
       \/ WriteStarts(text)
       \/ \E create \in BOOLEAN : AppendStarts(text, create)
       \/ \E new \in Texts, all \in BOOLEAN : EditStarts(text, new, all)
  \/ WriteEnds \/ EditEnds \/ ProcessDies
  \/ \E ranges \in LineRanges : ReadFile(ranges)

FileSpec == FileInit /\ [][FileNext]_fileVars

--------------------------------------------------------------------------------
(* The variables have their types.                                         *)
FileTypeOK ==
  /\ {file, tmpFile} \subseteq Seq(Tokens) \cup {Absent}
  /\ editing.kind \in {"none", "write", "append", "edit"}
  /\ editing.all \in BOOLEAN /\ shownLines.partial \in BOOLEAN

(* An edit of one place changes that place alone: what is before and after *)
(* it stays, and only when the text was found after normalization do the   *)
(* quotes of the rest change too.  Until it ends the file is as it was, so *)
(* a process that dies in an edit leaves it whole.                         *)
EditIsLocal ==
  editing.kind = "edit" =>
    LET before == editing.before
        n == Len(editing.old) IN
    /\ file = before
    /\ editing.all \/ \E i \in 1..Len(before) :
         LET head == SubSeq(before, 1, i - 1)
             tail == SubSeq(before, i + n, Len(before)) IN
         /\ MatchesAt(Normalized(before), Normalized(editing.old), i)
         /\ \/ tmpFile = head \o editing.new \o tail
            \/ /\ Count(before, editing.old) = 0
               /\ tmpFile = Normalized(head) \o editing.new \o Normalized(tail)

(* A reader that is told it saw the whole file has seen each line once and *)
(* in order.                                                               *)
WholeIsWhole ==
  ~shownLines.partial =>
    /\ Len(shownLines.lines) = shownLines.total
    /\ \A i \in DOMAIN shownLines.lines : shownLines.lines[i] = i

--------------------------------------------------------------------------------
(***************************************************************************)
(* The commands of the builtin tools python_exec, shell and pip_install    *)
(* (plugins/builtin/builtin_tools/command_tools.py) in one workspace: the  *)
(* venv they share and create on first use, the policy, the workspace and  *)
(* the local executor (runtime/sandbox_*.py), with timeouts and cancelled  *)
(* calls.  Several calls of a batch or of several runs are open at once.   *)
(*                                                                         *)
(* Processes are external: a command ends or runs on, and may start        *)
(* another process that outlives it; "python -m venv" makes bin/python     *)
(* before bin/pip and may fail in between.                                 *)
(***************************************************************************)
CONSTANTS
  Commands,         (* tool calls                                          *)
  CommandTools      (* "python_exec", "shell", "pip_install"               *)

ASSUME SandboxAssumption ==
  CommandTools \subseteq {"python_exec", "shell", "pip_install"}

VARIABLES
  toolOf,         (* what a call runs; "none" before it begins             *)
  command,        (* new, preparing (ensure_venv), spawning, running,      *)
                  (* logging (it has a result), or ended: done, error or   *)
                  (* cancelled                                             *)
  process,        (* the process a call started last: none, alive, exited  *)
  makesVenv,      (* calls whose living process is "python -m venv"        *)
  strays,         (* calls a process of whose command still runs on its    *)
                  (* own                                                   *)
  venv,           (* absent, python (without pip) or ready                 *)
  scripts         (* calls whose temporary script exists                   *)

sandboxVars == <<toolOf, command, process, makesVenv, strays, venv, scripts>>

CommandEnded == {"done", "error", "cancelled"}

SandboxInit ==
  /\ toolOf = [c \in Commands |-> "none"]
  /\ command = [c \in Commands |-> "new"]
  /\ process = [c \in Commands |-> "none"]
  /\ makesVenv = {} /\ strays = {} /\ scripts = {}
  /\ venv = "absent"

(* ensure_venv looks for bin/python only; shell needs no venv.             *)
CommandBegins(c) ==
  /\ command[c] = "new"
  /\ \E t \in CommandTools :
       LET create == t # "shell" /\ venv = "absent" IN
       /\ toolOf' = [toolOf EXCEPT ![c] = t]
       /\ command' = [command EXCEPT ![c] = IF create THEN "preparing" ELSE "spawning"]
       /\ process' = IF create THEN [process EXCEPT ![c] = "alive"] ELSE process
       /\ makesVenv' = makesVenv \cup {d \in {c} : create}
  /\ UNCHANGED <<strays, venv, scripts>>

(* "python -m venv", also of a call that has given up, goes on.            *)
VenvAdvances(c) ==
  /\ c \in makesVenv
  /\ IF venv = "absent"
     THEN venv' = "python" /\ UNCHANGED <<process, makesVenv>>
     ELSE /\ venv' = "ready"
          /\ process' = [process EXCEPT ![c] = "exited"]
          /\ makesVenv' = makesVenv \ {c}
  /\ UNCHANGED <<toolOf, command, strays, scripts>>

(* ensure_venv returns, or raises: the creation failed or took too long.   *)
VenvMade(c) ==
  /\ command[c] = "preparing" /\ process[c] = "exited"
  /\ command' = [command EXCEPT ![c] = "spawning"]
  /\ UNCHANGED <<toolOf, process, makesVenv, strays, venv, scripts>>

VenvFails(c) ==
  /\ c \in makesVenv
  /\ command' = [command EXCEPT ![c] = IF @ = "preparing" THEN "error" ELSE @]
  /\ process' = [process EXCEPT ![c] = "exited"]
  /\ makesVenv' = makesVenv \ {c}
  /\ UNCHANGED <<toolOf, strays, venv, scripts>>

(* PolicyCommandExecutor and check_shell_command may refuse any command.   *)
PolicyRefuses == BOOLEAN

(* A refused command has a result (126) without a process; a venv without  *)
(* pip has no pip to start.  python_exec writes its script first.          *)
CommandSpawns(c) ==
  /\ command[c] = "spawning"
  /\ \E refused \in PolicyRefuses :
     LET missing == toolOf[c] = "pip_install" /\ venv # "ready" IN
     /\ command' = [command EXCEPT ![c] =
                      IF refused THEN "logging" ELSE IF missing THEN "error" ELSE "running"]
     /\ process' = IF refused \/ missing THEN process
                   ELSE [process EXCEPT ![c] = "alive"]
  /\ scripts' = scripts \cup {d \in {c} : toolOf[d] = "python_exec"}
  /\ UNCHANGED <<toolOf, makesVenv, strays, venv>>

ProcessForks(c) ==
  /\ process[c] = "alive" /\ c \notin makesVenv /\ command[c] # "new"
  /\ strays' = strays \cup {c}
  /\ UNCHANGED <<toolOf, command, process, makesVenv, venv, scripts>>

ProcessExits(c) ==
  /\ process[c] = "alive" /\ c \notin makesVenv
  /\ process' = [process EXCEPT ![c] = "exited"]
  /\ UNCHANGED <<toolOf, command, makesVenv, strays, venv, scripts>>

(* communicate() returns when every process that holds the pipes is gone.  *)
CommandCommunicates(c) ==
  /\ command[c] = "running" /\ process[c] = "exited" /\ c \notin strays
  /\ command' = [command EXCEPT ![c] = "logging"]
  /\ UNCHANGED <<toolOf, process, makesVenv, strays, venv, scripts>>

(* For a mutant: the result of a timeout does not wait for a kill.         *)
CommandTimesOutAlive(c) ==
  /\ command[c] = "running"
  /\ command' = [command EXCEPT ![c] = "logging"]
  /\ UNCHANGED <<toolOf, process, makesVenv, strays, venv, scripts>>

(* wait_for gives up: the process is killed and awaited; what it started   *)
(* runs on.                                                                *)
CommandTimesOut(c) ==
  /\ command[c] = "running"
  /\ command' = [command EXCEPT ![c] = "logging"]
  /\ process' = [process EXCEPT ![c] = "exited"]
  /\ UNCHANGED <<toolOf, makesVenv, strays, venv, scripts>>

(* For a mutant: the script is removed only when all went well.            *)
CommandReturnsKeeping(c) ==
  /\ command[c] = "logging"
  /\ \E s \in {"done", "error"} :
       /\ command' = [command EXCEPT ![c] = s]
       /\ scripts' = scripts \ {d \in {c} : s = "done"}
  /\ UNCHANGED <<toolOf, process, makesVenv, strays, venv>>

(* The log is written in a thread, the finally removes the script, the     *)
(* output goes to the artifact store; the log or the store may fail.       *)
CommandReturns(c) ==
  /\ command[c] = "logging"
  /\ \E s \in {"done", "error"} : command' = [command EXCEPT ![c] = s]
  /\ scripts' = scripts \ {c}
  /\ UNCHANGED <<toolOf, process, makesVenv, strays, venv>>

(* CancelledError: nothing kills the process; a script still to be read is *)
(* removed.                                                                *)
CommandCancelled(c) ==
  /\ command[c] \in {"preparing", "spawning", "running", "logging"}
  /\ command' = [command EXCEPT ![c] = "cancelled"]
  /\ scripts' = scripts \ {c}
  /\ UNCHANGED <<toolOf, process, makesVenv, strays, venv>>

StrayEnds(c) ==
  /\ c \in strays
  /\ strays' = strays \ {c}
  /\ UNCHANGED <<toolOf, command, process, makesVenv, venv, scripts>>

CommandStep(c) ==
  \/ VenvMade(c) \/ CommandSpawns(c) \/ CommandCommunicates(c)
  \/ CommandTimesOut(c) \/ CommandReturns(c)

SandboxNext ==
  \E c \in Commands :
    \/ CommandBegins(c) \/ VenvAdvances(c) \/ VenvFails(c) \/ ProcessForks(c)
    \/ ProcessExits(c) \/ StrayEnds(c) \/ CommandCancelled(c) \/ CommandStep(c)

(* Every wait has a timeout; a venv is made or fails within two minutes.   *)
SandboxFairness ==
  \A c \in Commands :
    /\ WF_sandboxVars(CommandStep(c))
    /\ WF_sandboxVars(VenvAdvances(c) \/ VenvFails(c))

SandboxSpec == SandboxInit /\ [][SandboxNext]_sandboxVars /\ SandboxFairness

--------------------------------------------------------------------------------
(* Properties.                                                             *)

(* The type invariant.                                                     *)
SandboxTypeOK ==
  /\ toolOf \in [Commands -> CommandTools \cup {"none"}]
  /\ command \in [Commands -> CommandEnded \cup
                    {"new", "preparing", "spawning", "running", "logging"}]
  /\ process \in [Commands -> {"none", "alive", "exited"}]
  /\ {makesVenv, strays, scripts} \subseteq SUBSET Commands
  /\ venv \in {"absent", "python", "ready"}

(* A call that was not cancelled leaves no command of its own running and  *)
(* no script behind, whether it ended, failed, was refused or timed out,   *)
(* and a cancelled one leaves no script.                                   *)
CommandsLeaveNothing ==
  \A c \in Commands : command[c] \in CommandEnded =>
    /\ c \notin scripts
    /\ command[c] # "cancelled" => process[c] # "alive"

(* No process of a call outlives it: what a cancelled call runs, and what  *)
(* a command that timed out has started, do.                               *)
NothingOutlives ==
  \A c \in Commands : command[c] \in CommandEnded => process[c] # "alive" /\ c \notin strays

(* While nobody is making it, the venv is absent or has pip: a creation    *)
(* that failed half way is taken for the venv ever after.                  *)
VenvIsWhole == makesVenv = {} => venv # "python"

(* Every call ends, whatever its command does.                             *)
CommandsEnd ==
  \A c \in Commands : command[c] # "new" ~> command[c] \in CommandEnded
================================================================================
