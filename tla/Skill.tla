---------------------------------- MODULE Skill ----------------------------------
(***************************************************************************)
(* The skill plugin: a table of skills, loaded from the catalog resource   *)
(* and then from the directories in order, loaded again by reload_skills,  *)
(* and scripts of those skills run in a workspace, each with an audit      *)
(* record.  Calls of the tools interleave where they await: while a script *)
(* runs, while its output or a skill is moved to the artifact store.       *)
(*                                                                         *)
(* The disk is external: what a directory holds may change at any time.    *)
(***************************************************************************)
EXTENDS Integers, FiniteSets, Sequences

CONSTANTS
  SkillNames,
  Places,           (* 1..Places: catalog items and directories, in order  *)
  Versions,         (* contents a skill may have                           *)
  AllowedSkills, DeniedSkills,    (* an empty AllowedSkills allows all     *)
  DuplicatePolicy,  (* "error", "skip" or "replace"                        *)
  ScriptCalls,      (* calls of run_skill_script                           *)
  MaxDiskChanges    (* bound: changes of the disk                          *)

ASSUME SkillAssumption ==
  /\ Places \in Nat \ {0} /\ MaxDiskChanges \in Nat
  /\ DuplicatePolicy \in {"error", "skip", "replace"}
  /\ AllowedSkills \cup DeniedSkills \subseteq SkillNames

Broken == 0         (* the version of what cannot be read                  *)
Item == [name : SkillNames, version : Versions, scripts : BOOLEAN]
Directory ==
  {{}} \cup {{[name |-> n, version |-> Broken, scripts |-> FALSE]} : n \in SkillNames}
       \cup {{i} : i \in Item}

VARIABLES
  disk,             (* the items at each place                             *)
  skills,           (* _skills: the item loaded under a name, a set of     *)
                    (* items with different names                          *)
  loadFailed,       (* the last load raised                                *)
  script,           (* phase of a call and the item it resolved to         *)
  audit,            (* audit records of a call, in order                   *)
  ran,              (* history: the calls whose script was started         *)
  diskChanges

skillVars == <<disk, skills, loadFailed, script, audit, ran, diskChanges>>

Wanted(item) ==
  (AllowedSkills = {} \/ item.name \in AllowedSkills) /\ item.name \notin DeniedSkills

Named(table, name) == {s \in table : s.name = name}

(* For the mutants: a skill that takes the place of another does not       *)
(* remove it.                                                              *)
LoadOneBeside(state, items) ==
  IF state.failed \/ items = {} THEN state
  ELSE LET item == CHOOSE i \in items : TRUE IN
       IF item.version = Broken THEN [state EXCEPT !.failed = TRUE]
       ELSE IF ~Wanted(item) THEN state
       ELSE [state EXCEPT !.table = @ \cup {item}]

(* _load_catalog_skill, _load_skill_dir: one item at a time, until one     *)
(* raises; what was loaded before it stays.                                *)
LoadOne(state, items) ==
  IF state.failed \/ items = {} THEN state
  ELSE LET item == CHOOSE i \in items : TRUE
           same == Named(state.table, item.name) IN
       IF item.version = Broken THEN [state EXCEPT !.failed = TRUE]
       ELSE IF ~Wanted(item) THEN state
       ELSE IF same = {} \/ DuplicatePolicy = "replace"
            THEN [state EXCEPT !.table = (@ \ same) \cup {item}]
       ELSE [state EXCEPT !.failed = DuplicatePolicy = "error"]

LoadedUpTo(d) ==
  LET upTo[p \in 0..Places] ==
        IF p = 0 THEN [table |-> {}, failed |-> FALSE] ELSE LoadOne(upTo[p - 1], d[p])
  IN  upTo
Loaded(d) ==
  LET state == LoadedUpTo(d)[Places]
  IN  [state EXCEPT !.failed = @ \/ state.table = {}]

(* A failure when the plugin is initialized fails the agent: the plugin is *)
(* in use only after a load that did not raise.                            *)
SkillInit ==
  /\ disk \in [1..Places -> Directory]
  /\ ~Loaded(disk).failed
  /\ skills = Loaded(disk).table /\ loadFailed = FALSE
  /\ script = [c \in ScriptCalls |-> [phase |-> "new", item |-> {}]]
  /\ audit = [c \in ScriptCalls |-> <<>>]
  /\ ran = {} /\ diskChanges = 0

DiskChanges ==
  /\ diskChanges < MaxDiskChanges /\ diskChanges' = diskChanges + 1
  /\ \E p \in 1..Places, items \in Directory :
       disk' = [disk EXCEPT ![p] = items]
  /\ UNCHANGED <<skills, loadFailed, script, audit, ran>>

(* reload_skills: the table is emptied first.                              *)
ReloadSkills ==
  /\ skills' = Loaded(disk).table
  /\ loadFailed' = Loaded(disk).failed
  /\ UNCHANGED <<disk, script, audit, ran, diskChanges>>

Recorded(c, event, allowed) ==
  audit' = [audit EXCEPT ![c] = Append(@, [event |-> event, allowed |-> allowed])]

(* For the mutants: the output that cannot be stored is recorded as a      *)
(* refusal.                                                                *)
ScriptEndsRefused(c, event) ==
  /\ script[c].phase = "running" /\ event \in {"executed", "failed"}
  /\ script' = [script EXCEPT ![c].phase = "ended"]
  /\ Recorded(c, event, event = "executed")
  /\ UNCHANGED <<disk, skills, loadFailed, ran, diskChanges>>

(* SkillScriptPolicy.resolve, then the start of the process.  Names and    *)
(* extensions that are not allowed, paths that leave the directory and     *)
(* files that are missing come down to ok = FALSE; arguments that cannot   *)
(* be split raise ValueError.                                              *)
ScriptStarts(c, name, ok, splits) ==
  LET found == {s \in Named(skills, name) : s.scripts} IN
  /\ script[c].phase = "new"
  /\ \/ /\ found = {} \/ ~ok \/ ~splits
        /\ script' = [script EXCEPT ![c].phase = "ended"]
        /\ Recorded(c, "rejected", FALSE)
        /\ UNCHANGED ran
     \/ /\ found # {} /\ ok /\ splits
        /\ script' = [script EXCEPT ![c] = [phase |-> "running", item |-> found]]
        /\ ran' = ran \cup {c}
        /\ UNCHANGED audit
  /\ UNCHANGED <<disk, skills, loadFailed, diskChanges>>

(* The process has ended or was killed, its log written, its output moved  *)
(* to the artifact store; each of the last two may raise.                  *)
ScriptEnds(c, event) ==
  /\ script[c].phase = "running" /\ event \in {"executed", "failed"}
  /\ script' = [script EXCEPT ![c].phase = "ended"]
  /\ Recorded(c, event, TRUE)
  /\ UNCHANGED <<disk, skills, loadFailed, ran, diskChanges>>

(* The run is cancelled: CancelledError is no Exception.                   *)
ScriptCancelled(c) ==
  /\ script[c].phase = "running"
  /\ script' = [script EXCEPT ![c].phase = "cancelled"]
  /\ UNCHANGED <<disk, skills, loadFailed, audit, ran, diskChanges>>

SkillNext ==
  \/ DiskChanges \/ ReloadSkills
  \/ \E c \in ScriptCalls :
       \/ \E name \in SkillNames, ok, splits \in BOOLEAN : ScriptStarts(c, name, ok, splits)
       \/ \E event \in {"executed", "failed"} : ScriptEnds(c, event)
       \/ ScriptCancelled(c)

SkillSpec == SkillInit /\ [][SkillNext]_skillVars

--------------------------------------------------------------------------------
(* The variables have their types.                                         *)
SkillTypeOK ==
  /\ disk \in [1..Places -> Directory]
  /\ skills \subseteq Item /\ loadFailed \in BOOLEAN /\ ran \subseteq ScriptCalls
  /\ \A c \in ScriptCalls :
       /\ script[c].phase \in {"new", "running", "ended", "cancelled"}
       /\ script[c].item \subseteq Item

(* Whatever is reloaded while scripts run: a call that ended has one audit *)
(* record, which says allowed just when a script was started; only skills  *)
(* the configuration admits are run; a name is loaded once.                *)
SkillsAccounted ==
  /\ \A c \in ScriptCalls :
       /\ script[c].phase = "ended" =>
            Len(audit[c]) = 1 /\ (audit[c][1].allowed <=> c \in ran)
       /\ \A s \in script[c].item : Wanted(s)
  /\ \A s \in skills : Named(skills, s.name) = {s} /\ Wanted(s)
================================================================================
