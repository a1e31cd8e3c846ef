------------------------------ MODULE OutputFormat ------------------------------
(***************************************************************************)
(* The output_format plugin: the final answer of a run is validated        *)
(* against a contract and, when it fails, rewritten by the utility model   *)
(* up to repair_attempts times; strict mode raises when no attempt met it. *)
(*                                                                         *)
(* An answer is abstract: whether it is empty, whether it holds JSON and   *)
(* how it is wrapped, whether what it holds meets the schema, template or  *)
(* constraints, whether it exceeds max_output_chars (with what is around   *)
(* its JSON only, or by itself), and which of several such texts it is.    *)
(***************************************************************************)
EXTENDS Integers, Sequences

CONSTANTS
  Formats,          (* types a plugin may be configured with               *)
  RepairAttempts,   (* repair_attempts                                     *)
  TextIds           (* tells texts of the same shape apart                 *)

ASSUME FormatAssumption ==
  Formats \subseteq {"none", "json_schema", "markdown", "text"} /\ RepairAttempts \in Nat

Text == [wrap : {"empty", "prose", "wrapped", "bare"}, meets : BOOLEAN,
         long : {"no", "as_wrapped", "always"}, id : TextIds]

VARIABLES
  contract,         (* type, strict, auto_repair, a utility model is there *)
  answer,           (* the final answer of the run                         *)
  draft,            (* current, in repair_with_result                      *)
  attempts,
  delivery,         (* phase: validating, repairing, returned or raised    *)
  report            (* metadata["output_format"] and its audit record      *)

formatVars == <<contract, answer, draft, attempts, delivery, report>>

NoReport == [made |-> FALSE, valid |-> FALSE, attempts |-> 0, repaired |-> FALSE]

FormatInit ==
  /\ contract \in [type : Formats, strict : BOOLEAN, repair : BOOLEAN, model : BOOLEAN]
  /\ answer \in Text /\ draft = answer
  /\ attempts = 0 /\ delivery = "validating" /\ report = NoReport

(* extract_json: the JSON alone, out of a code fence or of the prose.      *)
Extracted(text) == [text EXCEPT !.wrap = IF @ = "wrapped" THEN "bare" ELSE @]
HasJson(text) == text.wrap \in {"wrapped", "bare"}
Long(text) ==
  text.long = "always" \/ (text.long = "as_wrapped" /\ text.wrap # "bare")

(* OutputValidator.validate: the verdict, and the content it goes with.    *)
ValidText(text) ==
  \/ contract.type = "none"
  \/ /\ ~Long(text) /\ text.meets
     /\ contract.type = "json_schema" => HasJson(text)
ContentOf(text) ==
  IF contract.type = "json_schema" /\ HasJson(text) /\ ~Long(text)
  THEN Extracted(text) ELSE text

(* _record_result, then the end of on_execution_complete.                  *)
Deliver(text, tried) ==
  /\ draft' = text /\ attempts' = tried
  /\ report' = [made |-> TRUE, valid |-> ValidText(text), attempts |-> tried,
                repaired |-> text # answer]
  /\ delivery' = IF contract.strict /\ ~ValidText(text) THEN "raised" ELSE "returned"

(* The first validation; without auto_repair the answer is left as it is.  *)
Validate ==
  /\ delivery = "validating"
  /\ \/ /\ answer.wrap = "empty" \/ contract.type = "none"
        /\ delivery' = "returned"
        /\ UNCHANGED <<draft, attempts, report>>
     \/ /\ answer.wrap # "empty" /\ contract.type # "none"
        /\ \/ ~contract.repair /\ Deliver(answer, 0)
           \/ contract.repair /\ ValidText(answer) /\ Deliver(ContentOf(answer), 0)
           \/ /\ contract.repair /\ ~ValidText(answer)
              /\ IF RepairAttempts = 0 THEN Deliver(answer, 0)
                 ELSE delivery' = "repairing" /\ UNCHANGED <<draft, attempts, report>>
  /\ UNCHANGED <<contract, answer>>

(* What OutputRepairer.repair may return: whatever the model says, with a  *)
(* code fence around it stripped, or the local repair.                     *)
LocalRepair(text) == IF contract.type = "json_schema" THEN Extracted(text) ELSE text
Repairs == IF contract.model
           THEN {LocalRepair(draft)} \cup {t \in Text : t.wrap # "empty"}
           ELSE {LocalRepair(draft)}

(* For the mutants: the repaired text goes out as the attempts run out,    *)
(* judged by the text before it.                                           *)
RepairUnchecked ==
  /\ delivery = "repairing"
  /\ \E t \in Repairs :
       /\ draft' = t /\ attempts' = attempts + 1
       /\ delivery' = "returned"
       /\ report' = [made |-> TRUE, valid |-> ValidText(draft), attempts |-> attempts + 1,
                     repaired |-> t # answer]
  /\ UNCHANGED <<contract, answer>>

Repair ==
  /\ delivery = "repairing"
  /\ \E t \in Repairs :
       IF ValidText(t) THEN Deliver(ContentOf(t), attempts + 1)
       ELSE IF attempts + 1 = RepairAttempts \/ (t = answer /\ ~contract.model)
       THEN Deliver(t, attempts + 1)
       ELSE /\ draft' = t /\ attempts' = attempts + 1
            /\ UNCHANGED <<delivery, report>>
  /\ UNCHANGED <<contract, answer>>

(* The model raises or takes longer than repair_timeout: the last draft.   *)
RepairRaises ==
  /\ delivery = "repairing" /\ contract.model
  /\ Deliver(draft, attempts + 1)
  /\ UNCHANGED <<contract, answer>>

FormatNext == Validate \/ Repair \/ RepairRaises

FormatSpec == FormatInit /\ [][FormatNext]_formatVars

--------------------------------------------------------------------------------
(* The variables have their types.                                         *)
FormatTypeOK ==
  /\ {answer, draft} \subseteq Text /\ attempts \in 0..RepairAttempts
  /\ delivery \in {"validating", "repairing", "returned", "raised"}
  /\ report \in [made : BOOLEAN, valid : BOOLEAN, attempts : 0..RepairAttempts,
                 repaired : BOOLEAN]

(* In strict mode an answer that is returned, empty ones apart, meets the  *)
(* contract after all the extraction and repairing; what the report says   *)
(* is true of the text that was delivered; a valid JSON answer that was    *)
(* repaired is delivered bare; an answer that was valid is not rewritten   *)
(* by the model.                                                           *)
ContractKept ==
  /\ delivery = "returned" /\ contract.strict /\ answer.wrap # "empty" =>
       ValidText(draft)
  /\ report.made => report.valid = ValidText(draft)
  /\ report.made /\ report.valid /\ contract.repair /\ contract.type = "json_schema" =>
       draft.wrap = "bare"
  /\ ValidText(answer) => Extracted(draft) = Extracted(answer)
================================================================================
