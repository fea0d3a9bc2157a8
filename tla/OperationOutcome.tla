-------------------------- MODULE OperationOutcome --------------------------
(***************************************************************************)
(* Operation results (ulk_operation.c): a provider or a transport reports  *)
(* how an attempt of an operation ended, in a struct it fills in, and the  *)
(* receiver validates it before it relies on it.  What hangs on the answer *)
(* is whether the receiver may assume that nothing happened, may take the  *)
(* operation as finished, or must inspect what the provider left behind.   *)
(***************************************************************************)
EXTENDS TextRules

CONSTANTS Ids,          \* the views reported as operation and attempt IDs
          Transactions, \* the views reported as transaction IDs
          Commands      \* the views reported as inspection commands

VARIABLES result, answer

resultVars == <<result, answer>>

\* ulk_operation_outcome_v1; 0 and 7 are integers outside the enumeration.
CancelledBeforeDispatch == 1
RefusedBeforeEffects    == 2
Completed               == 3
CancelledButCompleted   == 4
RecoveryRequired        == 5
OutcomeUnknown          == 6

OutcomeValid(outcome) ==
    outcome \in {CancelledBeforeDispatch, RefusedBeforeEffects, Completed,
                 CancelledButCompleted, RecoveryRequired, OutcomeUnknown}

OutcomeName(outcome) ==
    CASE outcome = CancelledBeforeDispatch -> "cancelled_before_dispatch"
      [] outcome = RefusedBeforeEffects -> "refused_before_effects"
      [] outcome = Completed -> "completed"
      [] outcome = CancelledButCompleted -> "cancellation_requested_but_completed"
      [] outcome = RecoveryRequired -> "recovery_required"
      [] outcome = OutcomeUnknown -> "outcome_unknown"
      [] OTHER -> "unknown"

\* A struct that is as large as its declared type; the flags are C integers.
Flag == 0..2
Identity == [whole : BOOLEAN, operation_id : Ids, attempt_id : Ids]
Recovery == [whole : BOOLEAN, required : Flag, transaction_id : Transactions,
             inspect_command : Commands]
Result == [whole : BOOLEAN, identity : Identity, outcome : 0..7,
           effects : Flag, recovery : Recovery]

ResultInit ==
    /\ result \in Result
    /\ answer = "unasked"
-----------------------------------------------------------------------------
IdentityValid(identity) ==
    /\ identity.whole
    /\ Accepts("identifier", identity.operation_id)
    /\ Accepts("identifier", identity.attempt_id)

\* Every field is well formed by itself.
FieldsValid(r) ==
    /\ r.whole
    /\ IdentityValid(r.identity)
    /\ OutcomeValid(r.outcome)
    /\ r.effects \in {0, 1}
    /\ r.recovery.whole
    /\ r.recovery.required \in {0, 1}
    /\ Accepts("identifier_or_empty", r.recovery.transaction_id)
    /\ r.recovery.inspect_command.text # << >> => r.recovery.inspect_command.data

PreEffect(r) == r.outcome \in {CancelledBeforeDispatch, RefusedBeforeEffects}

Uncertain(r) == r.outcome \in {RecoveryRequired, OutcomeUnknown}

\* Mutant: only the absence of the recovery flag is checked.
Consistent_FlagOnly(r) ==
    /\ PreEffect(r) => r.effects = 0 /\ r.recovery.required = 0
    /\ Uncertain(r) => /\ r.effects = 1
                       /\ r.recovery.required = 1
                       /\ Accepts("command", r.recovery.inspect_command)
    /\ ~ Uncertain(r) => r.recovery.required = 0

\* The fields agree with the outcome: the three consistency checks.
Consistent(r) ==
    /\ PreEffect(r) => r.effects = 0 /\ r.recovery.required = 0
    /\ Uncertain(r) => /\ r.effects = 1
                       /\ r.recovery.required = 1
                       /\ Accepts("command", r.recovery.inspect_command)
    /\ ~ Uncertain(r) => /\ r.recovery.required = 0
                         /\ r.recovery.transaction_id.text = << >>
                         /\ r.recovery.inspect_command.text = << >>

ValidateResult ==
    /\ answer = "unasked"
    /\ answer' = IF FieldsValid(result) /\ Consistent(result) THEN "ok"
                 ELSE "invalid_argument"
    /\ UNCHANGED result

ResultNext == ValidateResult

ResultSpec == ResultInit /\ [][ResultNext]_resultVars
-----------------------------------------------------------------------------
(***************************************************************************)
(* operation_outcome.v1.schema.json, read as a table: for each outcome     *)
(* name, the effects flags it may come with and whether it comes with a    *)
(* way to recover.                                                         *)
(***************************************************************************)
Table == [cancelled_before_dispatch            |-> <<{0}, FALSE>>,
          refused_before_effects               |-> <<{0}, FALSE>>,
          completed                            |-> <<{0, 1}, FALSE>>,
          cancellation_requested_but_completed |-> <<{0, 1}, FALSE>>,
          recovery_required                    |-> <<{1}, TRUE>>,
          outcome_unknown                      |-> <<{1}, TRUE>>]

FitsSchema(r) ==
    LET name == OutcomeName(r.outcome)
        command == r.recovery.inspect_command
        transaction == r.recovery.transaction_id
    IN  /\ name \in DOMAIN Table
        /\ Identifier(r.identity.operation_id.text)
        /\ Identifier(r.identity.attempt_id.text)
        /\ r.effects \in Table[name][1]
        /\ IF Table[name][2]
           THEN /\ r.recovery.required = 1
                /\ CommandName(command.text)
                /\ transaction.text = << >> \/ Identifier(transaction.text)
           ELSE /\ r.recovery.required = 0
                /\ command.text = << >>
                /\ transaction.text = << >>

\* Every struct is complete and every view that spans something has data.
Readable(r) ==
    /\ r.whole /\ r.identity.whole /\ r.recovery.whole
    /\ \A v \in {r.identity.operation_id, r.identity.attempt_id,
                 r.recovery.transaction_id, r.recovery.inspect_command} :
         v.text # << >> => v.data

(***************************************************************************)
(* The validator accepts exactly the results the published schema admits:  *)
(* no result that claims that nothing happened carries effects or a        *)
(* recovery, every uncertain one says how to inspect it, and none that the *)
(* schema admits is refused.                                               *)
(***************************************************************************)
ValidIffFitsSchema ==
    answer # "unasked" => (answer = "ok" <=> Readable(result) /\ FitsSchema(result))
=============================================================================
