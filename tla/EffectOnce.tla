---------------------------- MODULE EffectOnce ------------------------------
(***************************************************************************)
(* What a fenced effect promises, whoever keeps the promise: the effect of *)
(* an operation happens at most once, effects happen in the order of the   *)
(* epochs that asked for them, and a verdict that is given is true and     *)
(* final.  A verdict may stay open for ever: an uncertain outcome is never *)
(* settled by repeating the effect.                                        *)
(***************************************************************************)
EXTENDS Integers, Sequences

CONSTANTS
    Operation,   \* operation ids
    Generation   \* the epochs that may ask for an effect

VARIABLES
    effects,  \* the effects that happened: [op, generation], in order
    verdict   \* what is known of each operation

Verdict == {"open", "done", "refused"}

Happened(op) == \E i \in DOMAIN effects : effects[i].op = op

Init == /\ effects = <<>>
        /\ verdict = [op \in Operation |-> "open"]

Perform(op, generation) ==
    /\ ~Happened(op)
    /\ verdict[op] = "open"
    /\ \A i \in DOMAIN effects : effects[i].generation =< generation
    /\ effects' = Append(effects, [op |-> op, generation |-> generation])
    /\ UNCHANGED verdict

Affirm(op) == /\ verdict[op] = "open" /\ Happened(op)
              /\ verdict' = [verdict EXCEPT ![op] = "done"]
              /\ UNCHANGED effects

Refuse(op) == /\ verdict[op] = "open" /\ ~Happened(op)
              /\ verdict' = [verdict EXCEPT ![op] = "refused"]
              /\ UNCHANGED effects

Next == \E op \in Operation :
            \/ \E generation \in Generation : Perform(op, generation)
            \/ Affirm(op)
            \/ Refuse(op)

Spec == Init /\ [][Next]_<<effects, verdict>>
=============================================================================
