------------------------- MODULE StatementLifecycle -------------------------
(***************************************************************************)
(* What the pipeline promises about one statement, whatever requests are   *)
(* served to get there: its status only moves forward, its transactions    *)
(* appear once and together with COMPLETED, and only a statement that      *)
(* awaits a review can be thrown away.                                     *)
(***************************************************************************)
EXTENDS Naturals

CONSTANTS
    Ids,      \* statement ids
    ContentOf \* the bytes a statement is made from

VARIABLES
    phase,    \* the status of each statement, "ABSENT" when there is none
    copies    \* how often the statement's transactions are in the table

Init ==
    /\ phase = [i \in Ids |-> "ABSENT"]
    /\ copies = [i \in Ids |-> 0]

\* Unfinished: the run that decides the statement's fate is not over.
Open(i) == phase[i] \in {"PROCESSING", "AWAITING_REVIEW"}

\* One statement at a time for the same bytes.
Create(i) ==
    /\ phase[i] = "ABSENT"
    /\ \A j \in Ids : ContentOf[j] = ContentOf[i] => phase[j] = "ABSENT"
    /\ phase' = [phase EXCEPT ![i] = "PROCESSING"]
    /\ UNCHANGED copies

Pause(i) ==
    /\ phase[i] = "PROCESSING"
    /\ phase' = [phase EXCEPT ![i] = "AWAITING_REVIEW"]
    /\ UNCHANGED copies

Complete(i) ==
    /\ Open(i)
    /\ phase' = [phase EXCEPT ![i] = "COMPLETED"]
    /\ copies' = [copies EXCEPT ![i] = @ + 1]

Fail(i) ==
    /\ Open(i)
    /\ phase' = [phase EXCEPT ![i] = "FAILED"]
    /\ UNCHANGED copies

Discard(i) ==
    /\ phase[i] = "AWAITING_REVIEW"
    /\ phase' = [phase EXCEPT ![i] = "ABSENT"]
    /\ UNCHANGED copies

Next == \E i \in Ids : Create(i) \/ Pause(i) \/ Complete(i) \/ Fail(i) \/ Discard(i)

Spec == Init /\ [][Next]_<<phase, copies>>

=============================================================================
