---------------------------- MODULE CompleteReads ----------------------------
(***************************************************************************)
(* What reading a catalogue list promises: an answer is the whole set of   *)
(* rows that could be seen at one instant between the call and its end, or *)
(* there is no answer.                                                     *)
(***************************************************************************)
CONSTANTS Ids, Reads

VARIABLES
    visible,    \* the rows that can be seen now
    answer,     \* what a call has settled on
    ended       \* the calls that are not under way

vars == <<visible, answer, ended>>

Nothing == [taken |-> FALSE, ids |-> {}]

Init ==
    /\ visible \in SUBSET Ids
    /\ answer = [r \in Reads |-> Nothing]
    /\ ended \in SUBSET Reads

Change == visible' \in SUBSET Ids /\ UNCHANGED <<answer, ended>>

Begin(r) ==
    /\ r \in ended
    /\ ended' = ended \ {r}
    /\ answer' = [answer EXCEPT ![r] = Nothing]
    /\ UNCHANGED visible

Take(r) ==
    /\ r \notin ended /\ ~answer[r].taken
    /\ answer' = [answer EXCEPT ![r] = [taken |-> TRUE, ids |-> visible]]
    /\ UNCHANGED <<visible, ended>>

Give(r) ==
    /\ r \notin ended /\ answer[r].taken
    /\ ended' = ended \cup {r}
    /\ UNCHANGED <<visible, answer>>

Refuse(r) ==
    /\ r \notin ended
    /\ ended' = ended \cup {r}
    /\ answer' = [answer EXCEPT ![r] = Nothing]
    /\ UNCHANGED visible

Next == Change \/ \E r \in Reads : Begin(r) \/ Take(r) \/ Give(r) \/ Refuse(r)

Spec == Init /\ [][Next]_vars
=============================================================================
