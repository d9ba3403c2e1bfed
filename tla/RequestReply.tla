------------------------------ MODULE RequestReply ------------------------------
(***************************************************************************)
(* What a submission promises over a channel it shares with others          *)
(* (submit_transaction of a transport): the peer answers a request some      *)
(* number of times; each request takes answers of its own only, each at most *)
(* once, in the order they were given, and may miss any; the first final one *)
(* it takes is the last.  There is no channel, no lock and no session here.  *)
(***************************************************************************)
EXTENDS Naturals, Sequences

CONSTANTS
    Requests,            \* the calls, each made once
    Answers,             \* what the peer may answer
    Final,               \* the answers that end a call
    Start,               \* the result of a call before its first answer
    After(_, _)          \* its result after one more answer

VARIABLES
    stage,               \* "new", "open", "answered" or "failed"
    result,              \* what a request has come to
    told,                \* the answers given to it so far
    coming               \* the numbers of those it may still take

vars == <<stage, result, told, coming>>

Init ==
    /\ stage = [r \in Requests |-> "new"]
    /\ result = [r \in Requests |-> Start]
    /\ told = [r \in Requests |-> <<>>]
    /\ coming = [r \in Requests |-> {}]

Ask(r) ==
    /\ stage[r] = "new"
    /\ \E s \in {"open", "failed"} : stage' = [stage EXCEPT ![r] = s]
    /\ UNCHANGED <<result, told, coming>>

\* The peer answers a request that was made, and not after a final answer.
Answer(r) ==
    /\ stage[r] # "new"
    /\ \A i \in 1..Len(told[r]) : told[r][i] \notin Final
    /\ \E x \in Answers : told' = [told EXCEPT ![r] = Append(@, x)]
    /\ coming' = [coming EXCEPT ![r] = @ \cup {Len(told[r]) + 1}]
    /\ UNCHANGED <<stage, result>>

\* The oldest answer on its way is taken.
Take(r) ==
    /\ stage[r] = "open"
    /\ \E n \in coming[r] :
        /\ \A k \in coming[r] : n <= k
        /\ coming' = [coming EXCEPT ![r] = @ \ {n}]
        /\ result' = [result EXCEPT ![r] = After(@, told[r][n])]
        /\ stage' = [stage EXCEPT ![r] = IF told[r][n] \in Final THEN "answered" ELSE "open"]
    /\ UNCHANGED told

GiveUp(r) ==
    /\ stage[r] = "open"
    /\ stage' = [stage EXCEPT ![r] = "failed"]
    /\ UNCHANGED <<result, told, coming>>

\* Answers on their way are lost, of any requests.
Lose ==
    /\ coming' \in [Requests -> SUBSET Nat]
    /\ \A r \in Requests : coming'[r] \subseteq coming[r]
    /\ UNCHANGED <<stage, result, told>>

Next == Lose \/ \E r \in Requests : Ask(r) \/ Answer(r) \/ Take(r) \/ GiveUp(r)

Spec == Init /\ [][Next]_vars
=============================================================================
