----------------------------- MODULE Conversations -----------------------------
(***************************************************************************)
(* What the session store and the chat handlers promise together, without  *)
(* clocks, limits, endpoints or steps: a conversation is asked in and      *)
(* answered, or forgotten as a whole.                                      *)
(*                                                                         *)
(* A question holds the conversation as it goes upstream: what is stored,  *)
(* and what the client adds.  The answer makes the conversation exactly    *)
(* that and itself, and nothing else ever writes to it.  With each of      *)
(* these steps any conversations may be forgotten, also the one that is    *)
(* asked in, before the question or after it.                              *)
(***************************************************************************)
EXTENDS Naturals, Sequences

CONSTANTS
    Sids,   \* conversations
    Turns   \* what they consist of

VARIABLES
    log,    \* log[s]: the turns of s
    held    \* held[s]: s as its question went upstream, <<>> if there is none

Init ==
    /\ log = [s \in Sids |-> <<>>]
    /\ held = [s \in Sids |-> <<>>]

\* The conversations without those of F.
Kept(F) == [s \in Sids |-> IF s \in F THEN <<>> ELSE log[s]]

\* ts begins with the turns of us.
Extends(ts, us) == Len(us) <= Len(ts) /\ \A i \in 1..Len(us) : ts[i] = us[i]

Ask(s, F) ==
    /\ held[s] = <<>>
    /\ log' = Kept(F)
    /\ held' = [held EXCEPT ![s] = held'[s]]
    /\ held'[s] \in Seq(Turns)
    /\ Extends(held'[s], Kept(F)[s])

Answer(s, F) ==
    /\ held[s] # <<>>
    /\ held' = [held EXCEPT ![s] = <<>>]
    /\ \E a \in Turns : log' = [Kept(F) EXCEPT ![s] = Append(held[s], a)]

\* No answer will come to the question.
GiveUp(s, F) ==
    /\ held' = [held EXCEPT ![s] = <<>>]
    /\ log' = Kept(F)

Forget(F) ==
    /\ log' = Kept(F)
    /\ UNCHANGED held

Next ==
    \E F \in SUBSET Sids :
        \/ \E s \in Sids : Ask(s, F) \/ Answer(s, F) \/ GiveUp(s, F)
        \/ Forget(F)

Spec == Init /\ [][Next]_<<log, held>>

=============================================================================
