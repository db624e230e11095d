----------------------------- MODULE RequestLife -----------------------------
(***************************************************************************)
(* What a client may rely on, whatever the scheduler does behind it: a     *)
(* request is open from its submission on, its text grows token by token   *)
(* and never changes otherwise, it ends for a reason that fits its text or *)
(* that the client knows of, the terminal callback comes once, and it      *)
(* comes.  Admission, preemption, recomputation, eviction and batches are  *)
(* not to be seen.                                                         *)
(***************************************************************************)
EXTENDS Integers, Sequences

CONSTANTS
    Seqs, Token, Prompts, MaxTokens,
    StopIds,        \* tokens that end a text
    Abortable,      \* requests that may be aborted or rejected
    MayTimeOut      \* whether there is a deadline

VARIABLES
    state,          \* "new", "open", "closed"
    text,           \* prompt and answer
    longest,        \* the length that ends it
    reason,         \* why it ended, "none" before
    callbacks       \* terminal callbacks

lifeVars == <<state, text, longest, reason, callbacks>>

LifeInit ==
    /\ state = [s \in Seqs |-> "new"]
    /\ text = [s \in Seqs |-> <<>>]
    /\ longest = [s \in Seqs |-> 0]
    /\ reason = [s \in Seqs |-> "none"]
    /\ callbacks = [s \in Seqs |-> 0]

Submit(s) ==
    /\ state[s] = "new"
    /\ \E p \in Prompts : \E n \in Len(p) + 1..MaxTokens :
          /\ text' = [text EXCEPT ![s] = p]
          /\ longest' = [longest EXCEPT ![s] = n]
    /\ state' = [state EXCEPT ![s] = "open"]
    /\ UNCHANGED <<reason, callbacks>>

\* The requests of S are closed.
Close(S) ==
    /\ state' = [s \in Seqs |-> IF s \in S THEN "closed" ELSE state[s]]
    /\ callbacks' = [s \in Seqs |-> IF s \in S THEN callbacks[s] + 1 ELSE callbacks[s]]

\* The reason to stop after the token t, the n-th of a text.
Verdict(t, n, max) == IF t \in StopIds THEN "stop" ELSE IF n >= max THEN "length" ELSE "none"

\* A token; the one that completes the text may close the request at once.
Emit(s, t) ==
    /\ state[s] = "open" /\ reason[s] = "none"
    /\ text' = [text EXCEPT ![s] = Append(@, t)]
    /\ reason' = [reason EXCEPT ![s] = Verdict(t, Len(text'[s]), longest[s])]
    /\ \/ UNCHANGED <<state, callbacks>>
       \/ reason'[s] # "none" /\ Close({s})
    /\ UNCHANGED longest

\* A request whose text is complete is closed.
End(s) ==
    /\ state[s] = "open" /\ reason[s] # "none"
    /\ Close({s})
    /\ UNCHANGED <<text, longest, reason>>

\* Requests are given up.
GiveUp(S, r) ==
    /\ \A s \in S : state[s] = "open" /\ reason[s] = "none"
    /\ IF r = "abort" THEN S \subseteq Abortable ELSE MayTimeOut
    /\ reason' = [s \in Seqs |-> IF s \in S THEN r ELSE reason[s]]
    /\ Close(S)
    /\ UNCHANGED <<text, longest>>

LifeNext ==
    \/ \E s \in Seqs : Submit(s) \/ End(s) \/ \E t \in Token : Emit(s, t)
    \/ \E S \in SUBSET Seqs : \E r \in {"abort", "timeout"} : GiveUp(S, r)

\* What never happens, and what happens eventually.
LifeSafety == LifeInit /\ [][LifeNext]_lifeVars

LifeSpec ==
    /\ LifeSafety
    /\ \A s \in Seqs : state[s] = "open" ~> state[s] = "closed"

=============================================================================
