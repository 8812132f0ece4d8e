---------------------------- MODULE MCAgentTurns ----------------------------
(***************************************************************************)
(* Values for TLC: a thread with its first message and a follow-up, and    *)
(* optionally a second thread.                                             *)
(***************************************************************************)
EXTENDS AgentTurns, TLC

CONSTANTS c1, c2, m1, m2, m3, ben, yes, no, r1, r2, r3

\* A thread with its first message only.
SingleMessage == {m1}
SingleIn == m1 :> c1

\* One thread of two messages.
ThreadMessages == {m1, m2}
ThreadIn == m1 :> c1 @@ m2 :> c1

\* Two threads, each with its first message only.
TabMessages == {m1, m3}
TabIn == m1 :> c1 @@ m3 :> c2

Symmetric == Permutations(Requests) \cup Permutations(Answers)

=============================================================================
