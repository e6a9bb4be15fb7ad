------------------------------ MODULE EventLog ------------------------------
(* What the outbox, the stream and the inbox promise together: every event   *)
(* that was written to the outbox has its effect, and has it once.           *)
EXTENDS Sequences, Functions

CONSTANTS Events, Refused   \* Refused: the events whose effect always raises

VARIABLES written, log      \* the outbox's events; the effects, in order

Init == written = {} /\ log = <<>>

Write(e) ==
    /\ e \in Events \ written
    /\ written' = written \cup {e} /\ UNCHANGED log

Effect(e) ==
    /\ e \in written \ (Range(log) \cup Refused)
    /\ log' = Append(log, e) /\ UNCHANGED written

Next == \E e \in Events : Write(e) \/ Effect(e)

Spec ==
    /\ Init /\ [][Next]_<<written, log>>
    /\ \A e \in Events : WF_<<written, log>>(Effect(e))
=============================================================================
