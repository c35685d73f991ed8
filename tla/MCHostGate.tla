---------------------------- MODULE MCHostGate ----------------------------
(* Small instances of HostGate for TLC. *)
EXTENDS HostGate, TLC

MCBackoff  == [n \in 0..MaxRate |-> n]
MCSymmetry == Permutations(Tasks)

Answer(status, challenge, after) ==
    [status |-> status, challenge |-> challenge, after |-> after]

\* Nothing but the gap delays a request.
PlainAnswers == {Answer("ok", FALSE, 0), Answer("other", FALSE, 0)}

\* And a refusal, whose block is longer than Gap + 1: the gap alone does not
\* enforce it.
RefusingAnswers == PlainAnswers \cup {Answer("denied", FALSE, 0)}

\* Rate limits against the answers that reset the rate state.
RateAnswers ==
    {Answer("ok", FALSE, 0), Answer("unchanged", FALSE, 0), Answer("denied", FALSE, 0),
     Answer("busy", FALSE, 3), Answer("busy", FALSE, Forever)}

=============================================================================
