-------------------------- MODULE PersonaDiscussion --------------------------
(***************************************************************************)
(* The competitive discussion of a candidate (src/nuself/persona/          *)
(* discussion.py, graph.py): who is heard in a turn, and what the scores   *)
(* of the last turn decide. Scores are percentages.                        *)
(***************************************************************************)
EXTENDS Integers, Sequences, FiniteSets, Functions, SequencesExt

CONSTANTS
    Pool,               \* the personas, in the order of their definition
    Emergent,           \* personas the moderator may call in
    Scores,             \* the scores told apart
    MaxParticipants, MaxTurns,
    BlockingThreshold, OverrideThreshold, CompositeThreshold

ASSUME DiscussionAssumption ==
    /\ Pool \in Seq(Range(Pool)) /\ Emergent \cap Range(Pool) = {}
    /\ Scores \subseteq 0..100
    /\ MaxParticipants \in Nat \ {0} /\ MaxTurns \in Nat \ {0}
    /\ {BlockingThreshold, OverrideThreshold, CompositeThreshold} \subseteq 0..100

Nobody == "none"
Neutral == 50
Prefix(s, n) == SubSeq(s, 1, IF n < Len(s) THEN n ELSE Len(s))

\* The host names known personas, in any order and any of them twice; a host
\* that fails, or names none, leaves it to the first of the pool. Names past the
\* last place are never heard.
Selections == {Prefix(Pool, MaxParticipants)} \cup
              (BoundedSeq(Range(Pool), MaxParticipants) \ {<<>>})

\* An emergent persona takes the last place.
ParticipantsForTurn(selected, emergent) ==
    IF emergent = Nobody THEN Prefix(selected, MaxParticipants)
    ELSE Append(Prefix(selected, MaxParticipants - 1), emergent)

\* One score per persona that speaks: a persona whose agent fails is neutral,
\* one that was selected twice is counted once.
Scorings(participants) == [Range(participants) -> Scores \cup {Neutral}]

\* What the moderator may answer; one that fails goes on with nobody new.
Judgments == [converged : BOOLEAN, emergent : Emergent \cup {Nobody}]

Called(judgment, emergent) ==
    IF judgment.emergent = Nobody THEN emergent ELSE judgment.emergent

LastTurn(turn, judgment) == judgment.converged \/ turn >= MaxTurns

Total(scores) == FoldFunction(LAMBDA a, b : a + b, 0, scores)
Blocking(scores) == {p \in DOMAIN scores : scores[p] < BlockingThreshold}
Strong(scores) == {p \in DOMAIN scores : scores[p] > OverrideThreshold}

\* A veto stands unless two others are strongly for it; then the mean decides.
Approved(scores) ==
    /\ Blocking(scores) = {} \/ Cardinality(Strong(scores)) >= 2
    /\ Total(scores) >= CompositeThreshold * Cardinality(DOMAIN scores)
=============================================================================
