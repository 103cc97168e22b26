------------------------------- MODULE MCRelease -------------------------------
(* Release with a wheel and a source archive, and the trees that the        *)
(* scrubber tells apart: one in which every key is let through, and three   *)
(* with one that must not be.                                               *)
EXTENDS Release

Plain == [skipped |-> FALSE, fixture |-> FALSE, named |-> FALSE,
          keyName |-> FALSE, readable |-> TRUE, body |-> "clean"]

Secret == [Plain EXCEPT !.body = "secret"]
KeyFile == [Plain EXCEPT !.keyName = TRUE]

LetThroughTree ==
  {Plain,
   [KeyFile EXCEPT !.skipped = TRUE], [KeyFile EXCEPT !.fixture = TRUE],
   [Secret EXCEPT !.named = TRUE], [Secret EXCEPT !.readable = FALSE],
   [Plain EXCEPT !.body = "late"]}

MCTrees == {LetThroughTree, {Plain, Secret}, {Plain, KeyFile},
            {Plain, [KeyFile EXCEPT !.named = TRUE]}}

(* What the workflow passes at this commit, and what the script documents.  *)
MCFlagSets == {{"--tree", "--strict"}, {"--root"}}

MCLower == [n \in {"Rich", "rich", "cosign"} |-> IF n = "Rich" THEN "rich" ELSE n]

Entry(n, v) == [name |-> n, version |-> v]
MCRequirementLists ==
  {<<>>,
   <<Entry("Rich", "1"), Entry("rich", "unknown")>>,
   <<NotAName, Entry("rich", "unknown"), Entry("cosign", "1"), Entry("Rich", "1")>>}

==============================================================================
