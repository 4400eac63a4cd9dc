----------------------------- MODULE MCPipeline -----------------------------
(***************************************************************************)
(* Small pipelines for TLC: a manifest check, a build, two test steps, one *)
(* with a table of points and a bonus case and one with a flat rate, and a *)
(* step without a scorer.  A pipeline may list a step twice: the two then  *)
(* share its scorer.                                                       *)
(***************************************************************************)
EXTENDS Pipeline

CONSTANTS check, build, tests, again, bare, c1, c2

MCScorers == {"checkScorer", "buildScorer", "testScorer", "againScorer"}

MCScorerOf == [s \in Steps |-> CASE s = check -> "checkScorer"
                                 [] s = build -> "buildScorer"
                                 [] s = tests -> "testScorer"
                                 [] s = again -> "againScorer"
                                 [] OTHER -> NoScorer]

\* check: one violation is tolerated.  tests: c1 is worth 3, c2 is a bonus case;
\* half of the attempted cases give 2 points.  again: one case was declared and
\* two may be reported; two thirds of the attempted cases give 1 point.
MCConfig == [s \in Scorers |->
  CASE s = "checkScorer" -> CleanRunScorer(2, 1, TRUE, 0)
    [] s = "buildScorer" -> AllOrNothingScorer(2, 1)
    [] s = "testScorer"  -> TableCaseScorer([n \in {c1} |-> 3],
                                            [n \in Cases |-> IF n = c2 THEN 1 ELSE 0],
                                            GimmeConfig(1, 2, 2))
    [] s = "againScorer" -> FlatCaseScorer(2, 1, [n \in Cases |-> 0], GimmeConfig(2, 3, 1))]

\* check turns a manifest into a manifest, the tests want artifacts and pass
\* them on, the steps in between build them.
MCValidInputs == [s \in Steps |->
  CASE s = check -> {"Start", "Manifest"} [] s \in {tests, again} -> {"Artifacts"}
    [] OTHER -> {"Manifest"}]
MCValidOutput == [s \in Steps |-> IF s = check THEN "Manifest" ELSE "Artifacts"]
==============================================================================
