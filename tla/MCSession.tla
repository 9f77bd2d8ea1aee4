----------------------------- MODULE MCSession -----------------------------
(* Three files: textured with an image that does not upload and one too many, *)
(* plain, and large enough to be streamed by default.                        *)
EXTENDS Session

MCFiles == [f \in {"textured", "plain", "large"} |->
  [images |-> IF f = "textured" THEN <<TRUE, FALSE, TRUE>> ELSE <<>>,
   uvs |-> f = "textured", large |-> f = "large"]]

Viewing == <<"interactive", TRUE>>
Bench(frames, warmup) == <<<<"benchmark", TRUE>>, <<"frames", frames>>, <<"warmup", warmup>>>>
MCCmdLines == {
  <<<<"help", TRUE>>>>,
  <<Viewing>>,
  <<Viewing, <<"glb", "textured">>>>,
  <<Viewing, <<"glb", "large">>>>,
  <<Viewing, <<"glb", "large">>, <<"residency", "off">>, <<"directGpuLoad", FALSE>>>>,
  <<Viewing, <<"glb", "plain">>, <<"residency", "on">>, <<"compressed", FALSE>>>>,
  <<Viewing, <<"zorah", 0>>, <<"residency", "on">>>>,
  <<<<"residency", "on">>>> \o Bench(0, -1),
  <<<<"zorah", 5>>, <<"compressed", FALSE>>>> \o Bench(3, 1),
  <<<<"zorah", 5>>, <<"headless", 0>>>>,
  <<<<"glb", "large">>, <<"headless", 2>>>>,
  <<<<"glb", "large">>, <<"residency", "on">>, <<"prefixSum", FALSE>>>> \o Bench(2, 4),
  <<<<"zorah", 5>>, <<"headless", 2>>, <<"residency", "off">>>> \o Bench(1, 4),
  <<<<"glb", "textured">>>> \o Bench(3, 1)}
=============================================================================
