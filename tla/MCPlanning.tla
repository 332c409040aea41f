----------------------------- MODULE MCPlanning -----------------------------
(* Four nodes: two of model "a", one "b", and one "c" without a compute      *)
(* estimate; one of the four has less memory; three workers.                 *)
EXTENDS Planning

MCModel      == <<"a", "b", "a", "c">>
MCMemory     == <<2, 2, 1, 2>>
MCCompute    == [a |-> 4, b |-> 2]
MCAdvertised == <<3, 2, 1, 1>>
MCProbed     == {<<1, 2>>, <<2, 1>>}
MCSkew       == <<1, -1, 0, 0>>
MCReadings   == {Nodes}

Setting(policy, gpus, memory, useAdvertised, fallback) ==
  [policy |-> policy, accelerator |-> "a", gpus |-> gpus, memory |-> memory,
   useAdvertised |-> useAdvertised, fallback |-> fallback]

(* Plans over known links only, over any link, and without the links; a      *)
(* search of 20 candidates exceeds the limit of 15.                          *)
MCSettings == {
  Setting("topology_only", <<2, 1, 2, 0>>, 1, TRUE, 0),
  Setting("combined", <<1, 2, 2, 1>>, 1, TRUE, 2),
  Setting("combined", <<2, 2, 1, 1>>, 1, FALSE, 2),
  Setting("workload_compute", <<1, 2, 1, 1>>, 2, FALSE, 0),
  Setting("accelerator_type", <<2, 2, 1, 1>>, 1, FALSE, 0),
  Setting("gpu_count", <<1, 1, 1, 1>>, 1, FALSE, 0),
  Setting("gpu_count", <<1, 0, 1, 0>>, 1, FALSE, 0)}
=============================================================================
