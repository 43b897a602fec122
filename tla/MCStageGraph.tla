---------------------------- MODULE MCStageGraph ----------------------------
(* Graphs of four stages over four cpus. *)
EXTENDS StageGraph

\* A chain, a diamond, two chains of different length that meet, three
\* stages before one, one before three, four beside each other, and a stage
\* nothing depends on beside a chain.
FourStages ==
    { {<<1, 2>>, <<2, 3>>, <<3, 4>>},
      {<<1, 2>>, <<1, 3>>, <<2, 4>>, <<3, 4>>},
      {<<1, 3>>, <<3, 4>>, <<2, 4>>},
      {<<1, 4>>, <<2, 4>>, <<3, 4>>},
      {<<1, 2>>, <<1, 3>>, <<1, 4>>},
      {},
      {<<1, 2>>, <<1, 3>>, <<3, 4>>} }

Act == [parallel |-> FALSE, priority |-> AUTO, retries |-> 0]
Execute == [parallel |-> TRUE, priority |-> AUTO, retries |-> 0]
ExecuteNormal == [parallel |-> TRUE, priority |-> NORMAL, retries |-> 2]
ExecuteHigh == [parallel |-> TRUE, priority |-> HIGH, retries |-> 0]

FourKinds == {Act, Execute, ExecuteNormal, ExecuteHigh}


Diamond == {{<<1, 2>>, <<1, 3>>, <<2, 4>>, <<3, 4>>}}
TwoKinds == {Execute, ExecuteNormal}
=============================================================================
