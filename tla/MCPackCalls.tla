------------------------------ MODULE MCPackCalls -------------------------------
EXTENDS PackCalls, TLC

Node(retry, timeout, control) == [retry |-> retry, timeout |-> timeout, control |-> control]

\* The nodes of the pilot's and the verification suite's graphs.
WriteNodes == {Node(TRUE, TRUE, FALSE), Node(FALSE, FALSE, FALSE)}
ReadNodes == {Node(FALSE, FALSE, FALSE), Node(FALSE, FALSE, TRUE)}
ForgetNodes == {Node(FALSE, TRUE, FALSE)}

MCPlans ==
    [cap : {"add", "cognify"}, node : WriteNodes, mode : {"normal", "test"}, allow : {FALSE}]
    \cup [cap : {"searchChunks"}, node : ReadNodes, mode : {"normal", "test"}, allow : {FALSE}]
    \cup [cap : {"forgetDataset"}, node : ForgetNodes, mode : {"normal", "test"}, allow : BOOLEAN]

\* Domains A and B of the pilot.
MCGrantSets ==
    {{"cognee.write", "cognee.search"}, {"cognee.write", "cognee.search", "cognee.delete"}}

MCSymmetry == Permutations(Run)
=============================================================================
