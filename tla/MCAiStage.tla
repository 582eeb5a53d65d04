------------------------------ MODULE MCAiStage ------------------------------
(* Instances of AiStage for TLC. *)
EXTENDS AiStage, TLC

Bailian == [compat |-> FALSE, pinned |-> FALSE, addresses |-> 1]
OpenAi(n) == [compat |-> TRUE, pinned |-> TRUE, addresses |-> n]

Input(k, s, n, a, m) == [kind |-> k, size |-> s, note |-> n, adapter |-> a, attempts |-> m]

\* Budget is 3: cues that fit in pairs, one by one, or not at all.
Several == {Input("translate", <<1, 1, 1>>, 1, Bailian, 2), Input("translate", <<1, 4>>, 1, Bailian, 1),
            Input("translate", <<1>>, 1, OpenAi(1), 2), Input("notes", <<1>>, 1, OpenAi(1), 2),
            Input("notes", <<1, 1, 2>>, 1, Bailian, 1), Input("notes", <<2, 2>>, 2, Bailian, 1)}
TwoAddresses == {Input("translate", <<2, 1>>, 1, OpenAi(2), 1)}
=============================================================================
