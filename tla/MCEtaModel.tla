------------------------------ MODULE MCEtaModel ------------------------------
(* Finished cooks for EtaModel: steady, pulled short of the target, stalled and  *)
(* falling back at the end, in a hot chamber, and one that teaches nothing.      *)
EXTENDS EtaModel

Cook(id, meat, amb, tips, times) ==
    [id |-> id, meat |-> meat,
     pts |-> [i \in 1 .. Len(tips) |-> [at |-> times[i], tip |-> tips[i], amb |-> amb]]]

MCPastCooks == {
    Cook(1, "pork", 6, <<0, 2, 4>>, <<0, 2, 5>>),
    Cook(2, "pork", 9, <<0, 1, 3>>, <<0, 1, 2>>),
    Cook(3, "beef", 5, <<1, 3, 2, 4, 3>>, <<0, 1, 4, 9, 11>>),
    Cook(4, "pork", 6, <<2, 3, 2>>, <<0, 1, 2>>) }

MCTemperatures == {[tip |-> 0, amb |-> 4], [tip |-> 2, amb |-> 7], [tip |-> 3, amb |-> 4]}

MCStallRate == <<1, 2>>
MCLiveStall == <<1, 4>>
MCBlendCap == <<3, 4>>
=============================================================================
