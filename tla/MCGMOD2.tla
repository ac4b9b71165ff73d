------------------------------- MODULE MCGMOD2 -------------------------------
EXTENDS GMOD2

Call(o, a, w) == [op |-> o, address |-> a, word |-> w]

\* an address in each half; the last one, behind which reading begins anew
Lowest == <<0, 0, 0>>
Highest == <<1, 1, 1>>
MCCalls == {Call("WRITE", Highest, <<0, 1>>), Call("READ", Highest, <<0, 0>>),
            Call("ERASE", Lowest, <<0, 0>>),
            Call("WEN", Lowest, <<0, 0>>), Call("WDS", Lowest, <<0, 0>>),
            Call("ERAL", Lowest, <<0, 0>>), Call("WRAL", Lowest, <<0, 1>>)}
=============================================================================
