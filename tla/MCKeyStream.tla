---------------------------- MODULE MCKeyStream ----------------------------
(* KeyStream for TLC: the keys, pastes and names of the run.               *)
EXTENDS KeyStream

AllKeys ==
    {<<"x">>, <<"@">>, <<"lead", "c1">>, <<"cr">>, <<"bs">>, <<"tab">>, <<"ctrlw">>,
     <<"ctrlu">>, <<"ctrlc">>, <<"i">>, <<":">>, <<"?">>, <<"q">>, <<"msg">>,
     <<"esc">>, <<"esc", "[", "A">>, <<"esc", "[", "B">>, <<"esc", "[", "2", "~">>}

TwoLines    == <<"me", "lead", "c2", "cr">>
CutOff      == <<"quote", "lead", "bar">>
PlainPastes == {TwoLines, CutOff}

Nobody == <<"x">>

TwoNames == {<<"lead", "c1">>, <<"lead", "c2">>}
=============================================================================
