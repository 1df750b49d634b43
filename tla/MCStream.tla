------------------------------ MODULE MCStream ------------------------------
(***************************************************************************)
(* TLC instance of MQTTStream: names of up to four places and well-formed  *)
(* filters of up to three.                                                 *)
(***************************************************************************)
EXTENDS MQTTStream

Strings(S, n) == UNION {[1..k -> S] : k \in 1..n}
ShortNames == {<<"a">>, <<"a", "b">>, <<"/">>, <<"/", "a">>, <<"a", "/">>, <<"a", "/", "a", "b">>}
ShortFilters == {f \in Strings({"a", Separator, SingleLevel, MultiLevel}, 3) :
                    WellFormed(f)}
=============================================================================
