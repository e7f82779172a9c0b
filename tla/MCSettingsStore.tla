--------------------------- MODULE MCSettingsStore ---------------------------
(* A number, a switch and a choice; callers try good values, one that is    *)
(* lost in printing and one that is out of range.                           *)
EXTENDS SettingsStore

scale == <<"display", "scale", "factor">>
dock == <<"dock", "enabled">>

MCKeys == {scale, dock}
MCChanges == {<<scale, [dbl |-> 1333]>>, <<scale, [int |-> 2]>>, <<scale, [dbl |-> 12000]>>,
              <<dock, [bool |-> FALSE]>>, <<dock, [int |-> 1]>>}
MCEdits == {<<scale, Num(500)>>, <<scale, Num(0)>>, <<scale, Word("big")>>,
            <<dock, Num(0)>>}

\* Files for --config: a good one, one with a malformed line, one that is refused.
MCCustoms == {File([DefaultValues EXCEPT ![scale] = n], cut) :
                <<n, cut>> \in {<<Num(200), {}>>, <<Num(200), {dock}>>, <<Num(0), {}>>}}
=============================================================================
