-------------------------- MODULE MCDiscontinuity --------------------------
EXTENDS Discontinuity

Paired == {[video |-> {2}, audio |-> {2}]}
\* A discontinuity of one track only, a pair, and one in front of which no audio came.
Mixed == Paired \cup {[video |-> {2}, audio |-> {}], [video |-> {}, audio |-> {2}],
                      [video |-> {2}, audio |-> {1}]}

Dash == {[RetuneForUnpair |-> FALSE, IsDashAsset |-> TRUE]}
DashAndHls == Dash \cup {[RetuneForUnpair |-> TRUE, IsDashAsset |-> FALSE]}
=============================================================================
