---------------------------- MODULE MCCveStore ----------------------------
EXTENDS CveStore

\* NVD has a 2.0 score, which comes without a severity; GitHub names a severity without a
\* score.
SmallOffers == [nvd |-> {<<98, "UNKNOWN">>},
                github |-> {<<NoScore, "MEDIUM">>}]

\* NVD has references, GitHub neither list, and OSV both.
SmallLists == [nvd |-> {<<TRUE, FALSE>>}, github |-> {<<FALSE, FALSE>>}, osv |-> {<<TRUE, TRUE>>}]

Vector(version, score) == [version |-> version, score |-> score]

\* A 4.0 vector, which is not scored, with a label, and one before two scored vectors.
SmallDocs == {[vectors |-> <<Vector("4.0", NoScore)>>, label |-> "CRITICAL"],
              [vectors |-> <<Vector("4.0", NoScore), Vector("2.0", 70), Vector("3.1", 65)>>,
               label |-> NoLabel]}
=============================================================================
