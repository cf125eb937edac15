------------------- MODULE MCIndexerClusterController -------------------
EXTENDS IndexerClusterController

CONSTANTS idx, shc, stsIdx, secIdx, stsShc

\* IndexerCluster idx controls its StatefulSet and its Secret; the
\* StatefulSet of the SearchHeadCluster shc is in the same namespace
MCNames == {idx}
MCObjs == {stsIdx, secIdx, stsShc}
MCObjKind == [o \in MCObjs |-> IF o = secIdx THEN "Secret" ELSE "StatefulSet"]
MCOwner == [o \in MCObjs |->
              IF o = stsShc THEN [kind |-> "SearchHeadCluster", name |-> shc]
                            ELSE [kind |-> "IndexerCluster", name |-> idx]]
==============================================================================
