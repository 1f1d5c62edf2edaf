------------------------- MODULE MCStoreController -------------------------
(* Protocols of up to two replicas and one partition, ready and not.        *)
EXTENDS StoreController

MCStatuses ==
    {NoStatus} \cup
    [replicas : {<<TRUE, FALSE>>, <<FALSE, TRUE>>}, partitions : {<<TRUE>>}] \cup
    [replicas : {<<TRUE, TRUE>>}, partitions : {<<TRUE>>, <<FALSE>>}]
=============================================================================
