---------------------------- MODULE MCClusterChain ----------------------------
(* ClusterChain for TLC: the FSInfo sector names cluster 2 as the last one    *)
(* allocated, as f_mkfs leaves it.                                            *)
EXTENDS ClusterChain

MCInit == Init /\ fsinfo.last = 2
MCSpec == MCInit /\ [][Next]_vars /\ WF_vars(Step /\ History)
===============================================================================
