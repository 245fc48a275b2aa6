------------------------------ MODULE MCServices ------------------------------
\* Services with its providers, for TLC.
EXTENDS Services, TLC

MCPostList == <<"TaalArcBeef", "Bitails", "WhatsOnChain">>
MCPostTxs == <<"y1", "y2">>
================================================================================
