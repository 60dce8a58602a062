---------------------------- MODULE MCPublishS3 ----------------------------
EXTENDS PublishS3, TLC

\* Two providers, each with its ranked JSON.
TwoKeys == (1 :> 1 @@ 2 :> 2)
JsonOfTwo == (1 :> 1 @@ 2 :> 2)
=============================================================================
