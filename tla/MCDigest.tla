------------------------------ MODULE MCDigest -------------------------------
(* Instances of Digest for TLC.                                            *)
EXTENDS Digest, TLC

CONSTANTS s1, p1, p2, w1, w2, o1

(* Two workers whose processes have the same id.                           *)
SameOwner == w1 :> o1 @@ w2 :> o1

(* Two campaigns about different posts.                                    *)
TwoPosts == <<p1, p2>>

=============================================================================
