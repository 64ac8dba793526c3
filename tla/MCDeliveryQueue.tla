--------------------------- MODULE MCDeliveryQueue ---------------------------
(* Instances of DeliveryQueue for TLC.                                     *)
EXTENDS DeliveryQueue, TLC

CONSTANTS d1, d2, d3, s1, s2, c1, c2, w1, w2, o1, o2

(* Two workers race for the one row of a campaign with a file.             *)
RaceSubscriberOf == d1 :> s1
RaceCampaignOf == d1 :> c1
RaceOwnerOf == w1 :> o1 @@ w2 :> o2

(* One worker, three rows: two of one campaign, two of one subscriber,     *)
(* each campaign with a file, so that candidate and seed constrain each    *)
(* other.                                                                  *)
BatchSubscriberOf == d1 :> s1 @@ d2 :> s2 @@ d3 :> s1
BatchCampaignOf == d1 :> c1 @@ d2 :> c1 @@ d3 :> c2
BatchOwnerOf == w1 :> o1
=============================================================================
