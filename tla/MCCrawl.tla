------------------------------ MODULE MCCrawl ------------------------------
(* Instances of Crawl for TLC.                                             *)
EXTENDS Crawl, TLC

CONSTANTS s1, p1, p2, i1, i2, i3, u1, u2, u3, h1, h2, a1, a2

(* One page with two posts, the first of them under two ids and two URLs.  *)
OneSource == p1 :> s1 @@ p2 :> s1
TwoIds == i1 :> p1 @@ i2 :> p1 @@ i3 :> p2
TwoUrls == u1 :> p1 @@ u2 :> p1 @@ u3 :> p2
TwoTexts == h1 :> h1 @@ h2 :> h2

(* Agents with pids of their own: each has a string that stands for it.    *)
OwnString == a1 :> a1 @@ a2 :> a2

(* Agents are interchangeable, each with its string, and so are contents,  *)
(* the ids of the first post and its URLs.                                 *)
Symmetry ==
    Permutations(Agents) \cup Permutations(Hashes)
        \cup Permutations({i1, i2}) \cup Permutations({u1, u2})
=============================================================================
