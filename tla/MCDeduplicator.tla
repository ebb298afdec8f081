--------------------------- MODULE MCDeduplicator ----------------------------
(***************************************************************************)
(* Two evidences of two documents each; either may be normalized first.     *)
(* The second documents share the external key; the last has the content    *)
(* hash of the first.  The third is similar to the first, in fingerprint    *)
(* and in meaning, and with a window of one fingerprint the second hides    *)
(* that.  The second's canonical URL is the third's URL as it was found:    *)
(* canonicalising the third takes that away.                                *)
(***************************************************************************)
EXTENDS Deduplicator

CONSTANTS feed, page, n1, n2, d1, d2, k1, u1, u2, u2x, u2y, u3, h1, h2, h3, news, sport, chess

Content(k, raw, u, h, s, t) ==
  [ext |-> k, rawUrl |-> raw, url |-> u, hash |-> h, sim |-> s, topic |-> t]

TwoRaws == {feed, page}
Parsed == [r \in TwoRaws |->
  IF r = feed
    THEN <<Content(None, u1, u1, h1, 10, news), Content(k1, u2x, u2, h2, 20, sport)>>
    ELSE <<Content(None, u2, u2y, h3, 11, news), Content(k1, u3, u3, h1, None, chess)>>]
TwoNormalizers == {n1, n2}
TwoDeduplicators == {d1, d2}
==============================================================================
