------------------------- MODULE MCWebhookIngestion -------------------------
(* Two events, one of them unreadable, three deliveries, two workers.        *)
EXTENDS WebhookIngestion, TLC

CONSTANTS readable, unreadable, r1, r2, r3, w1, w2

Events == {readable, unreadable}
Unreadable == {unreadable}
OneEvent == {readable}
None == {}
Requests == {r1, r2, r3}
Workers == {w1, w2}

Alike == Permutations(Requests) \union Permutations(Workers)
=============================================================================
