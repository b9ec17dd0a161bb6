---- MODULE MCWebhookDelivery ----
EXTENDS WebhookDelivery, TLC
CONSTANTS e1, e2, w1, w2, g1
\* Three deliveries: an event for both webhooks, and one for the first.
TwoTargets == (e1 :> {w1, w2}) @@ (e2 :> {w1})
ThreeOrOne == (w1 :> 3) @@ (w2 :> 1)
\* Two deliveries.
OneTarget == (e1 :> {w1}) @@ (e2 :> {w1})
====
